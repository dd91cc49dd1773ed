--------------------------- MODULE NodeServerProofs ---------------------------
(***************************************************************************)
(* Proofs about NodeServer, for any number of request goroutines, publish  *)
(* paths, mounts and mutex objects.                                        *)
(*                                                                         *)
(* The invariant is built in layers, each proved with the help of those    *)
(* before it: where a goroutine can be and what the mount service serves   *)
(* (Base); what the mutex gives while no object of it was removed under a  *)
(* waiter (Excl, Guarded); what kubelet's bookkeeping gives while plugin    *)
(* and kubelet have not drifted apart (Orderly); and what both give        *)
(* together (Sound).                                                       *)
(***************************************************************************)
EXTENDS NodeServer, TLAPS

\* a is past its mutex.
Within(a) == act[a].pc \notin {"idle", "lock"}

-------------------------------------------------------------------------------
(* The first layer: the goroutines and the weeds.                          *)

\* The Volume object a handler has loaded is tracked, so it is not nil.
Mine == \A a \in Actors : act[a].mine => vol # None

\* Where the health monitor's goroutine can be ...
HmRec(x) ==
  /\ ~x.mine /\ ~x.heard /\ x.path = None
  /\ \/ x.pc = "idle" /\ x.op = "none"
     \/ x.pc \in {"lock", "enter", "rebind"} /\ x.op \in {"retry", "recover"}
     \/ /\ x.pc \in {"service", "recheck", "detach", "mount", "quota", "teardown"}
        /\ x.op = "recover"

\* ... and where the goroutine of a request can.
RpcRec(x) ==
  \/ x.pc = "idle" /\ x.op = "none" /\ x.path = None /\ ~x.heard /\ ~x.mine
  \/ x.pc \in {"lock", "enter"} /\ x.op \in {"stage", "unstage"} /\ x.path = None
  \/ x.pc \in {"lock", "enter"} /\ x.op \in {"publish", "unpublish"} /\ x.path \in Paths
  \/ x.pc \in {"clean", "mount", "quota"} /\ x.op = "stage" /\ x.path = None
  \/ x.pc \in {"clean", "mount", "quota", "bind"} /\ x.op = "publish" /\ x.path \in Paths
  \/ x.pc = "unbind" /\ x.op = "unpublish" /\ x.path \in Paths

Shape == HmRec(act[Hm]) /\ \A r \in Rpcs : RpcRec(act[r])

\* Only the weed that the mount service has registered runs.
OnlyReg == \A m \in Mounts : fuse[m] # "dead" => reg = m

\* The types, by who changes the variables.
ActType == act \in [Actors -> Act]
MutexType == mutex \in Locks /\ split \in BOOLEAN
VolType == vol \in Volume \cup {None}
WorldType ==
  /\ staging \in Mounts \cup {None}
  /\ bind \in [Paths -> Bind]
  /\ fuse \in [Mounts -> {"ok", "hung", "dead"}]
  /\ reg \in Mounts \cup {None}
  /\ owed \in {"no", "now", "was"}
KubeletType ==
  /\ kst \in {"no", "trying", "staged"}
  /\ disk \subseteq Paths
  /\ pub \in [Paths -> {"no", "pub", "old", "gone", "oldgone"}]
  /\ adrift \in BOOLEAN

Types == ActType /\ MutexType /\ VolType /\ WorldType /\ KubeletType
Base == Types /\ Mine /\ Shape /\ OnlyReg

-------------------------------------------------------------------------------
(* The locals of a goroutine, one field at a time.                         *)

\* s differs from x in no field but mine, unm, snap, down and pc.
Fixed(s, x) ==
  s.op = x.op /\ s.path = x.path /\ s.lock = x.lock /\ s.heard = x.heard /\ s.hung = x.hung

\* Another program counter.
LEMMA ActPc ==
  ASSUME NEW x \in Act, NEW v \in PCs
  PROVE  LET s == [x EXCEPT !.pc = v]
         IN  /\ s \in Act /\ Fixed(s, x) /\ s.pc = v /\ s.mine = x.mine
             /\ s.unm = x.unm /\ s.snap = x.snap /\ s.down = x.down
  BY DEF Act, Fixed

\* Another view of whether the Volume object is the tracked one.
LEMMA ActMine ==
  ASSUME NEW x \in Act, NEW v \in BOOLEAN
  PROVE  LET s == [x EXCEPT !.mine = v]
         IN  /\ s \in Act /\ Fixed(s, x) /\ s.pc = x.pc /\ s.mine = v
             /\ s.unm = x.unm /\ s.snap = x.snap /\ s.down = x.down
  BY DEF Act, Fixed

\* Another unmounter.
LEMMA ActUnm ==
  ASSUME NEW x \in Act, NEW v \in BOOLEAN
  PROVE  LET s == [x EXCEPT !.unm = v]
         IN  /\ s \in Act /\ Fixed(s, x) /\ s.pc = x.pc /\ s.mine = x.mine
             /\ s.unm = v /\ s.snap = x.snap /\ s.down = x.down
  BY DEF Act, Fixed

\* Another snapshot of the publish paths.
LEMMA ActSnap ==
  ASSUME NEW x \in Act, NEW v \in [Paths -> Modes]
  PROVE  LET s == [x EXCEPT !.snap = v]
         IN  /\ s \in Act /\ Fixed(s, x) /\ s.pc = x.pc /\ s.mine = x.mine
             /\ s.unm = x.unm /\ s.snap = v /\ s.down = x.down
  BY DEF Act, Fixed

\* Other paths taken down.
LEMMA ActDown ==
  ASSUME NEW x \in Act, NEW v \in SUBSET Paths
  PROVE  LET s == [x EXCEPT !.down = v]
         IN  /\ s \in Act /\ Fixed(s, x) /\ s.pc = x.pc /\ s.mine = x.mine
             /\ s.unm = x.unm /\ s.snap = x.snap /\ s.down = v
  BY DEF Act, Fixed

\* kubelet no longer waits.
LEMMA ActHeard ==
  ASSUME NEW x \in Act
  PROVE  LET s == [x EXCEPT !.heard = FALSE]
         IN  /\ s \in Act /\ ~s.heard /\ s.pc = x.pc /\ s.mine = x.mine
             /\ s.op = x.op /\ s.path = x.path /\ s.lock = x.lock /\ s.hung = x.hung
             /\ s.unm = x.unm /\ s.snap = x.snap /\ s.down = x.down
  BY DEF Act

\* A goroutine that runs nothing.
LEMMA IdleType ==
  /\ Idle \in Act /\ Idle.pc = "idle" /\ Idle.op = "none" /\ Idle.path = None
  /\ ~Idle.heard /\ ~Idle.mine /\ HmRec(Idle) /\ RpcRec(Idle)
  BY DEF Idle, Act, PCs, Ops, NoPaths, Modes, HmRec, RpcRec

\* A new request.
LEMMA RequestType ==
  ASSUME NEW op \in Ops, NEW p \in Paths \cup {None}, mutex \in Locks
  PROVE  LET x == Request(op, p)
         IN  /\ x \in Act /\ x.pc = "lock" /\ x.op = op /\ x.path = p /\ x.lock = mutex
             /\ x.heard /\ ~x.mine
  BY DEF Request, GetMutex, Idle, Act, PCs, Ops, NoPaths, Modes

\* A new check of the health monitor that found something.
LEMMA CheckType ==
  ASSUME NEW op \in {"recover", "retry"}, NEW hung \in BOOLEAN, mutex \in Locks
  PROVE  LET x == [Idle EXCEPT !.pc = "lock", !.op = op, !.lock = GetMutex, !.hung = hung]
         IN  x \in Act /\ x.pc = "lock" /\ x.op = op /\ x.lock = mutex /\ HmRec(x)
  BY DEF GetMutex, Idle, Act, PCs, Ops, NoPaths, Modes, HmRec

-------------------------------------------------------------------------------
(* How a step changes the goroutines.                                      *)

\* Only a's locals change, to x.
Becomes(a, x) ==
  /\ act' \in [Actors -> Act]
  /\ act'[a] = x
  /\ \A b \in Actors : b # a => act'[b] = act[b]

\* a goes on at l with these locals.
Moved(a, l, mine, unm, snap, down) ==
  /\ Becomes(a, act'[a])
  /\ Fixed(act'[a], act[a]) /\ act'[a].pc = l /\ act'[a].mine = mine
  /\ act'[a].unm = unm /\ act'[a].snap = snap /\ act'[a].down = down

\* a goes on and the others' Volume objects are no longer the tracked one.
Stored(a, x) ==
  /\ act' \in [Actors -> Act]
  /\ act'[a] = x
  /\ \A b \in Actors : b # a =>
       /\ Fixed(act'[b], act[b]) /\ act'[b].pc = act[b].pc /\ ~act'[b].mine
       /\ act'[b].unm = act[b].unm /\ act'[b].snap = act[b].snap
       /\ act'[b].down = act[b].down

\* Goto changes the program counter.
LEMMA GotoView ==
  ASSUME ActType, NEW a \in Actors, NEW l \in PCs, Goto(a, l)
  PROVE  Moved(a, l, act[a].mine, act[a].unm, act[a].snap, act[a].down)
<1>1. act[a] \in Act
  BY DEF ActType
<1>2. act' = [act EXCEPT ![a] = [act[a] EXCEPT !.pc = l]]
  BY DEF Goto
<1> DEFINE s == [act[a] EXCEPT !.pc = l]
<1>3. /\ s \in Act /\ Fixed(s, act[a]) /\ s.pc = l /\ s.mine = act[a].mine
      /\ s.unm = act[a].unm /\ s.snap = act[a].snap /\ s.down = act[a].down
  BY <1>1, ActPc
<1> HIDE DEF s
<1>4. act' = [act EXCEPT ![a] = s]
  BY <1>2 DEF s
<1>5. Becomes(a, s)
  BY <1>3, <1>4 DEF Becomes, ActType
<1> QED
  BY <1>3, <1>5 DEF Becomes, Moved

\* Return makes a goroutine idle.
LEMMA ReturnView ==
  ASSUME ActType, NEW a \in Actors, Return(a)
  PROVE  Becomes(a, Idle)
  BY IdleType DEF Return, Becomes, ActType

\* Return and Goto and the like, seen from the record.
LEMMA SetView ==
  ASSUME ActType, NEW a \in Actors, NEW x \in Act, act' = [act EXCEPT ![a] = x]
  PROVE  Becomes(a, x)
  BY DEF Becomes, ActType

\* A handler goes on to the bind of its publish path.
LEMMA MineView ==
  ASSUME ActType, NEW a \in Actors, NEW l \in PCs, NEW v \in BOOLEAN,
         act' = [act EXCEPT ![a].pc = l, ![a].mine = v]
  PROVE  Moved(a, l, v, act[a].unm, act[a].snap, act[a].down)
<1>1. act[a] \in Act
  BY DEF ActType
<1> DEFINE s == [act[a] EXCEPT !.pc = l]
           t == [s EXCEPT !.mine = v]
<1>2. act' = [act EXCEPT ![a] = t]
  BY DEF ActType
<1>3. /\ s \in Act /\ Fixed(s, act[a]) /\ s.pc = l
      /\ s.unm = act[a].unm /\ s.snap = act[a].snap /\ s.down = act[a].down
  BY <1>1, ActPc
<1> HIDE DEF s
<1>4. /\ t \in Act /\ Fixed(t, s) /\ t.pc = s.pc /\ t.mine = v
      /\ t.unm = s.unm /\ t.snap = s.snap /\ t.down = s.down
  BY <1>3, ActMine
<1> HIDE DEF t
<1>5. Becomes(a, t)
  BY <1>2, <1>4, SetView
<1> QED
  BY <1>3, <1>4, <1>5 DEF Becomes, Moved, Fixed

\* A recovery takes down what it knows of the volume.
LEMMA RecoverView ==
  ASSUME ActType, NEW u \in BOOLEAN, NEW f \in [Paths -> Modes],
         act' = [act EXCEPT ![Hm].pc = "service", ![Hm].snap = f, ![Hm].unm = u]
  PROVE  Moved(Hm, "service", act[Hm].mine, u, f, act[Hm].down)
<1>1. act[Hm] \in Act /\ Hm \in Actors /\ "service" \in PCs
  BY DEF ActType, Actors, PCs
<1> DEFINE s == [act[Hm] EXCEPT !.pc = "service"]
           t == [s EXCEPT !.snap = f]
           w == [t EXCEPT !.unm = u]
<1>2. act' = [act EXCEPT ![Hm] = w]
  BY <1>1 DEF ActType
<1>3. /\ s \in Act /\ Fixed(s, act[Hm]) /\ s.pc = "service" /\ s.mine = act[Hm].mine
      /\ s.down = act[Hm].down
  BY <1>1, ActPc
<1> HIDE DEF s
<1>4. /\ t \in Act /\ Fixed(t, s) /\ t.pc = s.pc /\ t.mine = s.mine
      /\ t.snap = f /\ t.down = s.down
  BY <1>3, ActSnap
<1> HIDE DEF t
<1>5. /\ w \in Act /\ Fixed(w, t) /\ w.pc = t.pc /\ w.mine = t.mine
      /\ w.unm = u /\ w.snap = t.snap /\ w.down = t.down
  BY <1>4, ActUnm
<1> HIDE DEF w
<1>6. Becomes(Hm, w)
  BY <1>1, <1>2, <1>5, SetView
<1> QED
  BY <1>3, <1>4, <1>5, <1>6 DEF Becomes, Moved, Fixed

\* A recovery has taken the paths in D down.
LEMMA TearDownView ==
  ASSUME ActType, NEW D \in SUBSET Paths,
         act' = [act EXCEPT ![Hm].pc = "rebind", ![Hm].down = D]
  PROVE  Moved(Hm, "rebind", act[Hm].mine, act[Hm].unm, act[Hm].snap, D)
<1>1. act[Hm] \in Act /\ Hm \in Actors /\ "rebind" \in PCs
  BY DEF ActType, Actors, PCs
<1> DEFINE s == [act[Hm] EXCEPT !.pc = "rebind"]
           t == [s EXCEPT !.down = D]
<1>2. act' = [act EXCEPT ![Hm] = t]
  BY <1>1 DEF ActType
<1>3. /\ s \in Act /\ Fixed(s, act[Hm]) /\ s.pc = "rebind" /\ s.mine = act[Hm].mine
      /\ s.unm = act[Hm].unm /\ s.snap = act[Hm].snap
  BY <1>1, ActPc
<1> HIDE DEF s
<1>4. /\ t \in Act /\ Fixed(t, s) /\ t.pc = s.pc /\ t.mine = s.mine
      /\ t.unm = s.unm /\ t.snap = s.snap /\ t.down = D
  BY <1>3, ActDown
<1> HIDE DEF t
<1>5. Becomes(Hm, t)
  BY <1>1, <1>2, <1>4, SetView
<1> QED
  BY <1>3, <1>4, <1>5 DEF Becomes, Moved, Fixed

\* A retry takes down the publish paths and which of them came down.
LEMMA RetryView ==
  ASSUME ActType, NEW D \in SUBSET Paths, NEW f \in [Paths -> Modes],
         act' = [act EXCEPT ![Hm].pc = "rebind", ![Hm].snap = f, ![Hm].down = D]
  PROVE  Moved(Hm, "rebind", act[Hm].mine, act[Hm].unm, f, D)
<1>1. act[Hm] \in Act /\ Hm \in Actors /\ "rebind" \in PCs
  BY DEF ActType, Actors, PCs
<1> DEFINE s == [act[Hm] EXCEPT !.pc = "rebind"]
           t == [s EXCEPT !.snap = f]
           w == [t EXCEPT !.down = D]
<1>2. act' = [act EXCEPT ![Hm] = w]
  BY <1>1 DEF ActType
<1>3. /\ s \in Act /\ Fixed(s, act[Hm]) /\ s.pc = "rebind" /\ s.mine = act[Hm].mine
      /\ s.unm = act[Hm].unm
  BY <1>1, ActPc
<1> HIDE DEF s
<1>4. /\ t \in Act /\ Fixed(t, s) /\ t.pc = s.pc /\ t.mine = s.mine
      /\ t.unm = s.unm /\ t.snap = f
  BY <1>3, ActSnap
<1> HIDE DEF t
<1>5. /\ w \in Act /\ Fixed(w, t) /\ w.pc = t.pc /\ w.mine = t.mine
      /\ w.unm = t.unm /\ w.snap = t.snap /\ w.down = D
  BY <1>4, ActDown
<1> HIDE DEF w
<1>6. Becomes(Hm, w)
  BY <1>1, <1>2, <1>5, SetView
<1> QED
  BY <1>3, <1>4, <1>5, <1>6 DEF Becomes, Moved, Fixed

\* A handler has recorded a new Volume and goes on to the bind.
LEMMA BindRec ==
  ASSUME NEW x \in Act
  PROVE  LET s == [x EXCEPT !.pc = "bind", !.mine = TRUE]
         IN  /\ s \in Act /\ Fixed(s, x) /\ s.pc = "bind" /\ s.mine
  BY DEF Act, Fixed, PCs

\* A Volume is stored or deleted.
LEMMA StoreView ==
  ASSUME ActType, NEW a \in Actors, NEW v, NEW x \in Act, Store(a, v, x)
  PROVE  Stored(a, x) /\ vol' = v
<1>1. \A b \in Actors : act[b] \in Act
  BY DEF ActType
<1>2. act' = [b \in Actors |-> IF b = a THEN x ELSE [act[b] EXCEPT !.mine = FALSE]]
  BY DEF Store
<1>3. act'[a] = x
  BY <1>2
<1>4. ASSUME NEW b \in Actors, b # a
      PROVE  /\ act'[b] \in Act
             /\ Fixed(act'[b], act[b]) /\ act'[b].pc = act[b].pc /\ ~act'[b].mine
             /\ act'[b].unm = act[b].unm /\ act'[b].snap = act[b].snap
             /\ act'[b].down = act[b].down
  <2> DEFINE s == [act[b] EXCEPT !.mine = FALSE]
  <2>1. act'[b] = s
    BY <1>2, <1>4
  <2>2. /\ s \in Act /\ Fixed(s, act[b]) /\ s.pc = act[b].pc /\ s.mine = FALSE
        /\ s.unm = act[b].unm /\ s.snap = act[b].snap /\ s.down = act[b].down
    BY <1>1, ActMine
  <2> HIDE DEF s
  <2> QED
    BY <2>1, <2>2
<1>5. act' \in [Actors -> Act]
  <2>1. \A b \in Actors : act'[b] \in Act
    BY <1>3, <1>4
  <2> QED
    BY <1>2, <2>1
<1> QED
  BY <1>3, <1>4, <1>5 DEF Stored, Store

-------------------------------------------------------------------------------
(* Turns: the steps of a goroutine that holds the mutex.                   *)

\* b's locals do not change, except that its Volume object may be dropped.
Waits(b) ==
  /\ Fixed(act'[b], act[b]) /\ act'[b].pc = act[b].pc
  /\ act'[b].unm = act[b].unm /\ act'[b].snap = act[b].snap /\ act'[b].down = act[b].down
  /\ act'[b].mine => act[b].mine

\* A step of a, past the mutex: a ends, or goes on.
Turn(a) ==
  /\ Within(a)
  /\ act' \in [Actors -> Act]
  /\ \A b \in Actors : b # a => Waits(b)
  /\ \/ act'[a] = Idle /\ (KeepMutex \/ RemoveMutex(a))
     \/ Within(a)' /\ Fixed(act'[a], act[a]) /\ KeepMutex

\* What is proved of every turn of a request ...
RpcTurn(r) == Turn(r) /\ RpcRec(act'[r]) /\ Mine' /\ VolType'

\* ... and of the health monitor.
HmTurn == Turn(Hm) /\ HmRec(act'[Hm]) /\ Mine' /\ VolType'

\* A goroutine that ends leaves the others alone.
LEMMA ReturnTurn ==
  ASSUME Base, NEW a \in Actors, Within(a), Return(a), KeepMutex \/ RemoveMutex(a)
  PROVE  /\ Turn(a) /\ RpcRec(act'[a]) /\ HmRec(act'[a])
         /\ (vol # None => vol' # None) => Mine'
<1>1. Becomes(a, Idle)
  BY ReturnView DEF Base, Types
<1>2. Turn(a)
  BY <1>1 DEF Becomes, Turn, Waits, Fixed
<1> QED
  BY <1>1, <1>2, IdleType DEF Becomes, Base, Mine

\* So does one that goes on.
LEMMA MovedTurn ==
  ASSUME Base, NEW a \in Actors, Within(a), NEW l \in PCs \ {"idle", "lock"},
         NEW mine, NEW unm, NEW snap, NEW down, Moved(a, l, mine, unm, snap, down), KeepMutex
  PROVE  /\ Turn(a)
         /\ (vol # None => vol' # None) /\ (mine => vol' # None) => Mine'
<1>1. Turn(a)
  BY DEF Becomes, Moved, Turn, Waits, Within, Fixed
<1> QED
  BY <1>1 DEF Becomes, Moved, Base, Mine

\* One that stores a Volume drops the others'.
LEMMA StoredTurn ==
  ASSUME Base, NEW a \in Actors, Within(a), NEW x \in Act, Stored(a, x),
         \/ x = Idle /\ (KeepMutex \/ RemoveMutex(a))
         \/ x.pc \notin {"idle", "lock"} /\ Fixed(x, act[a]) /\ KeepMutex
  PROVE  /\ Turn(a)
         /\ (x.mine => vol' # None) => Mine'
<1>1. \A b \in Actors : b # a => Waits(b) /\ ~act'[b].mine
  BY DEF Stored, Waits
<1>2. act' \in [Actors -> Act] /\ act'[a] = x
  BY DEF Stored
<1>3. Turn(a)
  BY <1>1, <1>2 DEF Turn, Within
<1> QED
  BY <1>1, <1>2, <1>3 DEF Mine

\* The Volumes that are stored.
LEMMA VolumeType ==
  ASSUME NEW u \in BOOLEAN, NEW c \in BOOLEAN, NEW f \in [Paths -> Modes]
  PROVE  LET v == [unm |-> u, ctx |-> c, paths |-> f]
         IN  v \in Volume /\ v # None /\ v.paths = f
  BY VolumeAssumption DEF Volume

\* The paths of a Volume change.
LEMMA VolumePath ==
  ASSUME NEW v \in Volume, NEW p, NEW m \in Modes
  PROVE  LET w == [v EXCEPT !.paths[p] = m]
         IN  /\ w \in Volume /\ w # None
             /\ w.paths = [v.paths EXCEPT ![p] = m]
  BY VolumeAssumption DEF Volume

\* A new Volume object has no publish paths.
LEMMA NoPathsType == NoPaths \in [Paths -> Modes]
  BY DEF NoPaths, Modes

\* The steps of a request that end it and leave the volume alone.
LEMMA RpcReturns ==
  ASSUME Base, NEW r \in Rpcs,
         CleanFails(r) \/ MountFails(r) \/ QuotaFails(r) \/ PublishFails(r) \/ Unbind(r)
         \/ UnbindFails(r) \/ UnstageFails(r)
  PROVE  RpcTurn(r) /\ act'[r] = Idle /\ vol' = vol
<1>1. Within(r) /\ Return(r) /\ (KeepMutex \/ RemoveMutex(r)) /\ vol' = vol /\ r \in Actors
  BY NodeAssumption
  DEF CleanFails, MountFails, QuotaFails, PublishFails, Unbind, UnbindFails, UnstageFails, Fails,
      At, Within, Actors
<1>2. act'[r] = Idle
  BY <1>1, ReturnView DEF Becomes, Base, Types
<1> QED
  BY <1>1, <1>2, ReturnTurn DEF RpcTurn, VolType, Base, Types

\* The volume is tracked.
LEMMA EnterTrackedTurn ==
  ASSUME Base, NEW r \in Rpcs, EnterTracked(r)
  PROVE  /\ RpcTurn(r) /\ KeepMutex /\ vol' = vol /\ vol # None
         /\ \/ act'[r] = Idle
            \/ act'[r].pc = "bind" /\ act'[r].mine
<1>1. /\ Within(r) /\ KeepMutex /\ vol' = vol /\ vol # None /\ r \in Actors /\ ActType
      /\ act[r].pc = "enter" /\ act[r].op \in {"stage", "publish"}
  BY DEF EnterTracked, At, Within, Actors, Staging, Base, Types
<1>2. CASE Return(r)
  <2>1. act'[r] = Idle
    BY <1>1, <1>2, ReturnView DEF Becomes
  <2> QED
    BY <1>1, <1>2, <2>1, ReturnTurn DEF RpcTurn, VolType, Base, Types
<1>3. CASE act[r].op = "publish" /\ act' = [act EXCEPT ![r].pc = "bind", ![r].mine = TRUE]
  <2>1. Moved(r, "bind", TRUE, act[r].unm, act[r].snap, act[r].down)
    BY <1>1, <1>3, MineView DEF PCs
  <2>2. Turn(r) /\ Mine'
    BY <1>1, <2>1, MovedTurn DEF PCs
  <2>3. RpcRec(act'[r]) /\ act'[r].pc = "bind" /\ act'[r].mine
    BY <1>1, <1>3, <2>1 DEF Moved, Fixed, RpcRec, Base, Shape
  <2> QED
    BY <1>1, <2>2, <2>3 DEF RpcTurn, VolType, Base, Types
<1> QED
  BY <1>1, <1>2, <1>3 DEF EnterTracked

\* The steps of a request that go on and leave the volume alone.
LEMMA RpcGoes ==
  ASSUME Base, NEW r \in Rpcs, EnterClean(r) \/ Clean(r) \/ Mount(r)
  PROVE  /\ RpcTurn(r) /\ vol' = vol /\ KeepMutex
         /\ \E l \in {"clean", "mount", "quota"} :
              Moved(r, l, act[r].mine, act[r].unm, act[r].snap, act[r].down)
<1>1. PICK l \in {"clean", "mount", "quota"} : Goto(r, l)
  BY DEF EnterClean, Clean, Mount
<1>2. /\ Within(r) /\ KeepMutex /\ vol' = vol /\ r \in Actors /\ ActType
      /\ act[r].pc \in {"enter", "clean", "mount"}
      /\ act[r].pc = "enter" => act[r].op \in {"stage", "publish"}
      /\ l \in PCs \ {"idle", "lock"}
  BY DEF EnterClean, Clean, Mount, At, Within, Actors, Staging, Base, Types, PCs
<1>3. Moved(r, l, act[r].mine, act[r].unm, act[r].snap, act[r].down)
  BY <1>1, <1>2, GotoView
<1>4. Turn(r) /\ Mine'
  BY <1>2, <1>3, MovedTurn DEF Base, Mine
<1>5. RpcRec(act'[r])
  BY <1>2, <1>3 DEF Moved, Fixed, RpcRec, Base, Shape
<1> QED
  BY <1>2, <1>3, <1>4, <1>5 DEF RpcTurn, VolType, Base, Types

\* A handler stores the Volume of a mount it has adopted or made.
LEMMA RpcStores ==
  ASSUME Base, NEW r \in Rpcs, EnterAdopt(r) \/ Quota(r)
  PROVE  /\ RpcTurn(r) /\ KeepMutex /\ vol' # None /\ vol'.paths = NoPaths
         /\ act'[r].pc = "bind" => act'[r].mine
         /\ \/ act[r].op = "publish" /\ act'[r].pc = "bind" /\ UNCHANGED kubelet
            \/ act[r].op = "stage" /\ act'[r] = Idle /\ Succeeds(r)
<1>1. /\ Within(r) /\ KeepMutex /\ r \in Actors /\ ActType /\ act[r] \in Act
      /\ act[r].pc \in {"enter", "quota"} /\ act[r].op \in {"stage", "publish"}
  BY DEF EnterAdopt, Quota, At, Within, Actors, Staging, Base, Types, ActType, Shape, RpcRec
<1> DEFINE x == [act[r] EXCEPT !.pc = "bind", !.mine = TRUE]
<1>2. PICK u \in BOOLEAN, c \in BOOLEAN :
        LET v == [unm |-> u, ctx |-> c, paths |-> NoPaths]
        IN  \/ act[r].op = "publish" /\ Store(r, v, x) /\ UNCHANGED kubelet
            \/ act[r].op = "stage" /\ Store(r, v, Idle) /\ Succeeds(r)
  <2>1. CASE EnterAdopt(r)
    BY <1>1, <2>1, NodeAssumption DEF EnterAdopt
  <2>2. CASE Quota(r)
    BY <1>1, <2>2 DEF Quota
  <2> QED
    BY <2>1, <2>2
<1> DEFINE v == [unm |-> u, ctx |-> c, paths |-> NoPaths]
<1>3. v \in Volume /\ v # None /\ v.paths = NoPaths
  BY VolumeType, NoPathsType
<1>4. x \in Act /\ Fixed(x, act[r]) /\ x.pc = "bind" /\ x.mine
  BY <1>1, BindRec
<1> HIDE DEF x, v
<1>5. CASE act[r].op = "publish" /\ Store(r, v, x) /\ UNCHANGED kubelet
  <2>1. Stored(r, x) /\ vol' = v
    BY <1>1, <1>4, <1>5, StoreView
  <2>2. Turn(r) /\ Mine'
    BY <1>1, <1>3, <1>4, <2>1, StoredTurn
  <2>3. act'[r] = x
    BY <2>1 DEF Stored
  <2>4. RpcRec(act'[r])
    BY <1>1, <1>4, <1>5, <2>3 DEF Fixed, RpcRec, Base, Shape
  <2> QED
    BY <1>1, <1>3, <1>4, <1>5, <2>1, <2>2, <2>3, <2>4 DEF RpcTurn, VolType
<1>6. CASE act[r].op = "stage" /\ Store(r, v, Idle) /\ Succeeds(r)
  <2>1. Stored(r, Idle) /\ vol' = v
    BY <1>1, <1>6, StoreView, IdleType
  <2>2. Turn(r) /\ Mine'
    BY <1>1, <1>3, <2>1, StoredTurn, IdleType
  <2>3. act'[r] = Idle
    BY <2>1 DEF Stored
  <2> QED
    BY <1>1, <1>3, <1>6, <2>1, <2>2, <2>3, IdleType DEF RpcTurn, VolType
<1> QED
  BY <1>2, <1>5, <1>6 DEF x, v

\* A publish ends and, if its Volume object is the tracked one, records the
\* path in it.
LEMMA PublishTurn ==
  ASSUME Base, NEW r \in Rpcs, Publish(r)
  PROVE  /\ RpcTurn(r) /\ act'[r] = Idle /\ KeepMutex /\ Succeeds(r)
         /\ act[r].op = "publish" /\ act[r].path \in Paths
         /\ ~act[r].mine => vol' = vol
         /\ act[r].mine => /\ vol # None /\ vol' # None
                           /\ vol'.paths = [vol.paths EXCEPT ![act[r].path] = Mode(act[r].path)]
<1>1. /\ Within(r) /\ KeepMutex /\ r \in Actors /\ ActType /\ Return(r) /\ Succeeds(r)
      /\ act[r].op = "publish" /\ act[r].path \in Paths
  BY DEF Publish, At, Within, Actors, Base, Types, Shape, RpcRec
<1>2. act'[r] = Idle
  BY <1>1, ReturnView DEF Becomes
<1>3. PICK m \in Modes : m = Mode(act[r].path)
  BY DEF Mode, Modes
<1>4. CASE ~act[r].mine
  <2>1. vol' = vol
    BY <1>4 DEF Publish
  <2> QED
    BY <1>1, <1>2, <1>4, <2>1, ReturnTurn DEF RpcTurn, VolType, Base, Types
<1>5. CASE act[r].mine
  <2>1. vol \in Volume /\ vol # None
    BY <1>1, <1>5 DEF Base, Types, VolType, Mine
  <2>2. vol' = [vol EXCEPT !.paths[act[r].path] = m]
    BY <1>3, <1>5 DEF Publish
  <2>3. /\ vol' \in Volume /\ vol' # None
        /\ vol'.paths = [vol.paths EXCEPT ![act[r].path] = m]
    BY <2>1, <2>2, VolumeAssumption DEF Volume
  <2> QED
    BY <1>1, <1>2, <1>3, <1>5, <2>1, <2>3, ReturnTurn DEF RpcTurn, VolType
<1> QED
  BY <1>4, <1>5

\* An unpublish withdraws the path from the tracked Volume.
LEMMA UnpublishTurn ==
  ASSUME Base, NEW r \in Rpcs, Unpublish(r)
  PROVE  /\ RpcTurn(r) /\ KeepMutex
         /\ act[r].op = "unpublish" /\ act[r].path \in Paths
         /\ act'[r].pc = "unbind" /\ (act'[r].mine <=> vol # None)
         /\ vol = None <=> vol' = None
         /\ vol # None => vol'.paths = [vol.paths EXCEPT ![act[r].path] = "no"]
<1>1. /\ Within(r) /\ KeepMutex /\ r \in Actors /\ ActType
      /\ act[r].op = "unpublish" /\ act[r].path \in Paths
  BY DEF Unpublish, At, Within, Actors, Base, Types, Shape, RpcRec
<1>2. PICK b \in BOOLEAN : b <=> vol # None
  OBVIOUS
<1>3. act' = [act EXCEPT ![r].pc = "unbind", ![r].mine = b]
  BY <1>2 DEF Unpublish
<1>4. Moved(r, "unbind", b, act[r].unm, act[r].snap, act[r].down)
  BY <1>1, <1>3, MineView DEF PCs
<1>5. vol' = IF vol = None THEN vol ELSE [vol EXCEPT !.paths[act[r].path] = "no"]
  BY DEF Unpublish
<1>6. /\ VolType' /\ (vol = None <=> vol' = None)
      /\ vol # None => vol'.paths = [vol.paths EXCEPT ![act[r].path] = "no"]
  BY <1>5, VolumePath DEF VolType, Base, Types, Modes
<1>7. Turn(r) /\ Mine'
  BY <1>1, <1>2, <1>4, <1>6, MovedTurn DEF PCs
<1>8. act'[r].pc = "unbind" /\ act'[r].mine = b /\ RpcRec(act'[r])
  BY <1>1, <1>4 DEF Moved, Fixed, RpcRec, Base, Shape
<1> QED
  BY <1>1, <1>2, <1>6, <1>7, <1>8 DEF RpcTurn

\* An unstage forgets the volume.
LEMMA UnstageTurn ==
  ASSUME Base, NEW r \in Rpcs, Unstage(r)
  PROVE  RpcTurn(r) /\ act'[r] = Idle /\ RemoveMutex(r) /\ vol' = None /\ Succeeds(r)
         /\ act[r].op = "unstage"
<1>1. /\ Within(r) /\ RemoveMutex(r) /\ r \in Actors /\ ActType /\ Succeeds(r)
      /\ act[r].op = "unstage" /\ Store(r, None, Idle)
  BY DEF Unstage, At, Within, Actors, Base, Types
<1>2. Stored(r, Idle) /\ vol' = None
  BY <1>1, StoreView, IdleType
<1>3. Turn(r) /\ Mine'
  BY <1>1, <1>2, StoredTurn, IdleType
<1> QED
  BY <1>1, <1>2, <1>3, IdleType DEF RpcTurn, VolType, Stored

\* Every step of a request past its mutex is a turn.
LEMMA RpcStepTurn ==
  ASSUME Base, NEW r \in Rpcs, RpcStep(r)
  PROVE  RpcTurn(r)
  BY RpcReturns, EnterTrackedTurn, RpcGoes, RpcStores, PublishTurn, UnpublishTurn, UnstageTurn
  DEF RpcStep, RpcFault

\* The steps of the health monitor that end it and leave the volume alone.
LEMMA HmReturns ==
  ASSUME Base,
         \/ Abort \/ RecoverUnmountFails \/ DetachFails \/ MountFails(Hm) \/ QuotaFails(Hm)
         \/ \E D \in SUBSET Paths : Rebind(D) /\ act[Hm].op = "retry"
  PROVE  HmTurn /\ act'[Hm] = Idle /\ vol' = vol /\ KeepMutex
<1>1. Within(Hm) /\ Return(Hm) /\ KeepMutex /\ vol' = vol /\ Hm \in Actors
  BY DEF Abort, RecoverUnmountFails, DetachFails, MountFails, QuotaFails, Rebind, Fails, At,
         Within, Actors
<1>2. act'[Hm] = Idle
  BY <1>1, ReturnView DEF Becomes, Base, Types
<1> QED
  BY <1>1, <1>2, ReturnTurn DEF HmTurn, VolType, Base, Types

\* The steps that go on, with the locals they had.
LEMMA HmGoes ==
  ASSUME Base, RecoverUnmount \/ RecoverRecheck \/ Detach \/ Mount(Hm) \/ Quota(Hm)
  PROVE  /\ HmTurn /\ vol' = vol /\ KeepMutex
         /\ \E l \in {"recheck", "detach", "mount", "quota", "teardown"} :
              /\ Goto(Hm, l)
              /\ Moved(Hm, l, act[Hm].mine, act[Hm].unm, act[Hm].snap, act[Hm].down)
<1>1. /\ Within(Hm) /\ KeepMutex /\ Hm \in Actors /\ ActType /\ act[Hm].op = "recover"
  BY DEF RecoverUnmount, RecoverRecheck, Detach, Mount, Quota, At, Within, Actors, Base, Types,
         Shape, HmRec
<1>2. PICK l \in {"recheck", "detach", "mount", "quota", "teardown"} : Goto(Hm, l) /\ vol' = vol
  BY <1>1 DEF RecoverUnmount, RecoverRecheck, Detach, Mount, Quota
<1>3. Moved(Hm, l, act[Hm].mine, act[Hm].unm, act[Hm].snap, act[Hm].down) /\ l \in PCs \ {"idle", "lock"}
  BY <1>1, <1>2, GotoView DEF PCs
<1>4. Turn(Hm) /\ Mine'
  BY <1>1, <1>2, <1>3, MovedTurn DEF Base, Mine
<1>5. HmRec(act'[Hm])
  BY <1>1, <1>3 DEF Moved, Fixed, HmRec, Base, Shape
<1> QED
  BY <1>1, <1>2, <1>3, <1>4, <1>5 DEF HmTurn, VolType, Base, Types

\* A recovery or a retry takes down what it works on.
LEMMA HmTakes ==
  ASSUME Base, Recover \/ \E D \in SUBSET Paths : TearDown(D) \/ Retry(D)
  PROVE  /\ HmTurn /\ vol' = vol /\ KeepMutex
         /\ Recover => /\ act'[Hm].pc = "service" /\ act'[Hm].snap = vol.paths
                       /\ act'[Hm].hung = act[Hm].hung
         /\ \A D \in SUBSET Paths :
              /\ TearDown(D) => /\ act'[Hm].pc = "rebind" /\ act'[Hm].snap = act[Hm].snap
                                /\ act'[Hm].down = D
              /\ Retry(D) => /\ act'[Hm].pc = "rebind" /\ act'[Hm].snap = vol.paths
                             /\ act'[Hm].down = D
<1>1. /\ Within(Hm) /\ KeepMutex /\ Hm \in Actors /\ ActType /\ vol' = vol
  BY DEF Recover, TearDown, Retry, At, Within, Actors, Base, Types
<1>2. ASSUME Recover
      PROVE  /\ HmTurn /\ act'[Hm].pc = "service" /\ act'[Hm].snap = vol.paths
             /\ act'[Hm].hung = act[Hm].hung
  <2>1. vol.paths \in [Paths -> Modes] /\ vol.unm \in BOOLEAN /\ act[Hm].op = "recover"
    BY <1>2 DEF Recover, Base, Types, VolType, Volume
  <2>2. Moved(Hm, "service", act[Hm].mine, vol.unm, vol.paths, act[Hm].down)
    BY <1>1, <1>2, <2>1, RecoverView DEF Recover
  <2>3. Turn(Hm) /\ Mine'
    BY <1>1, <2>2, MovedTurn DEF Base, Mine, PCs
  <2>4. /\ HmRec(act'[Hm]) /\ act'[Hm].pc = "service" /\ act'[Hm].snap = vol.paths
        /\ act'[Hm].hung = act[Hm].hung
    BY <2>1, <2>2 DEF Moved, Fixed, HmRec, Base, Shape
  <2> QED
    BY <1>1, <2>3, <2>4 DEF HmTurn, VolType, Base, Types
<1>3. ASSUME NEW D \in SUBSET Paths, TearDown(D)
      PROVE  /\ HmTurn /\ act'[Hm].pc = "rebind" /\ act'[Hm].snap = act[Hm].snap
             /\ act'[Hm].down = D
  <2>1. Moved(Hm, "rebind", act[Hm].mine, act[Hm].unm, act[Hm].snap, D)
    BY <1>1, <1>3, TearDownView DEF TearDown
  <2>2. Turn(Hm) /\ Mine'
    BY <1>1, <2>1, MovedTurn DEF Base, Mine, PCs
  <2>3. /\ HmRec(act'[Hm]) /\ act'[Hm].pc = "rebind" /\ act'[Hm].snap = act[Hm].snap
        /\ act'[Hm].down = D
    BY <1>3, <2>1 DEF Moved, Fixed, HmRec, Base, Shape, TearDown, At
  <2> QED
    BY <1>1, <2>2, <2>3 DEF HmTurn, VolType, Base, Types
<1>4. ASSUME NEW D \in SUBSET Paths, Retry(D)
      PROVE  /\ HmTurn /\ act'[Hm].pc = "rebind" /\ act'[Hm].snap = vol.paths
             /\ act'[Hm].down = D
  <2>1. vol.paths \in [Paths -> Modes] /\ act[Hm].op = "retry"
    BY <1>4 DEF Retry, Base, Types, VolType, Volume
  <2>2. Moved(Hm, "rebind", act[Hm].mine, act[Hm].unm, vol.paths, D)
    BY <1>1, <1>4, <2>1, RetryView DEF Retry
  <2>3. Turn(Hm) /\ Mine'
    BY <1>1, <2>2, MovedTurn DEF Base, Mine, PCs
  <2>4. /\ HmRec(act'[Hm]) /\ act'[Hm].pc = "rebind" /\ act'[Hm].snap = vol.paths
        /\ act'[Hm].down = D
    BY <2>1, <2>2 DEF Moved, Fixed, HmRec, Base, Shape
  <2> QED
    BY <1>1, <2>3, <2>4 DEF HmTurn, VolType, Base, Types
<1> QED
  BY <1>1, <1>2, <1>3, <1>4

\* A recovery ends by storing a Volume with the paths it took down.
LEMMA HmStores ==
  ASSUME Base, NEW D \in SUBSET Paths, Rebind(D), act[Hm].op = "recover"
  PROVE  /\ HmTurn /\ act'[Hm] = Idle /\ KeepMutex
         /\ vol' # None /\ vol'.paths = act[Hm].snap
<1>1. /\ Within(Hm) /\ KeepMutex /\ Hm \in Actors /\ ActType
      /\ act[Hm].snap \in [Paths -> Modes]
  BY DEF Rebind, At, Within, Actors, Base, Types, ActType, Act
<1> DEFINE v == [unm |-> TRUE, ctx |-> TRUE, paths |-> act[Hm].snap]
<1>2. v \in Volume /\ v # None /\ v.paths = act[Hm].snap
  BY <1>1, VolumeType
<1>3. Store(Hm, v, Idle)
  BY DEF Rebind
<1> HIDE DEF v
<1>4. Stored(Hm, Idle) /\ vol' = v
  BY <1>1, <1>3, StoreView, IdleType
<1>5. Turn(Hm) /\ Mine'
  BY <1>1, <1>2, <1>4, StoredTurn, IdleType
<1> QED
  BY <1>1, <1>2, <1>4, <1>5, IdleType DEF HmTurn, VolType, Stored

\* Every step of the health monitor past its mutex is a turn.
LEMMA HmStepTurn ==
  ASSUME Base, HmStep
  PROVE  HmTurn
<1>1. ASSUME NEW D \in SUBSET Paths, Rebind(D)
      PROVE  HmTurn
  <2>1. act[Hm].op \in {"retry", "recover"}
    BY <1>1 DEF Rebind, At, Base, Shape, HmRec
  <2> QED
    BY <1>1, <2>1, HmReturns, HmStores
<1>2. CASE Recover \/ \E D \in SUBSET Paths : TearDown(D) \/ Retry(D)
  BY <1>2, HmTakes
<1>3. CASE RecoverUnmount \/ RecoverRecheck \/ Detach \/ Mount(Hm) \/ Quota(Hm)
  BY <1>3, HmGoes
<1>4. CASE Abort \/ RecoverUnmountFails \/ DetachFails \/ MountFails(Hm) \/ QuotaFails(Hm)
  BY <1>4, HmReturns
<1> QED
  BY <1>1, <1>2, <1>3, <1>4 DEF HmStep, HmFault

-------------------------------------------------------------------------------
(* The other steps of a goroutine.                                         *)

\* A request arrives, or a check has found something to repair.
Begins(a, x) ==
  /\ At(a, "idle") /\ Becomes(a, x) /\ KeepMutex
  /\ x.pc = "lock" /\ x.lock = mutex /\ ~x.mine

\* kubelet stages, unstages, publishes or unpublishes.
LEMMA RequestBegins ==
  ASSUME Base, NEW r \in Rpcs, NEW op \in Ops, NEW p \in Paths \cup {None},
         At(r, "idle"), act' = [act EXCEPT ![r] = Request(op, p)], KeepMutex
  PROVE  /\ Begins(r, act'[r])
         /\ act'[r].op = op /\ act'[r].path = p /\ act'[r].heard
         /\ op \in {"stage", "unstage"} /\ p = None => RpcRec(act'[r])
         /\ op \in {"publish", "unpublish"} /\ p \in Paths => RpcRec(act'[r])
<1> DEFINE x == Request(op, p)
<1>1. /\ x \in Act /\ x.pc = "lock" /\ x.op = op /\ x.path = p /\ x.lock = mutex
      /\ x.heard /\ ~x.mine
  BY RequestType DEF Base, Types, MutexType
<1> HIDE DEF x
<1>2. Becomes(r, x)
  BY <1>1, SetView DEF x, Base, Types, Actors
<1>3. act'[r] = x
  BY <1>2 DEF Becomes
<1> QED
  BY <1>1, <1>2, <1>3 DEF Begins, RpcRec

\* The four calls.
LEMMA CallBegins ==
  ASSUME Base, NEW r \in Rpcs
  PROVE  /\ StageCall(r) => Begins(r, act'[r]) /\ RpcRec(act'[r]) /\ act'[r].heard
                            /\ act'[r].op = "stage" /\ act'[r].path = None
         /\ UnstageCall(r) => Begins(r, act'[r]) /\ RpcRec(act'[r]) /\ act'[r].heard
                              /\ act'[r].op = "unstage" /\ act'[r].path = None
         /\ \A p \in Paths :
              /\ PublishCall(r, p) => Begins(r, act'[r]) /\ RpcRec(act'[r]) /\ act'[r].heard
                                      /\ act'[r].op = "publish" /\ act'[r].path = p
              /\ UnpublishCall(r, p) => Begins(r, act'[r]) /\ RpcRec(act'[r]) /\ act'[r].heard
                                        /\ act'[r].op = "unpublish" /\ act'[r].path = p
<1>0. {"stage", "unstage", "publish", "unpublish"} \subseteq Ops
  BY DEF Ops
<1>1. ASSUME StageCall(r)
      PROVE  Begins(r, act'[r]) /\ RpcRec(act'[r]) /\ act'[r].heard
             /\ act'[r].op = "stage" /\ act'[r].path = None
  BY <1>0, <1>1, RequestBegins DEF StageCall
<1>2. ASSUME UnstageCall(r)
      PROVE  Begins(r, act'[r]) /\ RpcRec(act'[r]) /\ act'[r].heard
             /\ act'[r].op = "unstage" /\ act'[r].path = None
  <2>1. At(r, "idle") /\ act' = [act EXCEPT ![r] = Request("unstage", None)] /\ KeepMutex
    BY <1>2 DEF UnstageCall
  <2>2. "unstage" \in Ops /\ None \in Paths \cup {None}
    BY <1>0
  <2> QED
    BY <2>1, <2>2, RequestBegins
<1>3. ASSUME NEW p \in Paths, PublishCall(r, p)
      PROVE  Begins(r, act'[r]) /\ RpcRec(act'[r]) /\ act'[r].heard
             /\ act'[r].op = "publish" /\ act'[r].path = p
  BY <1>0, <1>3, RequestBegins DEF PublishCall
<1>4. ASSUME NEW p \in Paths, UnpublishCall(r, p)
      PROVE  Begins(r, act'[r]) /\ RpcRec(act'[r]) /\ act'[r].heard
             /\ act'[r].op = "unpublish" /\ act'[r].path = p
  BY <1>0, <1>4, RequestBegins DEF UnpublishCall
<1> QED
  BY <1>1, <1>2, <1>3, <1>4

\* A check of the health monitor.
LEMMA CheckBegins ==
  ASSUME Base, HealthCheck
  PROVE  Begins(Hm, act'[Hm]) /\ HmRec(act'[Hm])
<1>1. PICK op \in {"recover", "retry"}, hung \in BOOLEAN :
        act' = [act EXCEPT ![Hm] = [Idle EXCEPT !.pc = "lock", !.op = op,
                                                !.lock = GetMutex, !.hung = hung]]
  BY DEF HealthCheck
<1> DEFINE x == [Idle EXCEPT !.pc = "lock", !.op = op, !.lock = GetMutex, !.hung = hung]
<1>2. x \in Act /\ x.pc = "lock" /\ x.op = op /\ x.lock = mutex /\ HmRec(x)
  BY CheckType DEF Base, Types, MutexType
<1>3. act' = [act EXCEPT ![Hm] = x]
  BY <1>1
<1> HIDE DEF x
<1>4. Becomes(Hm, x)
  BY <1>2, <1>3, SetView DEF Base, Types, Actors
<1>5. act'[Hm] = x
  BY <1>4 DEF Becomes
<1> QED
  BY <1>2, <1>4, <1>5 DEF Begins, HealthCheck, HmRec

\* A goroutine gets its mutex.
LEMMA AcquireMoves ==
  ASSUME Base, NEW a \in Actors, Acquire(a)
  PROVE  /\ Moved(a, "enter", act[a].mine, act[a].unm, act[a].snap, act[a].down)
         /\ a = Hm => HmRec(act'[a])
         /\ a \in Rpcs => RpcRec(act'[a])
<1>1. Moved(a, "enter", act[a].mine, act[a].unm, act[a].snap, act[a].down)
  BY GotoView DEF Acquire, Base, Types, PCs
<1> QED
  BY <1>1 DEF Moved, Fixed, Acquire, At, HmRec, RpcRec, Base, Shape

\* kubelet gives up on a request.
LEMMA GiveUpView ==
  ASSUME Base, NEW r \in Rpcs, GiveUp(r)
  PROVE  /\ Becomes(r, act'[r]) /\ RpcRec(act'[r]) /\ act'[r].pc # "idle"
         /\ act'[r].pc = act[r].pc /\ act'[r].lock = act[r].lock /\ act'[r].mine = act[r].mine
<1>1. act[r] \in Act /\ r \in Actors /\ RpcRec(act[r]) /\ act[r].heard
  BY DEF Base, Types, ActType, Actors, Shape, GiveUp
<1> DEFINE x == [act[r] EXCEPT !.heard = FALSE]
<1>2. /\ x \in Act /\ x.pc = act[r].pc /\ x.lock = act[r].lock /\ x.mine = act[r].mine
      /\ x.op = act[r].op /\ x.path = act[r].path
  BY <1>1, ActHeard
<1>3. act' = [act EXCEPT ![r] = x]
  BY DEF GiveUp
<1> HIDE DEF x
<1>4. Becomes(r, x)
  BY <1>1, <1>2, <1>3, SetView DEF Base, Types
<1>5. act'[r] = x
  BY <1>4 DEF Becomes
<1> QED
  BY <1>1, <1>2, <1>4, <1>5 DEF RpcRec

\* What a restarted plugin tracks.
LEMMA FoundType ==
  ASSUME NEW P
  PROVE  /\ Found(P) \in Volume /\ Found(P) # None
         /\ Found(P).paths = [p \in Paths |-> IF p \in P THEN "rw" ELSE "no"]
<1> DEFINE f == [p \in Paths |-> IF p \in P THEN "rw" ELSE "no"]
<1>1. f \in [Paths -> Modes]
  BY DEF Modes
<1>2. Found(P) = [unm |-> FALSE, ctx |-> TRUE, paths |-> f]
  BY DEF Found
<1> HIDE DEF f
<1>3. LET v == [unm |-> FALSE, ctx |-> TRUE, paths |-> f]
      IN  v \in Volume /\ v # None /\ v.paths = f
  BY <1>1, VolumeType
<1> QED
  BY <1>2, <1>3 DEF f

\* The plugin restarts.
LEMMA RestartView ==
  ASSUME Base, PluginRestart
  PROVE  /\ ActType' /\ Shape' /\ Mine' /\ VolType'
         /\ \A a \in Actors : act'[a] = Idle
<1>1. ActType' /\ \A a \in Actors : act'[a] = Idle
  BY IdleType DEF PluginRestart, ActType
<1>2. VolType'
  BY FoundType DEF PluginRestart, VolType
<1> QED
  BY <1>1, <1>2, IdleType DEF Shape, Mine, Actors

-------------------------------------------------------------------------------
(* The first layer is invariant.                                           *)

\* A turn keeps the shape of the others.
LEMMA TurnShape ==
  ASSUME Base
  PROVE  /\ \A r \in Rpcs : RpcTurn(r) => ActType' /\ Shape' /\ MutexType'
         /\ HmTurn => ActType' /\ Shape' /\ MutexType'
<1>1. ASSUME NEW a \in Actors, Turn(a)
      PROVE  ActType' /\ MutexType'
  BY <1>1 DEF Turn, ActType, MutexType, RemoveMutex, KeepMutex, Base, Types
<1>2. ASSUME NEW a \in Actors, Turn(a), NEW b \in Actors, b # a
      PROVE  /\ HmRec(act[b]) => HmRec(act'[b])
             /\ RpcRec(act[b]) => RpcRec(act'[b])
  BY <1>2 DEF Turn, Waits, Fixed, HmRec, RpcRec
<1> QED
  BY <1>1, <1>2, NodeAssumption DEF RpcTurn, HmTurn, Shape, Base, Actors

\* So does every other change of one goroutine.
LEMMA OneShape ==
  ASSUME Base, NEW a \in Actors, Becomes(a, act'[a]), vol' = vol,
         a = Hm => HmRec(act'[a]), a \in Rpcs => RpcRec(act'[a]),
         act'[a].mine => act[a].mine
  PROVE  ActType' /\ Shape' /\ Mine' /\ VolType'
  BY NodeAssumption DEF Becomes, ActType, Shape, Mine, VolType, Base, Types, Actors

\* No step loses its way.
LEMMA NextAct ==
  ASSUME Base, Next
  PROVE  ActType' /\ MutexType' /\ VolType' /\ Mine' /\ Shape'
<1>1. ASSUME NEW r \in Rpcs, RpcStep(r) PROVE ActType' /\ MutexType' /\ VolType' /\ Mine' /\ Shape'
  BY <1>1, RpcStepTurn, TurnShape DEF RpcTurn
<1>2. CASE HmStep
  BY <1>2, HmStepTurn, TurnShape DEF HmTurn
<1>3. ASSUME NEW r \in Rpcs, Call(r) PROVE ActType' /\ MutexType' /\ VolType' /\ Mine' /\ Shape'
  <2>1. /\ vol' = vol /\ KeepMutex /\ r \in Actors /\ r # Hm
    BY <1>3, NodeAssumption DEF Call, StageCall, UnstageCall, GiveUp, PublishCall, UnpublishCall, Actors
  <2>2. Becomes(r, act'[r]) /\ RpcRec(act'[r]) /\ (act'[r].mine => act[r].mine)
    BY <1>3, CallBegins, GiveUpView DEF Call, Begins
  <2> QED
    BY <2>1, <2>2, OneShape DEF MutexType, KeepMutex, Base, Types
<1>4. ASSUME NEW a \in Actors, Acquire(a)
      PROVE  ActType' /\ MutexType' /\ VolType' /\ Mine' /\ Shape'
  <2>1. vol' = vol /\ KeepMutex
    BY <1>4 DEF Acquire
  <2> QED
    BY <1>4, <2>1, AcquireMoves, OneShape DEF Moved, MutexType, KeepMutex, Base, Types
<1>5. CASE HealthCheck
  <2>1. vol' = vol /\ KeepMutex /\ Hm \in Actors /\ Hm \notin Rpcs
    BY <1>5, NodeAssumption DEF HealthCheck, Actors
  <2> QED
    BY <1>5, <2>1, CheckBegins, OneShape DEF Begins, MutexType, KeepMutex, Base, Types
<1>6. CASE (\E m \in Mounts : Weed(m)) \/ LateMount \/ ServiceReaps \/ ServiceRestart
  BY <1>6 DEF Weed, LateMount, ServiceReaps, ServiceRestart, KeepMutex, ActType, MutexType, VolType, Mine, Shape,
              Base, Types
<1>7. CASE PluginRestart
  BY <1>7, RestartView DEF PluginRestart, MutexType, Base, Types
<1> QED
  BY <1>1, <1>2, <1>3, <1>4, <1>5, <1>6, <1>7 DEF Next

\* The mount service's answers keep the types, and one weed at most runs.
LEMMA ServiceKeeps ==
  ASSUME WorldType, OnlyReg, ServiceMount \/ ServiceUnmount \/ ServiceUnmountFails, UNCHANGED <<bind, owed>>
  PROVE  WorldType' /\ OnlyReg'
<1>1. CASE ServiceMount
  BY <1>1 DEF ServiceMount, ServiceStarts, WorldType, OnlyReg, Alive
<1>2. CASE ServiceUnmount
  BY <1>2 DEF ServiceUnmount, WorldType, OnlyReg
<1>3. CASE ServiceUnmountFails
  BY <1>3 DEF ServiceUnmountFails, WorldType, OnlyReg
<1> QED
  BY <1>1, <1>2, <1>3

\* The mount at the staging path goes away, or nothing changes.
LEMMA StagingKeeps ==
  ASSUME WorldType, OnlyReg, staging' \in {staging, None}, UNCHANGED <<bind, fuse, reg>>,
         owed' \in {"no", "now", "was"}
  PROVE  WorldType' /\ OnlyReg'
  BY DEF WorldType, OnlyReg

\* A bind mount of the staging path.
LEMMA FreshType ==
  ASSUME WorldType, NEW m \in Modes
  PROVE  /\ Fresh(m) \in Bind /\ Fresh(m).src # None /\ Fresh(m).mode = m
         /\ Fresh(m).src \in Mounts => Fresh(m).src = staging
  BY NodeAssumption DEF Fresh, Bind, WorldType

\* An unbound path.
LEMMA NoBindType == NoBind \in Bind /\ NoBind.src = None
  BY DEF NoBind, Bind, Modes

\* The binds change.
LEMMA BindKeeps ==
  ASSUME WorldType, OnlyReg, UNCHANGED <<staging, fuse, reg, owed>>, bind' \in [Paths -> Bind]
  PROVE  WorldType' /\ OnlyReg'
  BY DEF WorldType, OnlyReg

\* The binds after each step that changes them.
LEMMA BindSteps ==
  ASSUME Base
  PROVE  /\ \A r \in Rpcs : Publish(r) \/ Unbind(r) \/ UnbindFails(r) => bind' \in [Paths -> Bind]
         /\ \A D \in SUBSET Paths : TearDown(D) \/ Retry(D) \/ Rebind(D) => bind' \in [Paths -> Bind]
<1>1. bind \in [Paths -> Bind] /\ WorldType
  BY DEF Base, Types, WorldType
<1>2. ASSUME NEW r \in Rpcs, Publish(r) PROVE bind' \in [Paths -> Bind]
  <2>1. Mode(act[r].path) \in Modes
    BY DEF Mode, Modes
  <2>2. Fresh(Mode(act[r].path)) \in Bind
    BY <1>1, <2>1, FreshType
  <2> HIDE DEF Bind
  <2>3. bind' = bind \/ bind' = [bind EXCEPT ![act[r].path] = Fresh(Mode(act[r].path))]
    BY <1>2 DEF Publish
  <2> QED
    BY <1>1, <2>2, <2>3
<1>3. ASSUME NEW r \in Rpcs, Unbind(r) \/ UnbindFails(r) PROVE bind' \in [Paths -> Bind]
  BY <1>1, <1>3, NoBindType DEF Unbind, UnbindFails
<1>4. ASSUME NEW D \in SUBSET Paths, TearDown(D) \/ Retry(D) PROVE bind' \in [Paths -> Bind]
  BY <1>1, <1>4, NoBindType DEF TearDown, Retry
<1>5. ASSUME NEW D \in SUBSET Paths, Rebind(D) PROVE bind' \in [Paths -> Bind]
  <2>1. \A p \in Paths : act[Hm].snap[p] \in Modes
    BY DEF Base, Types, ActType, Actors, Act
  <2>2. \A p \in Paths : Fresh(act[Hm].snap[p]) \in Bind
    BY <1>1, <2>1, FreshType
  <2> QED
    BY <1>1, <1>5, <2>2 DEF Rebind
<1> QED
  BY <1>2, <1>3, <1>4, <1>5

\* No step makes a mount of anything else, or runs a second weed.
LEMMA NextWorld ==
  ASSUME Base, Next
  PROVE  WorldType' /\ OnlyReg'
<1>0. WorldType /\ OnlyReg
  BY DEF Base, Types
<1>1. ASSUME NEW r \in Rpcs, RpcStep(r) PROVE WorldType' /\ OnlyReg'
  <2>1. CASE Publish(r) \/ Unbind(r) \/ UnbindFails(r)
    <3>1. UNCHANGED <<staging, fuse, reg, owed>>
      BY <2>1 DEF Publish, Unbind, UnbindFails
    <3> QED
      BY <1>0, <2>1, <3>1, BindSteps, BindKeeps
  <2>2. CASE Unstage(r) \/ UnstageFails(r) \/ QuotaFails(r) \/ Mount(r)
    <3>1. UNCHANGED <<bind, owed>>
      BY <2>2 DEF Unstage, UnstageFails, QuotaFails, Mount
    <3>2. CASE ServiceMount \/ ServiceUnmount \/ ServiceUnmountFails
      BY <1>0, <3>1, <3>2, ServiceKeeps
    <3>3. CASE staging' \in {staging, None} /\ UNCHANGED <<fuse, reg>>
      BY <1>0, <3>1, <3>3, StagingKeeps DEF WorldType
    <3> QED
      BY <2>2, <3>2, <3>3 DEF Unstage, UnstageFails, QuotaFails, Mount
  <2>3. CASE ~(Publish(r) \/ Unbind(r) \/ UnbindFails(r) \/ Unstage(r) \/ UnstageFails(r)
               \/ QuotaFails(r) \/ Mount(r))
    <3>1. /\ staging' \in {staging, None} /\ UNCHANGED <<bind, fuse, reg>>
          /\ owed' \in {owed, "now"}
      BY <1>1, <2>3
      DEF RpcStep, RpcFault, EnterTracked, EnterAdopt, EnterClean, Clean, Quota, Unpublish,
          CleanFails, MountFails, PublishFails, world
    <3> QED
      BY <1>0, <3>1, StagingKeeps DEF WorldType
  <2> QED
    BY <2>1, <2>2, <2>3
<1>2. CASE HmStep
  <2>1. ASSUME NEW D \in SUBSET Paths, TearDown(D) \/ Retry(D) \/ Rebind(D)
        PROVE  WorldType' /\ OnlyReg'
    <3>1. UNCHANGED <<staging, fuse, reg, owed>>
      BY <2>1 DEF TearDown, Retry, Rebind
    <3> QED
      BY <1>0, <2>1, <3>1, BindSteps, BindKeeps
  <2>2. CASE RecoverUnmount \/ RecoverUnmountFails \/ Mount(Hm) \/ QuotaFails(Hm)
    <3>1. UNCHANGED <<bind, owed>>
      BY <2>2 DEF RecoverUnmount, RecoverUnmountFails, QuotaFails, Mount
    <3>2. CASE ServiceMount \/ ServiceUnmount \/ ServiceUnmountFails
      BY <1>0, <3>1, <3>2, ServiceKeeps
    <3>3. CASE UNCHANGED <<reg, fuse, staging>>
      BY <1>0, <3>1, <3>3, StagingKeeps DEF WorldType
    <3> QED
      BY <2>2, <3>2, <3>3 DEF RecoverUnmount, RecoverUnmountFails, QuotaFails, Mount
  <2>3. CASE Abort \/ Recover \/ RecoverRecheck \/ Detach \/ DetachFails \/ Quota(Hm) \/ MountFails(Hm)
    <3>1. /\ staging' \in {staging, None} /\ UNCHANGED <<bind, fuse, reg>>
          /\ owed' \in {owed, "now"}
      BY <2>3 DEF Abort, Recover, RecoverRecheck, Detach, DetachFails, Quota, MountFails, world
    <3> QED
      BY <1>0, <3>1, StagingKeeps DEF WorldType
  <2> QED
    BY <1>2, <2>1, <2>2, <2>3 DEF HmStep, HmFault
<1>3. CASE \/ \E r \in Rpcs : Call(r)
           \/ \E a \in Actors : Acquire(a)
           \/ HealthCheck \/ PluginRestart
  <2>1. UNCHANGED <<staging, bind, fuse, reg>> /\ owed' \in {owed, "no", "now"}
    BY <1>3 DEF Call, StageCall, UnstageCall, PublishCall, UnpublishCall, GiveUp, Acquire,
                HealthCheck, PluginRestart, world
  <2> QED
    BY <1>0, <2>1, StagingKeeps DEF WorldType
<1>4. CASE (\E m \in Mounts : Weed(m)) \/ LateMount \/ ServiceReaps \/ ServiceRestart
  BY <1>0, <1>4 DEF Weed, WeedHangs, WeedAnswers, WeedDies, LateMount, ServiceStarts, ServiceReaps,
                    ServiceRestart, WorldType, OnlyReg, Alive
<1> QED
  BY <1>1, <1>2, <1>3, <1>4 DEF Next

\* An answer keeps the types of kubelet's records.
LEMMA SucceedsType ==
  ASSUME Base, NEW a \in Actors, Succeeds(a)
  PROVE  KubeletType'
  BY DEF Succeeds, KubeletType, Base, Types

\* So does every step.
LEMMA NextKubelet ==
  ASSUME Base, Next
  PROVE  KubeletType'
<1>0. KubeletType
  BY DEF Base, Types
<1>1. ASSUME NEW r \in Rpcs, RpcStep(r) PROVE KubeletType'
  <2>1. CASE UNCHANGED kubelet
    BY <1>0, <2>1 DEF kubelet, KubeletType
  <2>2. CASE Succeeds(r)
    BY <2>2, SucceedsType DEF Actors
  <2>3. CASE Unpublish(r)
    BY <1>0, <2>3 DEF Unpublish, KubeletType
  <2>4. CASE EnterAdopt(r) \/ Quota(r)
    BY <2>1, <2>2, <2>4, RpcStores
  <2>5. CASE EnterTracked(r)
    BY <2>1, <2>2, <2>5 DEF EnterTracked
  <2> QED
    BY <1>1, <2>1, <2>2, <2>3, <2>4, <2>5
    DEF RpcStep, RpcFault, EnterClean, Clean, Mount, Publish, Unbind, Unstage, CleanFails,
        MountFails, QuotaFails, PublishFails, UnbindFails, UnstageFails, Fails
<1>2. CASE HmStep \/ HealthCheck \/ \E a \in Actors : Acquire(a)
  <2>1. act[Hm].pc = "quota" => act[Hm].op = "recover"
    BY DEF Base, Shape, HmRec
  <2>2. UNCHANGED kubelet
    BY <1>2, <2>1
    DEF HmStep, HmFault, HealthCheck, Acquire, Abort, Recover, RecoverUnmount, RecoverRecheck, Detach,
        Mount, Quota, TearDown, Retry, Rebind, RecoverUnmountFails, DetachFails, MountFails,
        QuotaFails, Fails, At
  <2> QED
    BY <1>0, <2>2 DEF kubelet, KubeletType
<1>3. ASSUME NEW r \in Rpcs, Call(r) PROVE KubeletType'
  BY <1>0, <1>3 DEF Call, StageCall, UnstageCall, PublishCall, UnpublishCall, GiveUp, kubelet, KubeletType
<1>4. CASE (\E m \in Mounts : Weed(m)) \/ LateMount \/ ServiceReaps \/ ServiceRestart \/ PluginRestart
  BY <1>0, <1>4 DEF Weed, LateMount, ServiceReaps, ServiceRestart, PluginRestart, kubelet, KubeletType
<1> QED
  BY <1>1, <1>2, <1>3, <1>4 DEF Next

\* The first layer holds initially ...
LEMMA InitBase == Init => Base
<1> SUFFICES ASSUME Init PROVE Base
  OBVIOUS
<1>1. ActType /\ Shape /\ Mine
  BY IdleType DEF Init, ActType, Shape, Mine, Actors
<1>2. WorldType /\ OnlyReg
  BY NoBindType DEF Init, WorldType, OnlyReg
<1> QED
  BY <1>1, <1>2 DEF Init, Base, Types, MutexType, VolType, KubeletType

\* ... and is kept.
LEMMA NextBase == Base /\ [Next]_vars => Base'
<1> SUFFICES ASSUME Base, [Next]_vars PROVE Base'
  OBVIOUS
<1>1. CASE Next
  BY <1>1, NextAct, NextWorld, NextKubelet DEF Base, Types
<1>2. CASE UNCHANGED vars
  BY <1>2 DEF vars, Base, Types, ActType, MutexType, VolType, WorldType, KubeletType, Mine, Shape,
              OnlyReg
<1> QED
  BY <1>1, <1>2

\* The types hold.
THEOREM NodeTypeCorrect == Spec => []TypeOK
<1>1. Base => TypeOK
  BY DEF Base, Types, ActType, MutexType, VolType, WorldType, KubeletType, TypeOK
<1> QED
  BY <1>1, InitBase, NextBase, PTL DEF Spec

-------------------------------------------------------------------------------
(* The second layer: what the mutex gives while nobody waits on an object  *)
(* that was removed.                                                       *)

\* Whoever is on its way to the volume or at it uses the mutex object the id
\* maps to now, and only one is at it.
Locked == \A a \in Actors : act[a].pc # "idle" => act[a].lock = mutex
One == \A a, b \in Actors : a # b => ~Within(a) \/ ~Within(b)
Excl == ~split => Locked /\ One

\* A goroutine past its mutex is alone, and a mutex object that is removed
\* unnoticed is nobody else's.
LEMMA TurnExcl ==
  ASSUME Base, Excl, NEW a \in Actors, Turn(a)
  PROVE  /\ Excl'
         /\ ~split' => ~split /\ \A b \in Actors : b # a => ~Within(b) /\ ~Within(b)'
<1> SUFFICES ASSUME ~split'
             PROVE  /\ Locked' /\ One' /\ ~split
                    /\ \A b \in Actors : b # a => ~Within(b) /\ ~Within(b)'
  BY DEF Excl
<1>1. ~split
  BY DEF Turn, KeepMutex, RemoveMutex, Base, Types, MutexType
<1>2. Locked /\ One /\ Within(a)
  BY <1>1 DEF Excl, Turn
<1>3. \A b \in Actors : b # a => ~Within(b) /\ ~Within(b)' /\ act'[b].pc = act[b].pc
                                 /\ act'[b].lock = act[b].lock
  BY <1>2 DEF One, Turn, Waits, Fixed, Within
<1>4. One'
  BY <1>3 DEF One
<1>5. Locked'
  <2>1. CASE KeepMutex
    BY <1>2, <1>3, <2>1, IdleType DEF KeepMutex, Locked, Turn, Fixed, Within
  <2>2. CASE RemoveMutex(a) /\ act'[a] = Idle
    <3>1. \A b \in Actors : b # a => act[b].pc = "idle"
      BY <1>1, <1>2, <2>2 DEF RemoveMutex, Locked
    <3> QED
      BY <1>3, <2>2, <3>1, IdleType DEF Locked
  <2> QED
    BY <2>1, <2>2 DEF Turn
<1> QED
  BY <1>1, <1>3, <1>4, <1>5

\* A goroutine that starts does so with the current mutex object.
LEMMA BeginsExcl ==
  ASSUME Base, Excl, NEW a \in Actors, Begins(a, act'[a])
  PROVE  Excl'
  BY DEF Begins, Becomes, KeepMutex, Excl, Locked, One, Within

\* It gets past the mutex only when nobody else is.
LEMMA AcquireExcl ==
  ASSUME Base, Excl, NEW a \in Actors, Acquire(a)
  PROVE  Excl'
<1> SUFFICES ASSUME ~split' PROVE Locked' /\ One'
  BY DEF Excl
<1>1. KeepMutex /\ ~split /\ Locked /\ One /\ act[a].pc = "lock" /\ LockFree(a)
  BY DEF Acquire, KeepMutex, Excl, At
<1>2. /\ \A b \in Actors : b # a => act'[b] = act[b]
      /\ act'[a].lock = act[a].lock /\ act'[a].pc = "enter"
  BY AcquireMoves DEF Moved, Becomes, Fixed
<1>3. \A b \in Actors : b # a => ~Within(b)
  BY <1>1 DEF LockFree, Locked, Within
<1>4. Locked'
  BY <1>1, <1>2 DEF Locked, KeepMutex
<1>5. One'
  BY <1>2, <1>3 DEF One, Within
<1> QED
  BY <1>4, <1>5

\* The steps that are not a turn and keep every goroutine where it is.
Idles ==
  \/ \E r \in Rpcs : GiveUp(r)
  \/ \E m \in Mounts : Weed(m)
  \/ LateMount \/ ServiceReaps \/ ServiceRestart

\* They do.
LEMMA IdlesView ==
  ASSUME Base, Idles
  PROVE  /\ KeepMutex /\ UNCHANGED <<vol, bind, kst, disk, pub>>
         /\ act'[Hm] = act[Hm]
         /\ \A a \in Actors : act'[a].pc = act[a].pc /\ act'[a].lock = act[a].lock
                              /\ act'[a].mine = act[a].mine
         /\ ~adrift' => \A a \in Actors : act'[a] = act[a]
<1>1. ASSUME NEW r \in Rpcs, GiveUp(r)
      PROVE  /\ KeepMutex /\ UNCHANGED <<vol, bind, kst, disk, pub>>
             /\ act'[Hm] = act[Hm] /\ adrift'
             /\ \A a \in Actors : act'[a].pc = act[a].pc /\ act'[a].lock = act[a].lock
                                  /\ act'[a].mine = act[a].mine
  BY <1>1, GiveUpView, NodeAssumption DEF GiveUp, Becomes, Actors, world
<1>2. CASE (\E m \in Mounts : Weed(m)) \/ LateMount \/ ServiceReaps \/ ServiceRestart
  BY <1>2 DEF Weed, LateMount, ServiceReaps, ServiceRestart, kubelet
<1> QED
  BY <1>1, <1>2 DEF Idles

\* The kinds of steps there are.
LEMMA Kinds ==
  ASSUME Base, Next
  PROVE  \/ \E r \in Rpcs : RpcStep(r)
         \/ HmStep
         \/ \E r \in Rpcs :
              /\ Begins(r, act'[r]) /\ r \in Actors
              /\ StageCall(r) \/ UnstageCall(r) \/ \E p \in Paths : PublishCall(r, p) \/ UnpublishCall(r, p)
         \/ HealthCheck /\ Begins(Hm, act'[Hm])
         \/ \E a \in Actors : Acquire(a)
         \/ Idles
         \/ PluginRestart
<1>1. ASSUME NEW r \in Rpcs, Call(r)
      PROVE  \/ Idles
             \/ /\ Begins(r, act'[r]) /\ r \in Actors
                /\ StageCall(r) \/ UnstageCall(r)
                   \/ \E p \in Paths : PublishCall(r, p) \/ UnpublishCall(r, p)
  BY <1>1, CallBegins DEF Call, Idles, Actors
<1>2. HealthCheck => Begins(Hm, act'[Hm])
  BY CheckBegins
<1> QED
  BY <1>1, <1>2 DEF Next, Idles

\* The mutex excludes.
LEMMA NextExcl ==
  ASSUME Base, Excl, Next
  PROVE  Excl'
<1>1. ASSUME NEW r \in Rpcs, RpcStep(r) PROVE Excl'
  BY <1>1, RpcStepTurn, TurnExcl DEF RpcTurn, Actors
<1>2. CASE HmStep
  BY <1>2, HmStepTurn, TurnExcl DEF HmTurn, Actors
<1>3. ASSUME NEW a \in Actors, Begins(a, act'[a]) PROVE Excl'
  BY <1>3, BeginsExcl
<1>4. ASSUME NEW a \in Actors, Acquire(a) PROVE Excl'
  BY <1>4, AcquireExcl
<1>5. CASE Idles
  BY <1>5, IdlesView DEF KeepMutex, Excl, Locked, One, Within
<1>6. CASE PluginRestart
  BY <1>6, RestartView, IdleType DEF Excl, Locked, One, Within
<1> QED
  BY <1>1, <1>2, <1>3, <1>4, <1>5, <1>6, Kinds DEF Actors

\* The invariant of both layers so far.
LEMMA InitExcl == Init => Excl
  BY IdleType DEF Init, Excl, Locked, One, Within

-------------------------------------------------------------------------------
(* What a handler or a recovery knows of the volume stays true.            *)

\* A handler that stages finds no volume until it stores one, and one that
\* binds has loaded the tracked Volume.
RpcPhase(r) ==
  /\ act[r].pc \in {"clean", "mount", "quota"} => vol = None
  /\ act[r].pc = "bind" => act[r].mine

\* A recovery or a retry works on the paths of the tracked volume.
HmPhase ==
  /\ act[Hm].pc \in {"service", "recheck", "detach", "mount", "quota", "teardown", "rebind"} =>
       vol # None /\ act[Hm].snap = vol.paths
  /\ act[Hm].pc = "rebind" => act[Hm].down \subseteq PathsOf(act[Hm].snap)

\* The staging mount a recovery detaches is dead, and gone when it mounts,
\* unless the service was at work on a request that the plugin gave up on.
HmDead ==
  owed = "no" =>
  /\ act[Hm].pc = "service" /\ ~act[Hm].hung => ~Alive(staging)
  /\ act[Hm].pc \in {"recheck", "detach"} => ~Alive(staging)
  /\ act[Hm].pc = "mount" => staging = None

\* A withdrawn path is not tracked, and a published one with its mode.
Withdrawn ==
  vol # None => \A p \in Paths :
    /\ pub[p] = "gone" => vol.paths[p] = "no"
    /\ pub[p] = "pub" => vol.paths[p] \in {"no", Mode(p)}

Guards == (\A r \in Rpcs : RpcPhase(r)) /\ HmPhase /\ HmDead /\ Withdrawn
Guarded == ~split => Guards

\* A mount whose probe says it is dead has no weed.
LEMMA DeadHealth ==
  ASSUME WorldType, NEW x \in Mounts \cup {None, Bare}
  PROVE  "dead" \in Health(x) => ~Alive(x)
<1>1. CASE x \in {None, Bare}
  BY <1>1, NodeAssumption DEF Alive
<1>2. CASE x \in Mounts
  <2>1. x # None /\ x # Bare /\ fuse[x] \in {"ok", "hung", "dead"}
    BY <1>2, NodeAssumption DEF WorldType
  <2>2. Health(x) = [ok |-> {"ok", "slow"}, hung |-> {"slow"}, dead |-> {"dead"}][fuse[x]]
    BY <2>1 DEF Health
  <2> QED
    BY <2>1, <2>2 DEF Alive
<1> QED
  BY <1>1, <1>2

\* Withdrawn speaks of vol and pub only.
LEMMA SameWithdrawn == Withdrawn /\ UNCHANGED <<vol, pub>> => Withdrawn'
  BY DEF Withdrawn, Mode

\* An answer to anything but a publish leaves pub alone.
LEMMA SucceedsPub ==
  ASSUME NEW a \in Actors, Succeeds(a)
  PROVE  pub' = IF act[a].op = "publish" THEN [pub EXCEPT ![act[a].path] = "pub"] ELSE pub
  BY DEF Succeeds

\* A turn of a request.
LEMMA RpcGuarded ==
  ASSUME Base, Guards, NEW r \in Rpcs, RpcStep(r)
  PROVE  RpcPhase(r)' /\ Withdrawn'
<1> USE DEF Guards
<1>1. CASE CleanFails(r) \/ MountFails(r) \/ QuotaFails(r) \/ PublishFails(r) \/ Unbind(r)
           \/ UnbindFails(r) \/ UnstageFails(r)
  <2>1. act'[r] = Idle /\ vol' = vol
    BY <1>1, RpcReturns
  <2>2. pub' = pub
    BY <1>1 DEF CleanFails, MountFails, QuotaFails, PublishFails, Unbind, UnbindFails, UnstageFails,
                Fails, Succeeds, kubelet, At, Base, Shape, RpcRec
  <2> QED
    BY <2>1, <2>2, IdleType, SameWithdrawn DEF RpcPhase
<1>2. CASE EnterTracked(r)
  <2>1. pub' = pub
    BY <1>2 DEF EnterTracked, Succeeds, kubelet
  <2> QED
    BY <1>2, <2>1, EnterTrackedTurn, IdleType, SameWithdrawn DEF RpcPhase
<1>3. CASE EnterClean(r) \/ Clean(r) \/ Mount(r)
  <2>1. pub' = pub /\ vol = None
    BY <1>3 DEF EnterClean, Clean, Mount, kubelet, At, RpcPhase
  <2> QED
    BY <1>3, <2>1, RpcGoes, SameWithdrawn DEF RpcPhase, Moved
<1>4. CASE EnterAdopt(r) \/ Quota(r)
  <2>1. vol' # None /\ vol'.paths = NoPaths /\ (act'[r].pc = "bind" => act'[r].mine)
        /\ act'[r].pc \in {"bind", "idle"}
    BY <1>4, RpcStores, IdleType
  <2> QED
    BY <2>1 DEF RpcPhase, Withdrawn, NoPaths
<1>5. CASE Publish(r)
  <2> DEFINE p == act[r].path
  <2>1. /\ act'[r] = Idle /\ p \in Paths /\ vol # None /\ vol' # None
        /\ vol'.paths = [vol.paths EXCEPT ![p] = Mode(p)]
        /\ pub' = [pub EXCEPT ![p] = "pub"]
    BY <1>5, PublishTurn, SucceedsPub DEF Publish, At, RpcPhase, Actors
  <2>2. pub \in [Paths -> {"no", "pub", "old", "gone", "oldgone"}] /\ vol.paths \in [Paths -> Modes]
    BY <2>1 DEF Base, Types, KubeletType, VolType, Volume
  <2> HIDE DEF p
  <2> QED
    BY <2>1, <2>2, IdleType DEF RpcPhase, Withdrawn, Mode
<1>6. CASE Unpublish(r)
  <2> DEFINE p == act[r].path
  <2>1. /\ act'[r].pc = "unbind" /\ p \in Paths /\ (vol = None <=> vol' = None)
        /\ vol # None => vol'.paths = [vol.paths EXCEPT ![p] = "no"]
        /\ pub' = [pub EXCEPT ![p] = "gone"]
    BY <1>6, UnpublishTurn DEF Unpublish
  <2>2. pub \in [Paths -> {"no", "pub", "old", "gone", "oldgone"}] /\ (vol # None => vol.paths \in [Paths -> Modes])
    BY <2>1 DEF Base, Types, KubeletType, VolType, Volume
  <2> HIDE DEF p
  <2> QED
    BY <2>1, <2>2 DEF RpcPhase, Withdrawn, Mode
<1>7. CASE Unstage(r)
  BY <1>7, UnstageTurn, IdleType DEF RpcPhase, Withdrawn
<1> QED
  BY <1>1, <1>2, <1>3, <1>4, <1>5, <1>6, <1>7 DEF RpcStep, RpcFault

\* A turn of the health monitor.
LEMMA HmGuarded ==
  ASSUME Base, OnlyReg', Guards, HmStep
  PROVE  HmPhase' /\ HmDead' /\ Withdrawn'
<1> USE DEF Guards
<1>0. WorldType /\ staging \in Mounts \cup {None, Bare} /\ None \notin Mounts
  BY NodeAssumption DEF Base, Types, WorldType
<1>1. CASE Abort \/ RecoverUnmountFails \/ DetachFails \/ MountFails(Hm) \/ QuotaFails(Hm)
  <2>1. act'[Hm] = Idle /\ vol' = vol
    BY <1>1, HmReturns
  <2>2. pub' = pub
    BY <1>1 DEF Abort, RecoverUnmountFails, DetachFails, MountFails, QuotaFails, Fails, kubelet
  <2> QED
    BY <2>1, <2>2, IdleType, SameWithdrawn DEF HmPhase, HmDead
<1>2. CASE RecoverUnmount
  <2>1. /\ vol' = vol /\ pub' = pub /\ act[Hm].pc = "service" /\ act'[Hm].pc = "recheck"
        /\ act'[Hm].snap = act[Hm].snap /\ act'[Hm].hung = act[Hm].hung
    <3>1. act'[Hm].pc = "recheck" /\ act'[Hm].snap = act[Hm].snap /\ act'[Hm].hung = act[Hm].hung
      BY <1>2, GotoView DEF RecoverUnmount, Moved, Fixed, PCs, Actors, Base, Types
    <3> QED
      BY <1>2, <3>1 DEF RecoverUnmount, kubelet, At
  <2>2. owed' = "no" => ~Alive(staging)'
    <3>1. CASE HasUnmounter
      BY <1>0, <1>2, <3>1 DEF RecoverUnmount, ServiceUnmount, OnlyReg, Alive
    <3>2. CASE ~HasUnmounter
      BY <1>2, <2>1, <3>2 DEF RecoverUnmount, HasUnmounter, HmDead, Alive
    <3> QED
      BY <3>1, <3>2
  <2> QED
    BY <2>1, <2>2, SameWithdrawn DEF HmPhase, HmDead
<1>3. CASE RecoverRecheck \/ Detach \/ Mount(Hm) \/ Quota(Hm)
  <2>1. act[Hm].op = "recover" /\ act[Hm].pc \in {"recheck", "detach", "mount", "quota"}
    BY <1>3 DEF RecoverRecheck, Detach, Mount, Quota, At, Base, Shape, HmRec
  <2>2. PICK l \in {"detach", "mount", "quota", "teardown"} :
          /\ Goto(Hm, l)
          /\ l = "detach" => act[Hm].pc = "recheck" /\ UNCHANGED <<staging, fuse>>
          /\ l = "mount" => staging' = None
    BY <1>3, <2>1 DEF RecoverRecheck, Detach, Mount, Quota, world, At
  <2>3. act'[Hm].pc = l /\ act'[Hm].snap = act[Hm].snap
    BY <2>2, GotoView DEF Moved, PCs, Actors, Base, Types
  <2>4. vol' = vol /\ pub' = pub /\ owed' = owed
    BY <1>3, <2>1 DEF RecoverRecheck, Detach, Mount, Quota, kubelet, world
  <2> QED
    BY <2>1, <2>2, <2>3, <2>4, SameWithdrawn DEF HmPhase, HmDead, Alive
<1>4. CASE Recover
  <2>1. /\ vol' = vol /\ pub' = pub /\ act'[Hm].pc = "service" /\ act'[Hm].snap = vol.paths
        /\ act'[Hm].hung = act[Hm].hung /\ UNCHANGED <<staging, fuse>> /\ vol # None
    BY <1>4, HmTakes DEF Recover, kubelet, world
  <2>2. ~act[Hm].hung => ~Alive(staging)
    BY <1>0, <1>4, DeadHealth DEF Recover, Confirmed
  <2> QED
    BY <2>1, <2>2, SameWithdrawn DEF HmPhase, HmDead, Alive
<1>5. ASSUME NEW D \in SUBSET Paths, TearDown(D) \/ Retry(D)
      PROVE  HmPhase' /\ HmDead' /\ Withdrawn'
  <2>1. /\ act'[Hm].pc = "rebind" /\ act'[Hm].down = D
        /\ TearDown(D) => act'[Hm].snap = act[Hm].snap
        /\ Retry(D) => act'[Hm].snap = vol.paths
    BY <1>5, HmTakes
  <2>2. /\ vol' = vol /\ pub' = pub /\ vol # None
        /\ TearDown(D) => act[Hm].snap = vol.paths /\ D \subseteq PathsOf(act[Hm].snap)
        /\ Retry(D) => D \subseteq PathsOf(vol.paths)
    BY <1>5 DEF TearDown, Retry, DeadPaths, kubelet, At, HmPhase
  <2> QED
    BY <1>5, <2>1, <2>2, SameWithdrawn DEF HmPhase, HmDead, PathsOf
<1>6. ASSUME NEW D \in SUBSET Paths, Rebind(D)
      PROVE  HmPhase' /\ HmDead' /\ Withdrawn'
  <2>1. act[Hm].op \in {"retry", "recover"} /\ vol # None /\ act[Hm].snap = vol.paths /\ pub' = pub
    BY <1>6 DEF Rebind, At, Base, Shape, HmRec, HmPhase, kubelet
  <2>2. act'[Hm] = Idle /\ vol' # None /\ vol'.paths = vol.paths
    BY <1>6, <2>1, HmReturns, HmStores
  <2> QED
    BY <2>1, <2>2, IdleType DEF HmPhase, HmDead, Withdrawn, Mode
<1> QED
  BY <1>1, <1>2, <1>3, <1>4, <1>5, <1>6 DEF HmStep, HmFault

\* Nothing but the service brings a weed back to life, and by itself only for
\* a request that the plugin gave up on.
LEMMA IdlesDead ==
  ASSUME Base, Idles, ~LateMount
  PROVE  /\ staging' \in {staging, None}
         /\ \A m : Alive(m)' => Alive(m)
         /\ owed' = "no" => owed = "no"
<1>1. CASE \E r \in Rpcs : GiveUp(r)
  BY <1>1 DEF GiveUp, world, Alive
<1>2. CASE (\E m \in Mounts : Weed(m)) \/ ServiceReaps \/ ServiceRestart
  BY <1>2 DEF Weed, WeedHangs, WeedAnswers, WeedDies, ServiceReaps, ServiceRestart, Alive, Base,
              Types, WorldType
<1> QED
  BY <1>1, <1>2 DEF Idles

\* A goroutine on its way to the mutex knows nothing of the volume.
LEMMA WaitsGuarded ==
  ASSUME Base, Guards, NEW a \in Actors, Becomes(a, act'[a]), act'[a].pc \in {"lock", "enter"},
         UNCHANGED <<vol, pub, staging, fuse>>, a = Hm \/ owed' = owed
  PROVE  Guards'
  BY SameWithdrawn DEF Becomes, Guards, RpcPhase, HmPhase, HmDead, Alive, Actors

\* The second layer is kept.
LEMMA NextGuarded ==
  ASSUME Base, Base', Excl, Guarded, Next
  PROVE  Guarded'
<1>1. ASSUME NEW r \in Rpcs, RpcStep(r) PROVE Guarded'
  <2> SUFFICES ASSUME ~split' PROVE Guards'
    BY DEF Guarded
  <2>1. ~split /\ \A b \in Actors : b # r => ~Within(b)'
    BY <1>1, RpcStepTurn, TurnExcl DEF RpcTurn, Actors
  <2>2. RpcPhase(r)' /\ Withdrawn'
    BY <1>1, <2>1, RpcGuarded DEF Guarded
  <2> QED
    BY <2>1, <2>2, NodeAssumption DEF Guards, RpcPhase, HmPhase, HmDead, Within, Actors
<1>2. CASE HmStep
  <2> SUFFICES ASSUME ~split' PROVE Guards'
    BY DEF Guarded
  <2>1. ~split /\ \A b \in Actors : b # Hm => ~Within(b)'
    BY <1>2, HmStepTurn, TurnExcl DEF HmTurn, Actors
  <2>2. HmPhase' /\ HmDead' /\ Withdrawn'
    BY <1>2, <2>1, HmGuarded DEF Guarded, Base
  <2> QED
    BY <2>1, <2>2, NodeAssumption DEF Guards, RpcPhase, Within, Actors
<1>3. ASSUME NEW a \in Actors, Becomes(a, act'[a]), act'[a].pc \in {"lock", "enter"}, KeepMutex,
             UNCHANGED <<vol, pub, staging, fuse>>, a = Hm \/ owed' = owed
      PROVE  Guarded'
  BY <1>3, WaitsGuarded DEF Guarded, KeepMutex
<1>4. ASSUME NEW r \in Rpcs, r \in Actors, Begins(r, act'[r]),
             StageCall(r) \/ UnstageCall(r) \/ \E p \in Paths : PublishCall(r, p) \/ UnpublishCall(r, p)
      PROVE  Guarded'
  <2>1. UNCHANGED <<vol, pub, staging, fuse, owed>>
    BY <1>4 DEF StageCall, UnstageCall, PublishCall, UnpublishCall, world, kubelet
  <2> QED
    BY <1>3, <1>4, <2>1 DEF Begins
<1>5. CASE HealthCheck /\ Begins(Hm, act'[Hm])
  <2>1. UNCHANGED <<vol, pub, staging, fuse>>
    BY <1>5 DEF HealthCheck, world, kubelet
  <2> QED
    BY <1>3, <1>5, <2>1 DEF Begins, Actors
<1>6. ASSUME NEW a \in Actors, Acquire(a) PROVE Guarded'
  <2>1. UNCHANGED <<vol, pub, staging, fuse, owed>> /\ KeepMutex
    BY <1>6 DEF Acquire, world, kubelet
  <2> QED
    BY <1>3, <1>6, <2>1, AcquireMoves DEF Moved
<1>7. CASE Idles
  <2> SUFFICES ASSUME ~split' PROVE Guards'
    BY DEF Guarded
  <2>1. Guards /\ act'[Hm] = act[Hm] /\ vol' = vol /\ pub' = pub
        /\ \A r \in Rpcs : act'[r].pc = act[r].pc /\ act'[r].mine = act[r].mine
    BY <1>7, IdlesView DEF Guarded, KeepMutex, Actors
  <2>2. HmDead'
    <3>1. CASE LateMount
      BY <3>1 DEF LateMount, HmDead
    <3>2. CASE ~LateMount
      <4>1. /\ staging' \in {staging, None} /\ \A m : Alive(m)' => Alive(m)
            /\ owed' = "no" => owed = "no"
        BY <1>7, <3>2, IdlesDead
      <4>2. Alive(staging)' => Alive(staging)
        BY <4>1, NodeAssumption DEF Alive
      <4> QED
        BY <2>1, <4>1, <4>2 DEF Guards, HmDead
    <3> QED
      BY <3>1, <3>2
  <2> QED
    BY <2>1, <2>2, SameWithdrawn DEF Guards, RpcPhase, HmPhase
<1>8. CASE PluginRestart
  BY <1>8, RestartView, IdleType
  DEF PluginRestart, Guarded, Guards, RpcPhase, HmPhase, HmDead, Withdrawn, Actors
<1> QED
  BY <1>1, <1>2, <1>4, <1>5, <1>6, <1>7, <1>8, Kinds

\* The two layers hold.
LEMMA InitGuarded == Init => Guarded
  BY IdleType DEF Init, Guarded, Guards, RpcPhase, HmPhase, HmDead, Withdrawn, Actors

\* A stuttering step.
LEMMA StutterGuarded == Guarded /\ UNCHANGED vars => Guarded'
  BY DEF vars, Guarded, Guards, RpcPhase, HmPhase, HmDead, Withdrawn, Alive, PathsOf, Mode

\* The first three layers hold in every reachable state.
LEMMA GuardedInvariance == Spec => [](Base /\ Excl /\ Guarded)
<1>1. Base /\ Excl /\ Guarded /\ [Next]_vars => (Base /\ Excl /\ Guarded)'
  <2> SUFFICES ASSUME Base, Excl, Guarded, [Next]_vars PROVE Base' /\ Excl' /\ Guarded'
    OBVIOUS
  <2>1. CASE UNCHANGED vars
    BY <2>1, NextBase, StutterGuarded DEF vars, Excl, Locked, One, Within
  <2> QED
    BY <2>1, NextBase, NextExcl, NextGuarded
<1> QED
  BY <1>1, InitBase, InitExcl, InitGuarded, PTL DEF Spec

\* Only the last step of a recovery or retry binds paths again.
LEMMA RebindsOnly ==
  ASSUME Base, Next, NEW p \in Paths, Rebinds(p)
  PROVE  \E D \in SUBSET Paths : Rebind(D) /\ p \in D
<1>1. /\ act[Hm].pc = "rebind" /\ act'[Hm] # act[Hm] /\ bind[p].src = None /\ bind'[p].src # None
  BY DEF Rebinds, At, Kept
<1>2. bind \in [Paths -> Bind]
  BY DEF Base, Types, WorldType
<1>3. ASSUME NEW r \in Rpcs, RpcStep(r) PROVE FALSE
  <2>1. CASE Publish(r)
    <3>1. Becomes(r, Idle)
      BY <2>1, ReturnView DEF Publish, Base, Types, Actors
    <3> QED
      BY <1>1, <3>1, NodeAssumption DEF Becomes, Actors
  <2>2. CASE Unbind(r) \/ UnbindFails(r)
    BY <1>1, <1>2, <2>2, NoBindType DEF Unbind, UnbindFails
  <2>3. CASE ~Publish(r) /\ ~Unbind(r) /\ ~UnbindFails(r)
    <3>1. UNCHANGED bind
      BY <1>3, <2>3
      DEF RpcStep, RpcFault, EnterTracked, EnterAdopt, EnterClean, Clean, Mount, Quota, Unpublish,
          Unstage, CleanFails, MountFails, QuotaFails, PublishFails, UnstageFails, world
    <3> QED
      BY <1>1, <3>1
  <2> QED
    BY <2>1, <2>2, <2>3
<1>4. CASE HmStep
  <2>1. PICK D \in SUBSET Paths : Rebind(D)
    BY <1>1, <1>4
    DEF HmStep, HmFault, Abort, Recover, RecoverUnmount, RecoverRecheck, Detach, Mount, Quota,
        TearDown, Retry, RecoverUnmountFails, DetachFails, MountFails, QuotaFails, At
  <2>2. p \in D
    BY <1>1, <1>2, <2>1 DEF Rebind
  <2> QED
    BY <2>1, <2>2
<1>5. CASE \/ \E r \in Rpcs : StageCall(r) \/ UnstageCall(r)
                              \/ \E q \in Paths : PublishCall(r, q) \/ UnpublishCall(r, q)
           \/ HealthCheck \/ PluginRestart
           \/ \E a \in Actors : Acquire(a)
  <2>1. UNCHANGED bind
    BY <1>5 DEF StageCall, UnstageCall, PublishCall, UnpublishCall, HealthCheck, PluginRestart, Acquire,
                world
  <2> QED
    BY <1>1, <2>1
<1>6. CASE Idles
  BY <1>1, <1>6, IdlesView
<1> QED
  BY <1>3, <1>4, <1>5, <1>6, Kinds

\* A path that is bound again is tracked, with the mode recorded for it.
LEMMA RebindsTracked ==
  ASSUME Base, Guards, Next, NEW p \in Paths, Rebinds(p)
  PROVE  vol # None /\ vol.paths[p] # "no" /\ bind'[p].mode = vol.paths[p]
<1>1. PICK D \in SUBSET Paths : Rebind(D) /\ p \in D
  BY RebindsOnly
<1>2. vol # None /\ act[Hm].snap = vol.paths /\ D \subseteq PathsOf(act[Hm].snap)
  BY <1>1 DEF Rebind, At, Guards, HmPhase
<1>3. vol.paths \in [Paths -> Modes]
  BY <1>2 DEF Base, Types, VolType, Volume
<1>4. bind'[p] = Fresh(vol.paths[p])
  BY <1>1, <1>2 DEF Rebind, Rebinds
<1> QED
  BY <1>1, <1>2, <1>3, <1>4, FreshType DEF PathsOf, Base, Types

\* retryPublishPaths and recoverVolumeAs never bind a withdrawn path again
\* while the mutex excludes them: whatever failed or was repeated before.
THEOREM NoRebindCorrect == Spec => NoRebindUnlessSplit
<1>1. Base /\ Excl /\ Guarded /\ [Next]_vars => [~split => NoRebindStep]_vars
  <2> SUFFICES ASSUME Base, Guarded, Next, ~split PROVE NoRebindStep
    OBVIOUS
  <2>1. ASSUME NEW p \in Paths, Rebinds(p) PROVE pub[p] # "gone"
    BY <2>1, RebindsTracked DEF Guarded, Guards, Withdrawn
  <2> QED
    BY <2>1 DEF NoRebindStep
<1> QED
  BY <1>1, GuardedInvariance, PTL DEF Spec, NoRebindUnlessSplit

\* They bind a path with the mode it was published with, through any number
\* of recoveries that rebuild the Volume.
THEOREM RebindKeepsModeCorrect == Spec => RebindKeepsMode
<1> DEFINE Step == ~split => \A p \in Paths :
                     Rebinds(p) /\ pub[p] = "pub" => bind'[p].mode = Mode(p)
<1>1. Base /\ Excl /\ Guarded /\ [Next]_vars => [Step]_vars
  <2> SUFFICES ASSUME Base, Guarded, Next, ~split, NEW p \in Paths, Rebinds(p), pub[p] = "pub"
               PROVE  bind'[p].mode = Mode(p)
    OBVIOUS
  <2> QED
    BY RebindsTracked DEF Guarded, Guards, Withdrawn
<1> QED
  BY <1>1, GuardedInvariance, PTL DEF Spec, RebindKeepsMode

-------------------------------------------------------------------------------
(* The third layer: what kubelet's bookkeeping gives while it has given up *)
(* on no request.                                                          *)

\* It waits for every request, asks one thing of a path at a time and has a
\* record of the path, and unstages only without any such record.
Asked ==
  /\ \A r \in Rpcs : act[r].pc # "idle" => act[r].heard
  /\ \A r, q \in Rpcs : r # q /\ act[r].path \in Paths => act[q].path # act[r].path
  /\ \A r \in Rpcs : act[r].path \in Paths => act[r].path \in disk
  /\ \A r \in Rpcs : act[r].op = "unstage" => disk = {}

\* It keeps the record of a published path, publishes nothing on a volume
\* that is not staged, and holds no volume staged that is not tracked.
Records ==
  /\ \A r \in Rpcs : act[r].pc = "unbind" => pub[act[r].path] = "gone"
  /\ \A p \in Paths : pub[p] \in {"pub", "old"} => p \in disk
  /\ disk # {} => kst = "staged"
  /\ kst = "staged" => vol # None

Orders == Asked /\ Records
Orderly == ~adrift => Orders

\* A turn of a request that kubelet hears nothing of.
LEMMA SilentOrders ==
  ASSUME Base, Orders, NEW r \in Rpcs, Turn(r), UNCHANGED kubelet, act'[r].pc # "unbind",
         vol' = None => vol = None
  PROVE  Orders'
<1>1. \A q \in Rpcs : q # r => /\ act'[q].pc = act[q].pc /\ act'[q].op = act[q].op
                               /\ act'[q].path = act[q].path /\ act'[q].heard = act[q].heard
  BY DEF Turn, Waits, Fixed, Actors
<1>2. \/ act'[r] = Idle
      \/ /\ act'[r].op = act[r].op /\ act'[r].path = act[r].path /\ act'[r].heard = act[r].heard
         /\ act[r].pc # "idle"
  BY DEF Turn, Fixed, Within
<1>3. Asked'
  BY <1>1, <1>2, IdleType, NodeAssumption DEF Orders, Asked, kubelet
<1>4. Records'
  BY <1>1, <1>2 DEF Orders, Records, kubelet
<1> QED
  BY <1>3, <1>4 DEF Orders

\* A request that ends and that kubelet hears of.
LEMMA AnswerOrders ==
  ASSUME Base, Orders, NEW r \in Rpcs, Turn(r), act'[r] = Idle, Succeeds(r),
         \/ act[r].op = "stage" /\ vol' # None
         \/ act[r].op = "unstage" /\ vol' = None
         \/ act[r].op = "publish" /\ (vol' = None => vol = None)
         \/ act[r].pc = "unbind" /\ vol' = vol
  PROVE  Orders'
<1>1. \A q \in Rpcs : q # r => /\ act'[q].pc = act[q].pc /\ act'[q].op = act[q].op
                               /\ act'[q].path = act[q].path /\ act'[q].heard = act[q].heard
  BY DEF Turn, Waits, Fixed, Actors
<1>2. /\ act'[r].pc = "idle" /\ act'[r].op = "none" /\ act'[r].path = None
      /\ None \notin Paths
  BY IdleType, NodeAssumption
<1>3. act[r].heard /\ RpcRec(act[r])
  BY DEF Turn, Within, Orders, Asked, Base, Shape
<1>4. pub \in [Paths -> {"no", "pub", "old", "gone", "oldgone"}]
  BY DEF Base, Types, KubeletType
<1>5. CASE act[r].op = "stage" /\ vol' # None
  <2>1. disk' = disk /\ pub' = pub /\ kst' = IF kst = "trying" THEN "staged" ELSE kst
    BY <1>3, <1>5 DEF Succeeds
  <2> QED
    BY <1>1, <1>2, <1>5, <2>1 DEF Orders, Asked, Records
<1>6. CASE act[r].op = "unstage" /\ vol' = None
  <2>1. disk' = disk /\ pub' = pub /\ kst' = "no" /\ disk = {}
    BY <1>3, <1>6 DEF Succeeds, Orders, Asked
  <2> QED
    BY <1>1, <1>2, <2>1 DEF Orders, Asked, Records
<1>7. CASE act[r].op = "publish" /\ (vol' = None => vol = None)
  <2> DEFINE p == act[r].path
  <2>1. p \in Paths /\ p \in disk /\ \A q \in Rpcs : q # r => act[q].path # p
    BY <1>3, <1>7 DEF RpcRec, Orders, Asked
  <2>2. disk' = disk /\ pub' = [pub EXCEPT ![p] = "pub"] /\ kst' = kst
    BY <1>3, <1>7 DEF Succeeds
  <2> HIDE DEF p
  <2>3. Asked'
    BY <1>1, <1>2, <2>2 DEF Orders, Asked
  <2>4. Records'
    BY <1>1, <1>2, <1>4, <1>7, <2>1, <2>2 DEF Orders, Records
  <2> QED
    BY <2>3, <2>4 DEF Orders
<1>8. CASE act[r].pc = "unbind" /\ vol' = vol
  <2> DEFINE p == act[r].path
  <2>1. /\ p \in Paths /\ act[r].op = "unpublish" /\ pub[p] = "gone"
        /\ \A q \in Rpcs : q # r => act[q].path # p
    BY <1>3, <1>8 DEF RpcRec, Orders, Asked, Records
  <2>2. disk' = disk \ {p} /\ pub' = pub /\ kst' = kst
    BY <1>3, <2>1 DEF Succeeds
  <2> HIDE DEF p
  <2>3. Asked'
    BY <1>1, <1>2, <2>1, <2>2 DEF Orders, Asked
  <2>4. Records'
    BY <1>1, <1>2, <1>8, <2>1, <2>2 DEF Orders, Records
  <2> QED
    BY <2>3, <2>4 DEF Orders
<1> QED
  BY <1>5, <1>6, <1>7, <1>8

\* A request past its mutex.
LEMMA RpcOrders ==
  ASSUME Base, Orders, NEW r \in Rpcs, RpcStep(r)
  PROVE  Orders'
<1>0. Turn(r)
  BY RpcStepTurn DEF RpcTurn
<1>1. CASE CleanFails(r) \/ MountFails(r) \/ QuotaFails(r) \/ PublishFails(r) \/ UnstageFails(r)
  <2>1. UNCHANGED kubelet
    BY <1>1 DEF CleanFails, MountFails, QuotaFails, PublishFails, UnstageFails, Fails
  <2>2. act'[r].pc = "idle" /\ vol' = vol
    BY <1>1, RpcReturns, IdleType
  <2> QED
    BY <1>0, <2>1, <2>2, SilentOrders
<1>2. CASE Unbind(r) \/ UnbindFails(r)
  <2>1. act'[r] = Idle /\ vol' = vol /\ act[r].pc = "unbind"
    BY <1>2, RpcReturns DEF Unbind, UnbindFails, At
  <2>2. CASE Succeeds(r)
    BY <1>0, <2>1, <2>2, AnswerOrders
  <2>3. CASE UNCHANGED kubelet
    BY <1>0, <2>1, <2>3, SilentOrders, IdleType
  <2> QED
    BY <1>2, <2>2, <2>3 DEF Unbind, UnbindFails
<1>3. CASE EnterTracked(r)
  <2>1. vol' = vol /\ vol # None /\ (act'[r] = Idle \/ act'[r].pc = "bind")
    BY <1>3, EnterTrackedTurn
  <2>2. CASE UNCHANGED kubelet
    BY <1>0, <2>1, <2>2, SilentOrders, IdleType
  <2>3. CASE act[r].op = "stage" /\ Return(r) /\ Succeeds(r)
    <3>1. act'[r] = Idle
      BY <2>3, ReturnView DEF Becomes, Base, Types, Actors
    <3> QED
      BY <1>0, <2>1, <2>3, <3>1, AnswerOrders
  <2> QED
    BY <1>3, <2>2, <2>3 DEF EnterTracked
<1>4. CASE EnterClean(r) \/ Clean(r) \/ Mount(r)
  <2>1. UNCHANGED kubelet
    BY <1>4 DEF EnterClean, Clean, Mount
  <2>2. act'[r].pc # "unbind" /\ vol' = vol
    BY <1>4, RpcGoes DEF Moved
  <2> QED
    BY <1>0, <2>1, <2>2, SilentOrders
<1>5. CASE EnterAdopt(r) \/ Quota(r)
  <2>1. vol' # None
    BY <1>5, RpcStores
  <2>2. CASE act'[r].pc = "bind" /\ UNCHANGED kubelet
    BY <1>0, <2>1, <2>2, SilentOrders
  <2>3. CASE act[r].op = "stage" /\ act'[r] = Idle /\ Succeeds(r)
    BY <1>0, <2>1, <2>3, AnswerOrders
  <2> QED
    BY <1>5, <2>2, <2>3, RpcStores
<1>6. CASE Publish(r)
  <2>1. /\ act'[r] = Idle /\ Succeeds(r) /\ act[r].op = "publish" /\ (vol' = None => vol = None)
    BY <1>6, PublishTurn
  <2> QED
    BY <1>0, <2>1, AnswerOrders
<1>7. CASE Unpublish(r)
  <2> DEFINE p == act[r].path
  <2>1. /\ p \in Paths /\ (vol' = None <=> vol = None) /\ act'[r].pc = "unbind"
        /\ pub' = [pub EXCEPT ![p] = "gone"] /\ kst' = kst /\ disk' = disk
    BY <1>7, UnpublishTurn DEF Unpublish
  <2>2. \A q \in Rpcs : /\ act'[q].op = act[q].op /\ act'[q].path = act[q].path
                        /\ act'[q].heard = act[q].heard
                        /\ q # r => act'[q].pc = act[q].pc
    <3>1. act'[r] # Idle
      BY <2>1, IdleType
    <3> QED
      BY <1>0, <3>1 DEF Turn, Waits, Fixed, Actors
  <2>3. pub \in [Paths -> {"no", "pub", "old", "gone", "oldgone"}] /\ act'[r].path = p /\ act[r].pc # "idle"
    BY <1>0, <2>2 DEF Base, Types, KubeletType, Turn, Within
  <2>4. \A q \in Rpcs : act[q].pc = "unbind" => act[q].path \in Paths
    BY DEF Base, Shape, RpcRec
  <2> HIDE DEF p
  <2>5. Asked'
    BY <2>1, <2>2, <2>3 DEF Orders, Asked
  <2>6. Records'
    BY <2>1, <2>2, <2>3, <2>4 DEF Orders, Records
  <2> QED
    BY <2>5, <2>6 DEF Orders
<1>8. CASE Unstage(r)
  BY <1>0, <1>8, UnstageTurn, AnswerOrders
<1> QED
  BY <1>1, <1>2, <1>3, <1>4, <1>5, <1>6, <1>7, <1>8 DEF RpcStep, RpcFault

\* The health monitor says nothing to kubelet and tracks what it found.
LEMMA HmSilent ==
  ASSUME Base, HmStep
  PROVE  UNCHANGED kubelet /\ (vol' = None => vol = None)
<1>1. act[Hm].pc = "quota" => act[Hm].op = "recover"
  BY DEF Base, Shape, HmRec
<1>2. UNCHANGED kubelet
  BY <1>1
  DEF HmStep, HmFault, Abort, Recover, RecoverUnmount, RecoverRecheck, Detach, Mount, Quota, TearDown,
      Retry, Rebind, RecoverUnmountFails, DetachFails, MountFails, QuotaFails, Fails, At
<1>3. ASSUME NEW D \in SUBSET Paths, Rebind(D) PROVE vol' = None => vol = None
  <2>1. act[Hm].op \in {"retry", "recover"}
    BY <1>3 DEF Rebind, At, Base, Shape, HmRec
  <2> QED
    BY <1>3, <2>1, HmReturns, HmStores
<1>4. CASE Recover \/ \E D \in SUBSET Paths : TearDown(D) \/ Retry(D)
  BY <1>2, <1>4, HmTakes
<1>5. CASE RecoverUnmount \/ RecoverRecheck \/ Detach \/ Mount(Hm) \/ Quota(Hm)
  BY <1>2, <1>5, HmGoes
<1>6. CASE Abort \/ RecoverUnmountFails \/ DetachFails \/ MountFails(Hm) \/ QuotaFails(Hm)
  BY <1>2, <1>6, HmReturns
<1> QED
  BY <1>2, <1>3, <1>4, <1>5, <1>6 DEF HmStep, HmFault

\* A step that changes no request.
LEMMA SameOrders ==
  ASSUME Orders, UNCHANGED <<kst, disk, pub>>, vol' = None => vol = None,
         \A r \in Rpcs : /\ act'[r].op = act[r].op /\ act'[r].path = act[r].path
                         /\ act'[r].heard = act[r].heard
                         /\ act[r].pc = "idle" => act'[r].pc = "idle"
                         /\ act'[r].pc = "unbind" => act[r].pc = "unbind"
  PROVE  Orders'
<1>1. Asked'
  BY DEF Orders, Asked
<1>2. Records'
  BY DEF Orders, Records
<1> QED
  BY <1>1, <1>2 DEF Orders

\* A request arrives.
LEMMA CallOrders ==
  ASSUME Base, Orders, NEW r \in Rpcs,
         \/ StageCall(r) \/ UnstageCall(r)
         \/ \E p \in Paths : PublishCall(r, p) \/ UnpublishCall(r, p)
  PROVE  Orders'
<1>0. Begins(r, act'[r]) /\ act'[r].heard
  BY CallBegins
<1>1. /\ \A q \in Rpcs : q # r => act'[q] = act[q]
      /\ act'[r].pc = "lock" /\ act'[r].heard /\ act[r].pc = "idle"
      /\ vol' = vol /\ pub' = pub /\ None \notin Paths
  BY <1>0, NodeAssumption
  DEF Begins, Becomes, At, Actors, StageCall, UnstageCall, PublishCall, UnpublishCall, kubelet
<1>2. CASE StageCall(r)
  <2>1. act'[r].op = "stage" /\ act'[r].path = None
    BY <1>2, CallBegins
  <2>2. disk' = disk /\ kst' = IF kst = "no" THEN "trying" ELSE kst
    BY <1>2 DEF StageCall
  <2> QED
    BY <1>1, <2>1, <2>2 DEF Orders, Asked, Records
<1>3. CASE UnstageCall(r)
  <2>1. act'[r].op = "unstage" /\ act'[r].path = None
    BY <1>3, CallBegins
  <2>2. disk' = disk /\ kst' = "trying" /\ disk = {}
    BY <1>3 DEF UnstageCall
  <2> QED
    BY <1>1, <2>1, <2>2 DEF Orders, Asked, Records
<1>4. ASSUME NEW p \in Paths, ~Pending({"publish", "unpublish"}, {p})
      PROVE  \A q \in Rpcs : act[q].path # p
  BY <1>4, NodeAssumption DEF Pending, Base, Shape, RpcRec, Orders, Asked
<1>5. ASSUME NEW p \in Paths, PublishCall(r, p) PROVE Orders'
  <2>1. act'[r].op = "publish" /\ act'[r].path = p
    BY <1>5, CallBegins
  <2>2. disk' = disk \cup {p} /\ kst' = kst /\ kst = "staged" /\ \A q \in Rpcs : act[q].path # p
    BY <1>4, <1>5 DEF PublishCall
  <2>3. \A q \in Rpcs : act[q].op # "unstage"
    BY <1>5 DEF PublishCall, Pending, Base, Shape, RpcRec, Orders, Asked
  <2>4. Asked'
    BY <1>1, <2>1, <2>2, <2>3 DEF Orders, Asked
  <2>5. Records'
    BY <1>1, <2>2 DEF Orders, Records
  <2> QED
    BY <2>4, <2>5 DEF Orders
<1>6. ASSUME NEW p \in Paths, UnpublishCall(r, p) PROVE Orders'
  <2>1. act'[r].op = "unpublish" /\ act'[r].path = p
    BY <1>6, CallBegins
  <2>2. disk' = disk /\ kst' = kst /\ p \in disk /\ \A q \in Rpcs : act[q].path # p
    BY <1>4, <1>6 DEF UnpublishCall, kubelet
  <2>3. Asked'
    BY <1>1, <2>1, <2>2 DEF Orders, Asked
  <2>4. Records'
    BY <1>1, <2>2 DEF Orders, Records
  <2> QED
    BY <2>3, <2>4 DEF Orders
<1> QED
  BY <1>2, <1>3, <1>5, <1>6

\* kubelet does not change its mind about having given up.
LEMMA AdriftStays ==
  ASSUME Base, Next, adrift
  PROVE  adrift'
<1>1. ASSUME NEW r \in Rpcs, RpcStep(r) PROVE adrift'
  <2>1. CASE EnterAdopt(r) \/ Quota(r)
    BY <2>1, RpcStores DEF Succeeds, kubelet
  <2>2. CASE ~EnterAdopt(r) /\ ~Quota(r)
    BY <1>1, <2>2
    DEF RpcStep, RpcFault, EnterTracked, EnterClean, Clean, Mount, Publish, Unpublish, Unbind, Unstage,
        CleanFails, MountFails, QuotaFails, PublishFails, UnbindFails, UnstageFails, Fails, Succeeds,
        kubelet
  <2> QED
    BY <2>1, <2>2
<1>2. CASE HmStep
  BY <1>2, HmSilent DEF kubelet
<1>3. CASE \/ \E r \in Rpcs : Call(r)
           \/ \E a \in Actors : Acquire(a)
           \/ HealthCheck \/ LateMount \/ ServiceReaps \/ ServiceRestart \/ PluginRestart
           \/ \E m \in Mounts : Weed(m)
  BY <1>3 DEF Call, StageCall, UnstageCall, PublishCall, UnpublishCall, GiveUp, Acquire, HealthCheck,
              LateMount, ServiceReaps, ServiceRestart, PluginRestart, Weed, kubelet
<1> QED
  BY <1>1, <1>2, <1>3 DEF Next

\* The third layer is kept.
LEMMA NextOrderly ==
  ASSUME Base, Orderly, Next
  PROVE  Orderly'
<1> SUFFICES ASSUME ~adrift' PROVE Orders'
  BY DEF Orderly
<1>0. Orders
  BY AdriftStays DEF Orderly
<1>1. ASSUME NEW r \in Rpcs, RpcStep(r) PROVE Orders'
  BY <1>0, <1>1, RpcOrders
<1>2. CASE HmStep
  <2>1. \A r \in Rpcs : /\ act'[r].op = act[r].op /\ act'[r].path = act[r].path
                        /\ act'[r].heard = act[r].heard /\ act'[r].pc = act[r].pc
    BY <1>2, HmStepTurn, NodeAssumption DEF HmTurn, Turn, Waits, Fixed, Actors
  <2> QED
    BY <1>0, <1>2, <2>1, HmSilent, SameOrders DEF kubelet
<1>3. ASSUME NEW a \in Actors, Acquire(a) PROVE Orders'
  <2>1. \A r \in Rpcs : /\ act'[r].op = act[r].op /\ act'[r].path = act[r].path
                        /\ act'[r].heard = act[r].heard
                        /\ act[r].pc = "idle" => act'[r].pc = "idle"
                        /\ act'[r].pc = "unbind" => act[r].pc = "unbind"
    BY <1>3, AcquireMoves DEF Moved, Becomes, Fixed, Acquire, At, Actors
  <2>2. UNCHANGED <<kst, disk, pub, vol>>
    BY <1>3 DEF Acquire, kubelet
  <2> QED
    BY <1>0, <2>1, <2>2, SameOrders
<1>4. CASE HealthCheck /\ Begins(Hm, act'[Hm])
  <2>1. \A r \in Rpcs : act'[r] = act[r]
    BY <1>4, NodeAssumption DEF Begins, Becomes, Actors
  <2>2. UNCHANGED <<kst, disk, pub, vol>>
    BY <1>4 DEF HealthCheck, kubelet
  <2> QED
    BY <1>0, <2>1, <2>2, SameOrders
<1>5. CASE Idles
  <2>1. \A r \in Rpcs : act'[r] = act[r]
    BY <1>5, IdlesView DEF Actors
  <2> QED
    BY <1>0, <1>5, <2>1, IdlesView, SameOrders
<1>6. CASE PluginRestart
  <2>1. \A r \in Rpcs : act'[r].pc = "idle" /\ act'[r].op = "none" /\ act'[r].path = None
    BY <1>6, RestartView, IdleType DEF Actors
  <2>2. /\ kst' = kst /\ disk' = disk
        /\ \A p \in Paths : pub'[p] \in {"pub", "old"} => pub[p] \in {"pub", "old"}
    BY <1>6 DEF PluginRestart
  <2>3. kst = "staged" => vol' # None
    BY <1>6, FoundType DEF PluginRestart
  <2> QED
    BY <1>0, <2>1, <2>2, <2>3, NodeAssumption DEF Orders, Asked, Records
<1> QED
  BY <1>0, <1>1, <1>2, <1>3, <1>4, <1>5, <1>6, Kinds, CallOrders

\* The first state.
LEMMA InitOrderly == Init => Orderly
  BY IdleType, NodeAssumption DEF Init, Orderly, Orders, Asked, Records, Actors

\* A stuttering step.
LEMMA StutterOrderly == Orderly /\ UNCHANGED vars => Orderly'
  BY DEF vars, Orderly, Orders, Asked, Records

-------------------------------------------------------------------------------
(* The fourth layer: what the mutex and kubelet's bookkeeping give         *)
(* together.                                                               *)

\* An unpublish past its first step still has the tracked Volume.
Unbinding == \A r \in Rpcs : act[r].pc = "unbind" => act[r].mine

\* kubelet has a record of the tracked paths, and of the bound ones, and the
\* paths it has published are tracked.
Tracked == vol # None => \A p \in Paths : vol.paths[p] # "no" => p \in disk
Bound == \A p \in Paths : bind[p].src # None => p \in disk
Published == \A p \in disk : pub[p] \in {"pub", "old"} => vol # None /\ vol.paths[p] # "no"

\* A publish path with a weed behind it shows the staging mount, and none has
\* one while a recovery is at these steps, except the one of a hung mount.
Removing ==
  \/ act[Hm].pc = "service" /\ ~act[Hm].hung
  \/ act[Hm].pc \in {"recheck", "detach", "mount", "quota", "teardown"}
Lively ==
  /\ \A p \in Paths : Alive(bind[p].src) => bind[p].src = staging
  /\ Removing => \A p \in Paths : ~Alive(bind[p].src)

Links == Unbinding /\ Tracked /\ Bound /\ Published
Sound == ~split /\ ~adrift => Links /\ Lively

\* Nothing is bound without a tracked volume, or without kubelet's records.
LEMMA NoBinds ==
  ASSUME Orders, Links, vol = None \/ disk = {}, NEW p \in Paths
  PROVE  bind[p].src = None
  BY DEF Orders, Records, Links, Bound

\* The steps of a request that leave the binds alone.
LEMMA RpcBinds ==
  ASSUME NEW r \in Rpcs, RpcStep(r), ~Publish(r), ~Unbind(r), ~UnbindFails(r)
  PROVE  UNCHANGED bind
  BY DEF RpcStep, RpcFault, EnterTracked, EnterAdopt, EnterClean, Clean, Mount, Quota, Unpublish,
         Unstage, CleanFails, MountFails, QuotaFails, PublishFails, UnstageFails, world

\* A turn of a request keeps what is tracked and bound in step.
LEMMA RpcLinks ==
  ASSUME Base, Guards, Orders, Links, NEW r \in Rpcs, RpcStep(r),
         \A b \in Actors : b # r => ~Within(b)'
  PROVE  Links'
<1> DEFINE p == act[r].path
<1>0. /\ bind \in [Paths -> Bind] /\ pub \in [Paths -> {"no", "pub", "old", "gone", "oldgone"}]
      /\ disk \subseteq Paths /\ (vol # None => vol.paths \in [Paths -> Modes])
      /\ RpcRec(act[r]) /\ act'[r] \in Act
      /\ act[r].pc # "idle" => act[r].heard
  <2>1. act'[r] \in Act
    BY RpcStepTurn DEF RpcTurn, Turn, Actors
  <2> QED
    BY <2>1 DEF Base, Types, WorldType, KubeletType, VolType, Volume, Shape, Orders, Asked
<1>1. \A q \in Rpcs : q # r => act'[q].pc # "unbind"
  BY DEF Within, Actors
<1>2. ASSUME act'[r].pc # "unbind", vol' = vol, UNCHANGED bind, UNCHANGED <<disk, pub>>
      PROVE  Links'
  BY <1>1, <1>2 DEF Links, Unbinding, Tracked, Bound, Published
<1>3. CASE CleanFails(r) \/ MountFails(r) \/ QuotaFails(r) \/ PublishFails(r) \/ UnstageFails(r)
  <2>1. UNCHANGED <<disk, pub>> /\ UNCHANGED bind
    BY <1>3 DEF CleanFails, MountFails, QuotaFails, PublishFails, UnstageFails, Fails, kubelet, world
  <2> QED
    BY <1>2, <1>3, <2>1, RpcReturns, IdleType
<1>4. CASE EnterTracked(r) \/ EnterClean(r) \/ Clean(r) \/ Mount(r)
  <2>1. UNCHANGED <<disk, pub>> /\ UNCHANGED bind
    BY <1>4 DEF EnterTracked, EnterClean, Clean, Mount, Succeeds, kubelet, world
  <2>2. vol' = vol /\ act'[r].pc # "unbind"
    BY <1>4, EnterTrackedTurn, RpcGoes, IdleType DEF Moved
  <2> QED
    BY <1>2, <2>1, <2>2
<1>5. CASE Unbind(r) \/ UnbindFails(r)
  <2>1. /\ p \in Paths /\ pub[p] = "gone" /\ act[r].op = "unpublish" /\ act[r].mine /\ act[r].heard
    BY <1>0, <1>5 DEF Unbind, UnbindFails, At, RpcRec, Orders, Records, Links, Unbinding
  <2>2. /\ act'[r].pc = "idle" /\ vol' = vol /\ pub' = pub
    BY <1>5, <2>1, RpcReturns, IdleType DEF Unbind, UnbindFails, Succeeds, kubelet
  <2>3. \/ bind' = [bind EXCEPT ![p] = NoBind] /\ disk' \in {disk, disk \ {p}}
        \/ bind' = bind /\ disk' = disk
    BY <1>5, <2>1 DEF Unbind, UnbindFails, Succeeds, kubelet
  <2>4. vol # None => vol.paths[p] = "no"
    BY <2>1 DEF Guards, Withdrawn
  <2> HIDE DEF p
  <2> QED
    BY <1>0, <1>1, <2>1, <2>2, <2>3, <2>4, NoBindType DEF Links, Unbinding, Tracked, Bound, Published
<1>6. CASE EnterAdopt(r) \/ Quota(r)
  <2>1. /\ vol' # None /\ vol'.paths = NoPaths /\ act'[r].pc # "unbind"
    BY <1>6, RpcStores, IdleType
  <2>2. vol = None /\ UNCHANGED bind
    BY <1>6 DEF EnterAdopt, Quota, At, Guards, RpcPhase, world
  <2>3. UNCHANGED <<disk, pub>>
    BY <1>6, RpcStores DEF Succeeds, kubelet
  <2> QED
    BY <1>1, <2>1, <2>2, <2>3 DEF Links, Unbinding, Tracked, Bound, Published, NoPaths
<1>7. CASE Publish(r)
  <2>1. /\ act'[r].pc = "idle" /\ p \in Paths /\ vol # None /\ vol' # None
        /\ vol'.paths = [vol.paths EXCEPT ![p] = Mode(p)]
        /\ pub' = [pub EXCEPT ![p] = "pub"] /\ disk' = disk
    BY <1>7, PublishTurn, IdleType DEF Publish, At, Guards, RpcPhase, Succeeds
  <2>2. p \in disk /\ Mode(p) # "no"
    BY <2>1 DEF Orders, Asked, Mode
  <2>3. \A q \in Paths : q # p => bind'[q] = bind[q]
    BY <1>0, <1>7 DEF Publish
  <2> HIDE DEF p
  <2> QED
    BY <1>0, <1>1, <2>1, <2>2, <2>3 DEF Links, Unbinding, Tracked, Bound, Published
<1>8. CASE Unpublish(r)
  <2>1. /\ p \in Paths /\ (vol = None <=> vol' = None) /\ (act'[r].mine <=> vol # None)
        /\ vol # None => vol'.paths = [vol.paths EXCEPT ![p] = "no"]
        /\ pub' = [pub EXCEPT ![p] = "gone"] /\ disk' = disk /\ UNCHANGED bind
    BY <1>8, UnpublishTurn DEF Unpublish, world
  <2>2. vol # None
    BY <2>1 DEF Orders, Asked, Records
  <2> HIDE DEF p
  <2> QED
    BY <1>0, <1>1, <2>1, <2>2 DEF Links, Unbinding, Tracked, Bound, Published
<1>9. CASE Unstage(r)
  <2>1. vol' = None /\ act'[r].pc = "idle" /\ disk' = disk /\ disk = {} /\ UNCHANGED bind
    BY <1>9, UnstageTurn, IdleType DEF Unstage, Succeeds, Orders, Asked
  <2> QED
    BY <1>1, <2>1 DEF Links, Unbinding, Tracked, Bound, Published
<1> QED
  BY <1>3, <1>4, <1>5, <1>6, <1>7, <1>8, <1>9 DEF RpcStep, RpcFault

\* A turn of a request keeps the weeds that serve publish paths at the
\* staging path.
LEMMA RpcLively ==
  ASSUME Base, Guards, Orders, Links, Lively, NEW r \in Rpcs, RpcStep(r), ~Within(Hm)'
  PROVE  Lively'
<1>0. ~Removing' /\ None \notin Mounts /\ bind \in [Paths -> Bind]
  BY NodeAssumption DEF Within, Removing, Base, Types, WorldType
<1>1. CASE UNCHANGED world
  BY <1>0, <1>1 DEF Lively, Alive, world
<1>2. CASE UNCHANGED bind /\ (vol = None \/ disk = {})
  BY <1>0, <1>2, NoBinds DEF Lively, Alive
<1>3. CASE Publish(r)
  <2> DEFINE p == act[r].path
  <2>1. Fresh(Mode(p)).src \in Mounts => Fresh(Mode(p)).src = staging
    BY FreshType DEF Mode, Modes, Base, Types
  <2>2. UNCHANGED <<staging, fuse>>
    BY <1>3 DEF Publish
  <2>3. \A q \in Paths : bind'[q] = bind[q] \/ bind'[q] = Fresh(Mode(p))
    BY <1>0, <1>3 DEF Publish
  <2> HIDE DEF p
  <2> QED
    BY <1>0, <2>1, <2>2, <2>3 DEF Lively, Alive
<1>4. CASE Unbind(r) \/ UnbindFails(r)
  <2>1. UNCHANGED <<staging, fuse>>
    BY <1>4 DEF Unbind, UnbindFails
  <2>2. \A q \in Paths : bind'[q] = bind[q] \/ bind'[q] = NoBind
    BY <1>0, <1>4 DEF Unbind, UnbindFails
  <2> QED
    BY <1>0, <2>1, <2>2, NoBindType DEF Lively, Alive
<1>5. CASE Clean(r) \/ CleanFails(r) \/ Mount(r) \/ MountFails(r) \/ QuotaFails(r)
  <2>1. vol = None /\ UNCHANGED bind
    BY <1>5 DEF Clean, CleanFails, Mount, MountFails, QuotaFails, At, Guards, RpcPhase
  <2> QED
    BY <1>2, <2>1
<1>6. CASE Unstage(r) \/ UnstageFails(r)
  <2>1. disk = {} /\ UNCHANGED bind
    BY <1>6 DEF Unstage, UnstageFails, Orders, Asked
  <2> QED
    BY <1>2, <2>1
<1>7. CASE EnterTracked(r) \/ EnterAdopt(r) \/ EnterClean(r) \/ Quota(r) \/ Unpublish(r) \/ PublishFails(r)
  BY <1>1, <1>7 DEF EnterTracked, EnterAdopt, EnterClean, Quota, Unpublish, PublishFails
<1> QED
  BY <1>3, <1>4, <1>5, <1>6, <1>7 DEF RpcStep, RpcFault

\* A turn of the health monitor changes neither kubelet's records nor the
\* tracked paths, and binds only those.
LEMMA HmLinks ==
  ASSUME Base, Guards, Links, HmStep, \A b \in Actors : b # Hm => ~Within(b)'
  PROVE  Links'
<1>0. /\ bind \in [Paths -> Bind] /\ (vol # None => vol.paths \in [Paths -> Modes])
      /\ UNCHANGED <<kst, disk, pub>>
  BY HmSilent DEF Base, Types, WorldType, VolType, Volume, kubelet
<1>1. Unbinding'
  BY NodeAssumption DEF Unbinding, Within, Actors
<1>2. ASSUME (vol # None /\ vol' # None /\ vol'.paths = vol.paths) \/ vol' = vol,
             \A p \in Paths : bind'[p].src # None =>
               bind[p].src # None \/ (vol # None /\ vol.paths[p] # "no")
      PROVE  Links'
  BY <1>0, <1>1, <1>2 DEF Links, Tracked, Bound, Published
<1>3. CASE \/ Abort \/ Recover \/ RecoverUnmount \/ RecoverRecheck \/ Detach \/ Mount(Hm) \/ Quota(Hm)
           \/ RecoverUnmountFails \/ DetachFails \/ MountFails(Hm) \/ QuotaFails(Hm)
  <2>1. UNCHANGED bind
    BY <1>3 DEF Abort, Recover, RecoverUnmount, RecoverRecheck, Detach, Mount, Quota,
                RecoverUnmountFails, DetachFails, MountFails, QuotaFails, world
  <2>2. vol' = vol
    BY <1>3, HmReturns, HmGoes, HmTakes
  <2> QED
    BY <1>2, <2>1, <2>2
<1>4. ASSUME NEW D \in SUBSET Paths, TearDown(D) \/ Retry(D) PROVE Links'
  <2>1. vol' = vol
    BY <1>4 DEF TearDown, Retry
  <2>2. \A p \in Paths : bind'[p] = bind[p] \/ bind'[p] = NoBind
    BY <1>4 DEF TearDown, Retry
  <2> QED
    BY <1>2, <2>1, <2>2, NoBindType
<1>5. ASSUME NEW D \in SUBSET Paths, Rebind(D) PROVE Links'
  <2>1. /\ act[Hm].op \in {"retry", "recover"} /\ vol # None /\ act[Hm].snap = vol.paths
        /\ D \subseteq PathsOf(vol.paths)
    BY <1>5 DEF Rebind, At, Base, Shape, HmRec, Guards, HmPhase
  <2>2. vol' # None /\ vol'.paths = vol.paths
    BY <1>5, <2>1, HmReturns, HmStores
  <2>3. \A p \in Paths : bind'[p] = bind[p] \/ p \in D
    BY <1>5 DEF Rebind
  <2> QED
    BY <1>2, <2>1, <2>2, <2>3 DEF PathsOf
<1> QED
  BY <1>3, <1>4, <1>5 DEF HmStep, HmFault

\* No weed serves a publish path when none serves the staging path.
LEMMA DeadBinds ==
  ASSUME Lively, ~Alive(staging)
  PROVE  \A p \in Paths : ~Alive(bind[p].src)
  BY DEF Lively, Alive

\* The service's answers bring no weed behind a publish path to life.
LEMMA ServiceBinds ==
  ASSUME Base, ServiceMount \/ ServiceUnmount \/ ServiceUnmountFails, UNCHANGED bind,
         NEW p \in Paths, Alive(bind[p].src)'
  PROVE  Alive(bind[p].src)
<1>1. CASE ServiceMount
  BY <1>1 DEF ServiceMount, ServiceStarts, Unused, Alive, Base, Types, WorldType
<1>2. CASE ServiceUnmount \/ ServiceUnmountFails
  BY <1>2 DEF ServiceUnmount, ServiceUnmountFails, Alive, Base, Types, WorldType
<1> QED
  BY <1>1, <1>2

\* A turn of the health monitor likewise keeps live weeds at the staging
\* path.
LEMMA HmLively ==
  ASSUME Base, OnlyReg', Guards, Lively, HmStep
  PROVE  Lively'
<1>0. /\ None \notin Mounts /\ bind \in [Paths -> Bind] /\ act[Hm].op \in {"none", "retry", "recover"}
      /\ WorldType /\ staging \in Mounts \cup {None, Bare}
  BY NodeAssumption DEF Base, Types, WorldType, Shape, HmRec
<1>1. CASE Abort \/ Recover \/ RecoverRecheck \/ Quota(Hm)
  <2>1. UNCHANGED world
    BY <1>1 DEF Abort, Recover, RecoverRecheck, Quota
  <2>2. CASE ~Recover
    <3>1. act'[Hm].pc = "idle" \/ Removing
      BY <1>1, <2>2, HmReturns, IdleType DEF Quota, RecoverRecheck, At, Removing
    <3> QED
      BY <2>1, <3>1 DEF Lively, Removing, Alive, world
  <2>3. CASE Recover
    <3>1. act'[Hm].pc = "service" /\ act'[Hm].hung = act[Hm].hung
      BY <2>3, HmTakes
    <3>2. ~act[Hm].hung => ~Alive(staging)
      BY <1>0, <2>3, DeadHealth DEF Recover, Confirmed
    <3>3. ~act[Hm].hung => \A p \in Paths : ~Alive(bind[p].src)
      BY <3>2, DeadBinds
    <3> QED
      BY <2>1, <3>1, <3>3 DEF Lively, Removing, Alive, world
  <2> QED
    BY <2>2, <2>3
<1>2. CASE RecoverUnmount
  <2>1. act'[Hm].pc = "recheck" /\ act[Hm].pc = "service" /\ UNCHANGED bind
    BY <1>2, GotoView DEF RecoverUnmount, Moved, At, Base, Types, PCs, Actors
  <2>2. CASE HasUnmounter
    <3>1. reg' = None
      BY <1>2, <2>2 DEF RecoverUnmount, ServiceUnmount
    <3> QED
      BY <1>0, <2>1, <3>1 DEF OnlyReg, Lively, Alive
  <2>3. CASE ~HasUnmounter
    BY <1>2, <2>1, <2>3 DEF RecoverUnmount, HasUnmounter, Lively, Removing, Alive
  <2> QED
    BY <2>2, <2>3
<1>3. CASE RecoverUnmountFails
  <2>1. act'[Hm].pc = "idle" /\ UNCHANGED bind /\ staging' = staging /\ ServiceUnmountFails
    BY <1>3, HmReturns, IdleType DEF RecoverUnmountFails, ServiceUnmountFails
  <2>2. \A p \in Paths : Alive(bind[p].src)' => Alive(bind[p].src)
    BY <2>1, ServiceBinds
  <2> QED
    BY <2>1, <2>2 DEF Lively, Removing
<1>4. CASE Detach \/ DetachFails \/ Mount(Hm) \/ MountFails(Hm) \/ QuotaFails(Hm)
  <2>1. \A p \in Paths : ~Alive(bind[p].src)
    BY <1>4 DEF Detach, DetachFails, Mount, MountFails, QuotaFails, At, Lively, Removing
  <2>2. /\ UNCHANGED bind
        /\ UNCHANGED fuse \/ ServiceMount \/ ServiceUnmount \/ ServiceUnmountFails
    BY <1>4 DEF Detach, DetachFails, Mount, MountFails, QuotaFails
  <2>3. \A p \in Paths : ~Alive(bind[p].src)'
    BY <2>1, <2>2, ServiceBinds DEF Alive
  <2> QED
    BY <2>3 DEF Lively
<1>5. ASSUME NEW D \in SUBSET Paths, TearDown(D) \/ Retry(D) PROVE Lively'
  <2>1. act'[Hm].pc = "rebind" /\ UNCHANGED <<staging, fuse>>
    BY <1>5, HmTakes DEF TearDown, Retry
  <2>2. \A p \in Paths : bind'[p] = bind[p] \/ bind'[p] = NoBind
    BY <1>5 DEF TearDown, Retry
  <2> QED
    BY <1>0, <2>1, <2>2, NoBindType DEF Lively, Removing, Alive
<1>6. ASSUME NEW D \in SUBSET Paths, Rebind(D) PROVE Lively'
  <2>1. act'[Hm].pc = "idle" /\ UNCHANGED <<staging, fuse>>
    <3>1. act[Hm].op \in {"retry", "recover"}
      BY <1>6 DEF Rebind, At, Base, Shape, HmRec
    <3> QED
      BY <1>6, <3>1, HmReturns, HmStores, IdleType DEF Rebind
  <2>2. \A p \in Paths : act[Hm].snap[p] \in Modes
    BY DEF Base, Types, ActType, Actors, Act
  <2>3. \A p \in Paths : \/ bind'[p] = bind[p]
                         \/ bind'[p].src \in Mounts => bind'[p].src = staging
    BY <1>6, <2>2, FreshType DEF Rebind, Base, Types
  <2> QED
    BY <1>0, <2>1, <2>3 DEF Lively, Removing, Alive
<1> QED
  BY <1>1, <1>2, <1>3, <1>4, <1>5, <1>6 DEF HmStep, HmFault

\* What the service does by itself at the staging path: it unmounts only when
\* no weed runs, and a new weed serves no publish path.
LEMMA IdlesStaging ==
  ASSUME Base, Idles, NEW p \in Paths, Alive(bind[p].src)'
  PROVE  staging' = staging /\ Alive(bind[p].src)
<1>1. CASE \E r \in Rpcs : GiveUp(r)
  BY <1>1 DEF GiveUp, world, Alive
<1>2. CASE (\E m \in Mounts : Weed(m)) \/ ServiceReaps \/ ServiceRestart
  BY <1>2 DEF Weed, WeedHangs, WeedAnswers, WeedDies, ServiceReaps, ServiceRestart, Alive, Base, OnlyReg,
              Types, WorldType
<1>3. CASE LateMount
  <2>1. CASE ServiceStarts
    BY <1>3, <2>1 DEF LateMount, ServiceStarts, Unused, Alive, Base, OnlyReg, Types, WorldType
  <2>2. CASE UNCHANGED <<staging, fuse, reg>>
    BY <1>3, <2>2 DEF LateMount, Alive
  <2> QED
    BY <1>3, <2>1, <2>2 DEF LateMount
<1> QED
  BY <1>1, <1>2, <1>3 DEF Idles

\* The fourth layer is kept.
LEMMA NextSound ==
  ASSUME Base, Base', Excl, Guarded, Orderly, Sound, Next
  PROVE  Sound'
<1> SUFFICES ASSUME ~split', ~adrift' PROVE Links' /\ Lively'
  BY DEF Sound
<1>0. ~adrift
  BY AdriftStays
<1>1. Orders
  BY <1>0 DEF Orderly
<1>2. ASSUME NEW r \in Rpcs, RpcStep(r) PROVE Links' /\ Lively'
  <2>1. ~split /\ \A b \in Actors : b # r => ~Within(b)'
    BY <1>2, RpcStepTurn, TurnExcl DEF RpcTurn, Actors
  <2>2. Guards /\ Links /\ Lively /\ ~Within(Hm)'
    BY <1>0, <2>1, NodeAssumption DEF Guarded, Sound, Actors
  <2> QED
    BY <1>1, <1>2, <2>1, <2>2, RpcLinks, RpcLively
<1>3. CASE HmStep
  <2>1. ~split /\ \A b \in Actors : b # Hm => ~Within(b)'
    BY <1>3, HmStepTurn, TurnExcl DEF HmTurn, Actors
  <2>2. Guards /\ Links /\ Lively
    BY <1>0, <2>1 DEF Guarded, Sound
  <2> QED
    BY <1>3, <2>1, <2>2, HmLinks, HmLively DEF Base
<1>4. ASSUME KeepMutex, UNCHANGED <<staging, bind, fuse, vol, pub>>, disk \subseteq disk',
             \A p \in Paths : p \in disk' \ disk => pub[p] \notin {"pub", "old"},
             NEW a \in Actors, Becomes(a, act'[a]), act'[a].pc \in {"lock", "enter"}
      PROVE  Links' /\ Lively'
  <2>1. Links /\ Lively
    BY <1>0, <1>4 DEF KeepMutex, Sound
  <2>2. disk' \subseteq Paths
    BY DEF Base, Types, KubeletType
  <2>3. \A b \in Actors : b # a => act'[b] = act[b]
    BY <1>4 DEF Becomes
  <2>4. Lively'
    BY <1>4, <2>1, <2>3 DEF Lively, Removing, Alive, Actors
  <2>5. Links'
    BY <1>4, <2>1, <2>2, <2>3 DEF Links, Unbinding, Tracked, Bound, Published, Actors
  <2> QED
    BY <2>4, <2>5
<1>5. ASSUME NEW r \in Rpcs, r \in Actors, Begins(r, act'[r]),
             StageCall(r) \/ UnstageCall(r) \/ \E p \in Paths : PublishCall(r, p) \/ UnpublishCall(r, p)
      PROVE  Links' /\ Lively'
  <2>1. UNCHANGED <<staging, bind, fuse, vol, pub>> /\ disk \subseteq disk'
    BY <1>5 DEF StageCall, UnstageCall, PublishCall, UnpublishCall, kubelet, world
  <2>2. \A p \in Paths : p \in disk' \ disk => pub[p] \notin {"pub", "old"}
    BY <1>1 DEF Orders, Records
  <2> QED
    BY <1>4, <1>5, <2>1, <2>2 DEF Begins
<1>6. CASE HealthCheck /\ Begins(Hm, act'[Hm])
  BY <1>4, <1>6 DEF HealthCheck, Begins, kubelet, Actors
<1>7. ASSUME NEW a \in Actors, Acquire(a) PROVE Links' /\ Lively'
  <2>1. UNCHANGED <<staging, bind, fuse, vol, pub, disk>> /\ KeepMutex
    BY <1>7 DEF Acquire, kubelet, world
  <2> QED
    BY <1>4, <1>7, <2>1, AcquireMoves DEF Moved
<1>8. CASE Idles
  <2>1. /\ UNCHANGED <<vol, bind, disk, pub>> /\ Links /\ Lively
        /\ \A a \in Actors : act'[a] = act[a]
    BY <1>0, <1>8, IdlesView DEF KeepMutex, Sound
  <2>2. Links'
    BY <2>1 DEF Links, Unbinding, Tracked, Bound, Published, Actors
  <2>3. \A p \in Paths : Alive(bind[p].src)' => Alive(bind[p].src) /\ staging' = staging
    BY <1>8, IdlesStaging
  <2>4. Lively'
    BY <2>1, <2>3 DEF Lively, Removing, Actors
  <2> QED
    BY <2>2, <2>4
<1>9. CASE PluginRestart
  <2>1. Links /\ Lively
    BY <1>0, <1>9 DEF PluginRestart, Sound
  <2>2. \A a \in Actors : act'[a].pc = "idle"
    BY <1>9, RestartView, IdleType
  <2>3. Lively'
    BY <1>9, <2>1, <2>2 DEF PluginRestart, Lively, Removing, Alive, Actors
  <2>4. Unbinding' /\ Bound'
    BY <1>9, <2>1, <2>2 DEF PluginRestart, Links, Unbinding, Bound, Actors
  <2>5. vol' = (IF kst = "no" THEN None ELSE Found(disk)) /\ disk' = disk /\ disk \subseteq Paths
    BY <1>9 DEF PluginRestart, Base, Types, KubeletType
  <2>6. /\ Found(disk) # None
        /\ \A p \in Paths : Found(disk).paths[p] = IF p \in disk THEN "rw" ELSE "no"
    <3>1. /\ Found(disk) # None
          /\ Found(disk).paths = [p \in Paths |-> IF p \in disk THEN "rw" ELSE "no"]
      BY FoundType
    <3> HIDE DEF Found
    <3> QED
      BY <3>1
  <2>7. Tracked' /\ Published'
    BY <1>1, <2>5, <2>6 DEF Tracked, Published, Orders, Records
  <2> QED
    BY <2>3, <2>4, <2>7 DEF Links
<1> QED
  BY <1>2, <1>3, <1>5, <1>6, <1>7, <1>8, <1>9, Kinds

-------------------------------------------------------------------------------
(* Theorems of all layers.                                                 *)

\* The inductive invariant of the node plugin.
IInv == Base /\ Excl /\ Guarded /\ Orderly /\ Sound

\* The first state.
LEMMA InitSound == Init => Sound
<1> SUFFICES ASSUME Init PROVE Sound
  OBVIOUS
<1>1. \A a \in Actors : act[a].pc = "idle"
  BY IdleType DEF Init
<1>2. \A p \in Paths : bind[p].src = None
  BY NoBindType DEF Init
<1> QED
  BY <1>1, <1>2, NodeAssumption
  DEF Init, Sound, Links, Unbinding, Tracked, Bound, Published, Lively, Removing, Alive, Actors

\* A stuttering step.
LEMMA StutterSound == Sound /\ UNCHANGED vars => Sound'
  BY DEF vars, Sound, Links, Unbinding, Tracked, Bound, Published, Lively, Removing, Alive

\* Mutual exclusion, what the handlers and the recovery know of the volume,
\* kubelet's bookkeeping, and how tracked, published, bound and live mounts
\* go together: every layer holds, for any number of requests and paths.
THEOREM NodeInvariance == Spec => []IInv
<1>1. Init => IInv
  BY InitBase, InitExcl, InitGuarded, InitOrderly, InitSound DEF IInv
<1>2. IInv /\ [Next]_vars => IInv'
  <2> SUFFICES ASSUME IInv, [Next]_vars PROVE IInv'
    OBVIOUS
  <2>1. CASE Next
    BY <2>1, NextBase, NextExcl, NextGuarded, NextOrderly, NextSound DEF IInv
  <2>2. CASE UNCHANGED vars
    <3>1. Excl'
      BY <2>2 DEF IInv, vars, Excl, Locked, One, Within
    <3> QED
      BY <2>2, <3>1, NextBase, StutterGuarded, StutterOrderly, StutterSound DEF IInv
  <2> QED
    BY <2>1, <2>2
<1> QED
  BY <1>1, <1>2, PTL DEF Spec

\* A volume kubelet holds staged is tracked, whatever failed, was recovered
\* or restarted before.
THEOREM StagedIsTrackedCorrect == Spec => []StagedIsTracked
<1>1. IInv => StagedIsTracked
  BY DEF IInv, Orderly, Orders, Records, StagedIsTracked
<1> QED
  BY <1>1, NodeInvariance, PTL

\* A published path that kubelet has not withdrawn stays tracked, through
\* recoveries that rebuild the Volume, failed re-binds and restarts.
THEOREM PublishedStaysTrackedCorrect == Spec => []PublishedStaysTracked
<1>1. IInv => PublishedStaysTracked
  BY DEF IInv, Sound, Links, Published, PublishedStaysTracked
<1> QED
  BY <1>1, NodeInvariance, PTL

\* kubelet has a record of every path that is bound, also of one that a
\* restarted plugin tracks although it was withdrawn.
THEOREM BoundIsRecordedCorrect == Spec => []BoundIsRecorded
<1>1. IInv => BoundIsRecorded
  BY DEF IInv, Sound, Links, Bound, BoundIsRecorded
<1> QED
  BY <1>1, NodeInvariance, PTL

\* A turn of a request leaves the health monitor's locals alone.
LEMMA RpcSparesHm ==
  ASSUME Base, NEW r \in Rpcs, RpcStep(r)
  PROVE  act'[Hm] = act[Hm]
<1>1. /\ act[Hm] \in Act /\ act'[Hm] \in Act /\ Waits(Hm) /\ ~act[Hm].mine /\ ~act'[Hm].mine
  <2>1. Turn(r) /\ Hm \in Actors /\ Hm # r
    BY RpcStepTurn, NodeAssumption DEF RpcTurn, Actors
  <2> QED
    BY <2>1 DEF Turn, Waits, Base, Types, ActType, Shape, HmRec
<1>2. act[Hm].mine = FALSE /\ act'[Hm].mine = FALSE
  BY <1>1 DEF Act
<1> QED
  BY <1>1, <1>2 DEF Waits, Fixed, Act

\* What the health monitor's turns do to live mounts.
LEMMA HmSparesLive ==
  ASSUME Base, Guards, Lively, HmStep,
         ~At(Hm, "quota"), ~(At(Hm, "service") /\ act[Hm].hung)
  PROVE  /\ owed = "no" => Untouched(staging, staging')
         /\ \A p \in Paths : Untouched(bind[p].src, bind'[p].src)
<1>0. None \notin Mounts /\ bind \in [Paths -> Bind] /\ WorldType
  BY NodeAssumption DEF Base, Types, WorldType
<1>1. CASE Abort \/ Recover \/ RecoverRecheck
  BY <1>1 DEF Abort, Recover, RecoverRecheck, world, Untouched, Alive
<1>2. CASE RecoverUnmount \/ RecoverUnmountFails \/ Detach \/ DetachFails
  <2>1. (owed = "no" => ~Alive(staging)) /\ \A p \in Paths : ~Alive(bind[p].src)
    BY <1>2 DEF RecoverUnmount, RecoverUnmountFails, Detach, DetachFails, At, Guards, HmDead, Lively,
                Removing
  <2> QED
    BY <2>1 DEF Untouched
<1>3. CASE Mount(Hm) \/ MountFails(Hm)
  <2>1. (owed = "no" => staging = None) /\ \A p \in Paths : ~Alive(bind[p].src)
    BY <1>3 DEF Mount, MountFails, At, Guards, HmDead, Lively, Removing
  <2> QED
    BY <1>0, <2>1 DEF Untouched, Alive
<1>4. CASE Quota(Hm) \/ QuotaFails(Hm)
  BY <1>4 DEF Quota, QuotaFails
<1>5. ASSUME NEW D \in SUBSET Paths, TearDown(D) \/ Retry(D) \/ Rebind(D)
      PROVE  /\ Untouched(staging, staging')
             /\ \A p \in Paths : Untouched(bind[p].src, bind'[p].src)
  <2>1. UNCHANGED <<staging, fuse>>
    BY <1>5 DEF TearDown, Retry, Rebind
  <2>2. ASSUME NEW p \in Paths, Alive(bind[p].src) PROVE bind'[p] = bind[p]
    <3>1. bind[p].src \in Mounts \cup {None, Bare} /\ bind[p].src # None
      BY <1>0, <2>2 DEF Alive, Bind
    <3>2. "dead" \notin Health(bind[p].src)
      BY <1>0, <2>2, <3>1, DeadHealth
    <3>3. CASE TearDown(D)
      BY <2>2, <3>3 DEF TearDown, At, Lively, Removing
    <3>4. CASE Retry(D)
      BY <3>2, <3>4 DEF Retry, DeadPaths
    <3>5. CASE Rebind(D)
      BY <3>1, <3>5 DEF Rebind, Kept
    <3> QED
      BY <1>5, <3>3, <3>4, <3>5
  <2> QED
    BY <2>1, <2>2 DEF Untouched, Alive
<1> QED
  BY <1>1, <1>2, <1>3, <1>4, <1>5 DEF HmStep, HmFault

\* A recovery or retry takes no mount away and stops no weed that serves the
\* staging path or a publish path.
THEOREM RecoverySparesLiveCorrect == Spec => RecoverySparesLive
<1>1. IInv /\ [Next]_vars => [~split /\ ~adrift => SparesLiveStep]_vars
  <2> SUFFICES ASSUME Base, Guards, Lively, Next, act'[Hm] # act[Hm],
                      ~At(Hm, "quota"), ~(At(Hm, "service") /\ act[Hm].hung)
               PROVE  /\ owed = "no" => Untouched(staging, staging')
                      /\ \A p \in Paths : Untouched(bind[p].src, bind'[p].src)
    BY DEF IInv, Guarded, Sound, SparesLiveStep
  <2>1. ASSUME UNCHANGED <<staging, bind, fuse>>
        PROVE  /\ Untouched(staging, staging')
               /\ \A p \in Paths : Untouched(bind[p].src, bind'[p].src)
    BY <2>1 DEF Untouched, Alive
  <2>2. CASE \/ \E r \in Rpcs : StageCall(r) \/ UnstageCall(r)
                                \/ \E p \in Paths : PublishCall(r, p) \/ UnpublishCall(r, p)
             \/ HealthCheck \/ PluginRestart
             \/ \E a \in Actors : Acquire(a)
    BY <2>1, <2>2
    DEF StageCall, UnstageCall, PublishCall, UnpublishCall, HealthCheck, PluginRestart, Acquire, world
  <2> QED
    BY <2>2, Kinds, RpcSparesHm, IdlesView, HmSparesLive
<1> QED
  BY <1>1, NodeInvariance, PTL DEF Spec, RecoverySparesLive
===============================================================================
