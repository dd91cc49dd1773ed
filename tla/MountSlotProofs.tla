---------------------------- MODULE MountSlotProofs ----------------------------
(***************************************************************************)
(* Proof that the mount service implements the slots of MountSlot, for any *)
(* volumes, paths, requests, processes and versions.  A slot is read off   *)
(* the entry of its volume and the claim of the one request that may be    *)
(* starting a process for it (SlotOf); every step of the service then      *)
(* claims, fills, gives up or vacates one slot, finishes a process, resets *)
(* everything or leaves the slots as they are.                             *)
(***************************************************************************)
EXTENDS MountManagerProofs

\* The abstract state.
Claims(c, v) == Starting(call[c]) /\ call[c].vol = v
Claimed(v) == \E c \in Callers : Claims(c, v)
SlotOf == [v \in Volumes |->
             IF entries[v] # None THEN entries[v]
             ELSE IF Claimed(v) THEN call[CHOOSE c \in Callers : Claims(c, v)].proc
                  ELSE None]
Filled == {v \in Volumes : entries[v] # None}
Finished == {p \in Procs : Done(p)}
abstract == <<SlotOf, Filled, Finished>>

-------------------------------------------------------------------------------
(* The abstract specification, in terms of the abstract state.             *)

\* SlotOf, Filled and Finished are what MountManager substitutes.
LEMMA MappedState ==
  Slots!Init <=> SlotOf = [v \in Volumes |-> None] /\ Filled = {} /\ Finished = {}
  BY DEF Slots!Init, SlotOf, Filled, Finished, Claimed, Claims

\* What a step must do to the abstract state to be one of MountSlot.
LEMMA MappedSteps ==
  /\ \A v \in Volumes, p \in Procs :
       /\ SlotOf[v] = None /\ \A w \in Volumes : SlotOf[w] # p
       /\ SlotOf' = [SlotOf EXCEPT ![v] = p] /\ Finished' = Finished \ {p}
       /\ UNCHANGED Filled
       => Slots!Next
  /\ \A v \in Volumes :
       /\ SlotOf[v] # None
       /\ Filled' = Filled \cup {v} /\ UNCHANGED <<SlotOf, Finished>>
       => Slots!Next
  /\ \A v \in Volumes :
       /\ SlotOf[v] # None /\ v \notin Filled
       /\ SlotOf' = [SlotOf EXCEPT ![v] = None] /\ UNCHANGED <<Filled, Finished>>
       => Slots!Next
  /\ \A v \in Volumes :
       /\ v \in Filled /\ SlotOf[v] \in Finished
       /\ SlotOf' = [SlotOf EXCEPT ![v] = None] /\ Filled' = Filled \ {v}
       /\ UNCHANGED Finished
       => Slots!Next
  /\ \A p \in Procs :
       Finished' = Finished \cup {p} /\ UNCHANGED <<SlotOf, Filled>> => Slots!Next
  /\ /\ SlotOf' = [v \in Volumes |-> None] /\ Filled' = {} /\ Finished' = Procs
     => Slots!Next
<1>1. ASSUME NEW v \in Volumes, NEW p \in Procs,
             SlotOf[v] = None /\ \A w \in Volumes : SlotOf[w] # p,
             SlotOf' = [SlotOf EXCEPT ![v] = p], Finished' = Finished \ {p},
             UNCHANGED Filled
      PROVE  Slots!Claim(v, p)
  BY <1>1 DEF Slots!Claim, SlotOf, Filled, Finished, Claimed, Claims
<1>2. ASSUME NEW v \in Volumes, SlotOf[v] # None, Filled' = Filled \cup {v},
             UNCHANGED <<SlotOf, Finished>>
      PROVE  Slots!Fill(v)
  BY <1>2 DEF Slots!Fill, SlotOf, Filled, Finished, Claimed, Claims
<1>3. ASSUME NEW v \in Volumes, SlotOf[v] # None, v \notin Filled,
             SlotOf' = [SlotOf EXCEPT ![v] = None], UNCHANGED <<Filled, Finished>>
      PROVE  Slots!GiveUp(v)
  BY <1>3 DEF Slots!GiveUp, SlotOf, Filled, Finished, Claimed, Claims
<1>4. ASSUME NEW v \in Volumes, v \in Filled, SlotOf[v] \in Finished,
             SlotOf' = [SlotOf EXCEPT ![v] = None], Filled' = Filled \ {v},
             UNCHANGED Finished
      PROVE  Slots!Vacate(v)
  BY <1>4 DEF Slots!Vacate, SlotOf, Filled, Finished, Claimed, Claims
<1>5. ASSUME NEW p \in Procs, Finished' = Finished \cup {p}, UNCHANGED <<SlotOf, Filled>>
      PROVE  Slots!Finish(p)
  BY <1>5 DEF Slots!Finish, SlotOf, Filled, Finished, Claimed, Claims
<1>6. ASSUME SlotOf' = [v \in Volumes |-> None], Filled' = {}, Finished' = Procs
      PROVE  Slots!Reset
  BY <1>6 DEF Slots!Reset, SlotOf, Filled, Finished, Claimed, Claims
<1> QED
  BY <1>1, <1>2, <1>3, <1>4, <1>5, <1>6 DEF Slots!Next

-------------------------------------------------------------------------------
(* Slots and steps.                                                        *)

\* The slot of a volume, without CHOOSE.
SlotValues ==
  \A v \in Volumes :
    /\ entries[v] # None => SlotOf[v] = entries[v]
    /\ \A c \in Callers : Claims(c, v) => entries[v] = None /\ SlotOf[v] = call[c].proc
    /\ entries[v] = None /\ ~Claimed(v) => SlotOf[v] = None

\* At most one request claims a slot, and only an unregistered one.
LEMMA SlotValue == IInv => SlotValues
<1> SUFFICES ASSUME IInv, NEW v \in Volumes
             PROVE  /\ entries[v] # None => SlotOf[v] = entries[v]
                    /\ \A c \in Callers :
                         Claims(c, v) => entries[v] = None /\ SlotOf[v] = call[c].proc
                    /\ entries[v] = None /\ ~Claimed(v) => SlotOf[v] = None
  BY DEF SlotValues
<1>1. ASSUME NEW c \in Callers, Claims(c, v)
      PROVE  entries[v] = None /\ SlotOf[v] = call[c].proc
  <2>1. entries[v] = None
    BY <1>1 DEF Claims, IInv, CallsInv, CallInv
  <2>2. \A d \in Callers : Claims(d, v) => d = c
    BY <1>1 DEF Claims, Starting, Holds, IInv, Serialised
  <2>3. (CHOOSE d \in Callers : Claims(d, v)) = c
    BY <1>1, <2>2
  <2> QED
    BY <1>1, <2>1, <2>3 DEF SlotOf, Claimed
<1> QED
  BY <1>1 DEF SlotOf

\* A step that leaves every entry and every claim but those of v as they are
\* changes the slot of v at most.
LEMMA OneSlot ==
  ASSUME IInv, IInv', NEW v \in Volumes,
         \A w \in Volumes : w # v =>
           /\ entries'[w] = entries[w]
           /\ \A d \in Callers : /\ Claims(d, w)' <=> Claims(d, w)
                                 /\ Claims(d, w) => call'[d].proc = call[d].proc
  PROVE  SlotOf' = [SlotOf EXCEPT ![v] = SlotOf'[v]]
<1>1. SlotValues /\ SlotValues'
  BY SlotValue, PTL
<1>2. ASSUME NEW w \in Volumes, w # v PROVE SlotOf'[w] = SlotOf[w]
  BY <1>1, <1>2 DEF SlotValues, Claimed
<1>3. SlotOf = [w \in Volumes |-> SlotOf[w]] /\ SlotOf' = [w \in Volumes |-> SlotOf'[w]]
  BY DEF SlotOf
<1> QED
  BY <1>2, <1>3

\* A step that leaves every entry and claim as they are.
LEMMA SameSlots ==
  ASSUME IInv, IInv', UNCHANGED entries,
         \A d \in Callers : /\ Starting(call'[d]) <=> Starting(call[d])
                            /\ Starting(call[d]) => /\ call'[d].proc = call[d].proc
                                                    /\ call'[d].vol = call[d].vol
  PROVE  UNCHANGED <<SlotOf, Filled>>
<1>1. SlotValues /\ SlotValues'
  BY SlotValue, PTL
<1>2. ASSUME NEW w \in Volumes PROVE SlotOf'[w] = SlotOf[w]
  BY <1>1 DEF SlotValues, Claimed, Claims
<1>3. SlotOf = [w \in Volumes |-> SlotOf[w]] /\ SlotOf' = [w \in Volumes |-> SlotOf'[w]]
  BY DEF SlotOf
<1> QED
  BY <1>2, <1>3 DEF Filled

\* The entry of v is dropped, once its process is done.
LEMMA Dropped ==
  ASSUME IInv, IInv', NEW v \in Volumes, UNCHANGED proc,
         entries' = [entries EXCEPT ![v] = None],
         entries[v] # None => Done(entries[v]),
         \A d \in Callers : /\ Starting(call'[d]) <=> Starting(call[d])
                            /\ Starting(call[d]) => call'[d] = call[d]
  PROVE  [Slots!Next]_abstract
<1>1. /\ entries'[v] = None /\ \A w \in Volumes : w # v => entries'[w] = entries[w]
      /\ UNCHANGED Finished
  BY DEF IInv, OtherTypes, Finished, Done
<1>2. SlotValues /\ SlotValues'
  BY SlotValue, PTL
<1>3. CASE entries[v] = None
  <2>1. UNCHANGED entries
    BY <1>3 DEF IInv, OtherTypes
  <2> QED
    BY <1>1, <2>1, SameSlots DEF abstract
<1>4. CASE entries[v] # None
  <2>1. SlotOf[v] = entries[v] /\ v \in Filled
    BY <1>2, <1>4 DEF SlotValues, Filled
  <2>2. \A d \in Callers : ~Claims(d, v)
    BY <1>2, <1>4 DEF SlotValues
  <2>3. SlotOf'[v] = None
    BY <1>1, <1>2, <2>2 DEF SlotValues, Claimed, Claims
  <2>4. SlotOf' = [SlotOf EXCEPT ![v] = None]
    BY <1>1, <2>3, OneSlot DEF Claims
  <2>5. Filled' = Filled \ {v}
    BY <1>1 DEF Filled
  <2>6. entries[v] \in Finished
    BY <1>4 DEF Finished, IInv, OtherTypes
  <2> QED
    BY <1>1, <2>1, <2>4, <2>5, <2>6, MappedSteps
<1> QED
  BY <1>3, <1>4

\* A process is started: the request that starts it claims the empty slot.
LEMMA StartClaims ==
  ASSUME IInv, IInv', NEW c \in Callers, NEW p \in Procs, StartProcess(c, p)
  PROVE  Slots!Next
<1> DEFINE v == call[c].vol
<1>1. /\ call[c] \in Call /\ call[c].pc = "start" /\ call[c].op = "mount" /\ v \in Volumes
      /\ entries[v] = None /\ UNCHANGED entries
  BY DEF StartProcess, IInv, CallsInv, CallInv
<1>2. /\ Starting(call'[c]) /\ call'[c].vol = v /\ call'[c].proc = p
      /\ \A d \in Callers : d # c => call'[d] = call[d]
  BY <1>1 DEF StartProcess, IInv, CallsInv, Call, Starting
<1>3. \A d \in Callers : ~Claims(d, v)
  BY <1>1 DEF Claims, Starting, IInv, Serialised, Holds
<1>4. SlotValues /\ SlotValues'
  BY SlotValue, PTL
<1>5. SlotOf[v] = None /\ SlotOf'[v] = p
  BY <1>1, <1>2, <1>3, <1>4 DEF SlotValues, Claimed, Claims
<1>6. \A w \in Volumes : SlotOf[w] # p
  <2> SUFFICES ASSUME NEW w \in Volumes PROVE SlotOf[w] # p
    OBVIOUS
  <2>1. p # None /\ entries[w] # p /\ \A d \in Callers : call[d].proc # p
    BY NoneAssumption DEF StartProcess, Free
  <2>2. CASE entries[w] # None
    BY <1>4, <2>1, <2>2 DEF SlotValues
  <2>3. CASE Claimed(w)
    BY <1>4, <2>1, <2>3 DEF SlotValues, Claimed
  <2> QED
    BY <1>4, <2>1, <2>2, <2>3 DEF SlotValues
<1>7. SlotOf' = [SlotOf EXCEPT ![v] = p]
  <2>1. ~Starting(call[c])
    BY <1>1 DEF Starting
  <2> QED
    BY <1>1, <1>2, <1>5, <2>1, OneSlot DEF Claims
<1>8. Finished' = Finished \ {p}
  BY DEF StartProcess, Finished, Done, IInv, OtherTypes
<1> QED
  BY <1>1, <1>5, <1>6, <1>7, <1>8, MappedSteps DEF Filled

\* The process is registered: the claim becomes the entry.
LEMMA RecordFills ==
  ASSUME IInv, IInv', NEW c \in Callers, Record(c)
  PROVE  Slots!Next
<1> DEFINE v == call[c].vol
           p == call[c].proc
<1>1. /\ v \in Volumes /\ p \in Procs /\ Claims(c, v)
      /\ \A d \in Callers : d # c => call'[d] = call[d] /\ ~Starting(call'[c])
      /\ entries' = [entries EXCEPT ![v] = p] /\ UNCHANGED proc
  BY DEF Record, Return, Idle, Starting, Claims, Waiting, IInv, CallsInv, CallInv
<1>2. /\ entries'[v] = p /\ \A w \in Volumes : w # v => entries'[w] = entries[w]
      /\ p # None
  BY <1>1, NoneAssumption DEF IInv, OtherTypes
<1>3. SlotValues /\ SlotValues'
  BY SlotValue, PTL
<1>4. SlotOf[v] = p /\ SlotOf'[v] = p
  BY <1>1, <1>2, <1>3 DEF SlotValues
<1>5. SlotOf' = [SlotOf EXCEPT ![v] = p]
  <2>1. ~Starting(call'[c])
    BY DEF Record, Return, Idle, Starting, IInv, CallsInv
  <2>2. \A w \in Volumes : w # v => \A d \in Callers :
           /\ Claims(d, w)' <=> Claims(d, w)
           /\ Claims(d, w) => call'[d].proc = call[d].proc
    BY <1>1, <2>1 DEF Claims
  <2> QED
    BY <1>1, <1>2, <1>4, <2>2, OneSlot
<1>6. UNCHANGED SlotOf
  BY <1>4, <1>5 DEF SlotOf
<1>7. Filled' = Filled \cup {v} /\ UNCHANGED Finished
  BY <1>1, <1>2 DEF Filled, Finished, Done
<1> QED
  BY <1>1, <1>2, <1>4, <1>6, <1>7, MappedSteps

\* A start is given up.
LEMMA ReturnGivesUp ==
  ASSUME IInv, IInv', NEW c \in Callers, Starting(call[c]), Return(c),
         UNCHANGED <<entries, proc>>
  PROVE  Slots!Next
<1> DEFINE v == call[c].vol
           p == call[c].proc
<1>1. /\ v \in Volumes /\ p \in Procs /\ Claims(c, v) /\ p # None
      /\ ~Starting(call'[c]) /\ \A d \in Callers : d # c => call'[d] = call[d]
  BY NoneAssumption
  DEF Return, Idle, Starting, Claims, Waiting, IInv, CallsInv, CallInv
<1>2. SlotValues /\ SlotValues'
  BY SlotValue, PTL
<1>3. \A d \in Callers : d # c => ~Claims(d, v)
  BY <1>1 DEF Claims, Starting, IInv, Serialised, Holds
<1>4. SlotOf[v] = p /\ entries[v] = None /\ SlotOf'[v] = None
  BY <1>1, <1>2, <1>3 DEF SlotValues, Claimed, Claims
<1>5. SlotOf' = [SlotOf EXCEPT ![v] = None]
  BY <1>1, <1>4, OneSlot DEF Claims
<1> QED
  BY <1>1, <1>4, <1>5, MappedSteps DEF Filled, Finished, Done

\* A request moves on without starting, registering or dropping a process.
LEMMA MovesOn ==
  ASSUME IInv, IInv', NEW c \in Callers, UNCHANGED entries,
         \A d \in Callers : d # c => call'[d] = call[d],
         Starting(call'[c]) <=> Starting(call[c]),
         (call'[c].proc = call[c].proc /\ call'[c].vol = call[c].vol) \/ ~Starting(call[c]),
         \A p \in Procs : Done(p)' <=> Done(p)
  PROVE  UNCHANGED abstract
  BY SameSlots DEF abstract, Finished

\* Every step of a request.
LEMMA RequestStep ==
  ASSUME IInv, IInv', NEW c \in Callers, Step(c)
  PROVE  [Slots!Next]_abstract
<1>1. /\ CallInv(call[c]) /\ call[c] \in Call
      /\ call \in [Callers -> Call] /\ call' \in [Callers -> Call]
  BY DEF IInv, CallsInv
<1>2. CASE \/ MountFresh(c) \/ MountAlready(c) \/ MountStale(c) \/ StartFails(c)
           \/ EnsureTargetClean(c) \/ UnmountNothing(c) \/ UnmountStop(c)
  <2>1. /\ ~Starting(call[c]) /\ UNCHANGED <<entries, proc>>
        /\ \A d \in Callers : d # c => call'[d] = call[d]
    BY <1>1, <1>2
    DEF MountFresh, MountAlready, MountStale, StartFails, EnsureTargetClean, UnmountNothing,
        UnmountStop, Goto, Return, Starting
  <2>2. ~Starting(call'[c])
    BY <1>1, <1>2
    DEF MountFresh, MountAlready, MountStale, StartFails, EnsureTargetClean, UnmountNothing,
        UnmountStop, Goto, Return, Idle, Starting, Call, CallInv
  <2> QED
    BY <2>1, <2>2, MovesOn DEF Done
<1>3. CASE WaitForMount(c) \/ StopKill(c)
  <2>1. PICK l \in {"record", "term", "awaitExit", "kill"} : Goto(c, l)
    BY <1>3 DEF WaitForMount, StopKill
  <2>2. /\ UNCHANGED entries /\ \A p \in Procs : Done(p)' <=> Done(p)
        /\ \A d \in Callers : d # c => call'[d] = call[d]
    BY <1>1, <1>3, <2>1 DEF WaitForMount, StopKill, Done, Live, Goto, IInv, OtherTypes, Process
  <2>3. /\ Starting(call'[c]) <=> Starting(call[c])
        /\ call'[c].proc = call[c].proc /\ call'[c].vol = call[c].vol
    BY <1>1, <1>3, <2>1 DEF WaitForMount, StopKill, Goto, Starting, Call, CallInv
  <2> QED
    BY <2>2, <2>3, MovesOn
<1>4. CASE MountReplace(c) \/ UnmountRemove(c)
  <2> DEFINE v == call[c].vol
  <2>1. /\ v \in Volumes /\ UNCHANGED proc /\ entries' = [entries EXCEPT ![v] = None]
        /\ entries[v] # None => Done(entries[v])
    BY <1>1, <1>4 DEF MountReplace, UnmountRemove, RemoveMount, CallInv, Waiting
  <2>2. /\ ~Starting(call[c]) /\ ~Starting(call'[c])
        /\ \A d \in Callers : d # c => call'[d] = call[d]
    BY <1>1, <1>4 DEF MountReplace, UnmountRemove, Return, Idle, Starting, Call
  <2> QED
    BY <2>1, <2>2, Dropped
<1>5. CASE StartExited(c) \/ StopDone(c) \/ StopFails(c)
  <2>1. UNCHANGED <<entries, proc>>
    BY <1>5 DEF StartExited, StopDone, StopFails
  <2>2. CASE Starting(call[c])
    <3>1. Return(c)
      BY <1>5, <2>2 DEF StartExited, StopDone, StopFails, Starting
    <3> QED
      BY <2>1, <2>2, <3>1, ReturnGivesUp
  <2>3. CASE ~Starting(call[c])
    <3>1. \A d \in Callers : d # c => call'[d] = call[d]
      BY <1>1, <1>5 DEF StartExited, StopDone, StopFails, Return, Goto
    <3>2. ~Starting(call'[c])
      BY <1>1, <1>5, <2>3
      DEF StartExited, StopDone, StopFails, Return, Goto, Idle, Starting, Call, CallInv
    <3> QED
      BY <2>1, <2>3, <3>1, <3>2, MovesOn DEF Done
  <2> QED
    BY <2>2, <2>3
<1> QED
  BY <1>2, <1>3, <1>4, <1>5, StartClaims, RecordFills DEF Step

\* Every other step.
LEMMA OtherStep ==
  ASSUME IInv, IInv', Next, ~\E c \in Callers : Step(c)
  PROVE  [Slots!Next]_abstract
<1>1. ASSUME NEW c \in Callers, NEW v \in Volumes,
             UnmountCall(c, v) \/ \E t \in Targets : MountCall(c, v, t)
      PROVE  UNCHANGED abstract
  <2>1. /\ ~Starting(call[c]) /\ ~Starting(call'[c]) /\ UNCHANGED <<entries, proc>>
        /\ \A d \in Callers : d # c => call'[d] = call[d]
    BY <1>1 DEF MountCall, UnmountCall, Starting, IInv, CallsInv
  <2> QED
    BY <2>1, MovesOn DEF Done
<1>2. ASSUME NEW c \in Callers, Acquire(c) PROVE UNCHANGED abstract
  <2>1. call \in [Callers -> Call]
    BY DEF IInv, CallsInv
  <2>2. /\ ~Starting(call[c]) /\ UNCHANGED <<entries, proc>>
        /\ \A d \in Callers : d # c => call'[d] = call[d]
    BY <1>2, <2>1 DEF Acquire, Goto, Starting
  <2>3. ~Starting(call'[c])
    BY <1>2, <2>1 DEF Acquire, Goto, Starting, Call
  <2> QED
    BY <2>2, <2>3, MovesOn DEF Done
<1>3. ASSUME NEW v \in Volumes, NEW p \in Procs, WatchProcessExit(v, p)
      PROVE  [Slots!Next]_abstract
  <2>1. UNCHANGED <<call, proc>>
    BY <1>3 DEF WatchProcessExit
  <2>2. CASE WatchMatches(v, p)
    BY <1>3, <2>1, <2>2, Dropped DEF WatchProcessExit, WatchMatches
  <2>3. CASE ~WatchMatches(v, p)
    BY <1>3, <2>1, <2>3, SameSlots DEF WatchProcessExit, abstract, Finished, Done
  <2> QED
    BY <2>2, <2>3
<1>4. ASSUME NEW p \in Procs, WaitCleanup(p) PROVE Slots!Next
  <2>1. UNCHANGED <<SlotOf, Filled>>
    BY <1>4, SameSlots DEF WaitCleanup
  <2>2. Finished' = Finished \cup {p}
    BY <1>4 DEF WaitCleanup, Finished, Done, IInv, OtherTypes, Process
  <2> QED
    BY <2>1, <2>2, MappedSteps
<1>5. ASSUME NEW p \in Procs, ProcessMounts(p) \/ ProcessDies(p) \/ WaitReturns(p)
      PROVE  UNCHANGED abstract
  <2>1. UNCHANGED <<SlotOf, Filled>>
    BY <1>5, SameSlots DEF ProcessMounts, ProcessDies, WaitReturns
  <2>2. UNCHANGED Finished
    BY <1>5
    DEF ProcessMounts, ProcessDies, WaitReturns, Finished, Done, Live, IInv, OtherTypes, Process
  <2> QED
    BY <2>1, <2>2 DEF abstract
<1>6. ASSUME NEW t \in Targets, PluginUnmount(t) PROVE UNCHANGED abstract
  BY <1>6, SameSlots DEF PluginUnmount, abstract, Finished, Done
<1>7. CASE Restart
  <2>1. /\ \A v \in Volumes : entries'[v] = None
        /\ \A d \in Callers : ~Starting(call'[d])
    BY <1>7 DEF Restart, Idle, Starting
  <2>2. SlotOf' = [v \in Volumes |-> None] /\ Filled' = {}
    BY <2>1 DEF SlotOf, Claimed, Claims, Filled
  <2>3. Finished' = Procs
    BY <1>7 DEF Restart, Finished, Done, IInv, OtherTypes, Process
  <2> QED
    BY <2>2, <2>3, MappedSteps
<1> QED
  BY <1>1, <1>2, <1>3, <1>4, <1>5, <1>6, <1>7 DEF Next

-------------------------------------------------------------------------------
\* The mount service implements MountSlot: every volume has one slot, a
\* registered process leaves it only when it has finished, and a slot is
\* empty between two processes, whatever requests, watchers, deaths,
\* timeouts and restarts do.
THEOREM SlotsImplemented == Spec => ImplementsSlots
<1>1. Init => Slots!Init
  <2> SUFFICES ASSUME Init PROVE Slots!Init
    OBVIOUS
  <2>1. \A v \in Volumes : entries[v] = None /\ ~Claimed(v)
    BY DEF Init, Idle, Claimed, Claims, Starting
  <2> QED
    BY <2>1, MappedState DEF Init, SlotOf, Filled, Finished, Done
<1>2. IInv /\ IInv' /\ [Next]_vars => [Slots!Next]_Slots!vars
  <2> SUFFICES ASSUME IInv, IInv', [Next]_vars PROVE [Slots!Next]_abstract
    <3>1. Slots!vars = abstract /\ Slots!vars' = abstract'
      BY DEF Slots!vars, abstract, SlotOf, Filled, Finished, Claimed, Claims
    <3> QED
      BY <3>1
  <2>1. CASE Next
    BY <2>1, RequestStep, OtherStep
  <2>2. CASE UNCHANGED vars
    BY <2>2, SameSlots DEF vars, abstract, Finished, Done
  <2> QED
    BY <2>1, <2>2
<1> QED
  BY <1>1, <1>2, Invariance, PTL DEF Spec, ImplementsSlots, Slots!Spec
===============================================================================
