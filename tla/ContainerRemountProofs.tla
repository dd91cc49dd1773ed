------------------------ MODULE ContainerRemountProofs ------------------------
(***************************************************************************)
(* Proofs about ContainerRemount, for any number of volumes, containers    *)
(* and devices: the types hold, and a mount in a container is replaced     *)
(* only when its weed is gone.                                             *)
(*                                                                         *)
(* The second needs to know that a mount a goroutine has listed is still   *)
(* the one it listed when it replaces it: nobody else replaces it, because *)
(* the goroutines of two volumes list mounts of their own volume only, and *)
(* its device number is not given away, because the mount refers to it.    *)
(***************************************************************************)
EXTENDS ContainerRemount, TLAPS

\* The mounts of a volume, and what is cloned of them, show the volume.
OwnMounts ==
  \A v \in Vols :
    /\ staging[v] \in Devices => of[staging[v]] = v
    /\ bind[v] \in Devices => of[bind[v]] = v
    /\ gor[v].fd \in Devices => of[gor[v].fd] = v

\* A mount in a container shows some volume.
SomeVolume ==
  \A c \in Containers, w \in Vols : cm[c][w] \in Devices => of[cm[c][w]] \in Vols

\* The locals of a pass: the device pass has a device to look for, and what
\* is replaced is one of the listed mounts.
Passing ==
  \A v \in Vols :
    /\ gor[v].pass = "device" => gor[v].old \in Devices
    /\ gor[v].pc \in {"entry", "swap"} => gor[v].at \in Containers
    /\ gor[v].pc = "swap" => gor[v].on \in gor[v].entries

\* The device a recovery looks for is of its volume, or of none, and dead.
OldIsDead(v) ==
  gor[v].old \in Devices => gor[v].old \notin alive /\ of[gor[v].old] \in {v, None}

\* The mounts that are listed in a running container are still there.
Listed(v) ==
  gor[v].pc \in {"entry", "swap"} /\ gor[v].at \in running =>
    \A w \in gor[v].entries :
      LET d == cm[gor[v].at][w]
      IN  /\ d \in Devices /\ of[d] = v
          /\ gor[v].pass = "device" => d = gor[v].old

\* The one that is about to be replaced is dead.
Doomed(v) ==
  gor[v].pc = "swap" /\ gor[v].at \in running => Dead(cm[gor[v].at][gor[v].on])

Careful == \A v \in Vols : OldIsDead(v) /\ Listed(v) /\ Doomed(v)

IInv == TypeOK /\ OwnMounts /\ SomeVolume /\ Passing /\ (~misled => Careful)

-------------------------------------------------------------------------------
(* The locals of a goroutine.                                              *)

\* Only v's goroutine moves.
Only(v) == gor' \in [Vols -> Goroutine] /\ \A u \in Vols : u # v => gor'[u] = gor[u]

\* Locals that are set as a whole.
LEMMA SetOnly ==
  ASSUME gor \in [Vols -> Goroutine], NEW v \in Vols, NEW x \in Goroutine,
         gor' = [gor EXCEPT ![v] = x]
  PROVE  Only(v) /\ gor'[v] = x
  BY DEF Only

\* A goroutine that does nothing.
LEMMA IdleType ==
  /\ Idle \in Goroutine /\ Idle.pc = "idle" /\ Idle.old = None /\ Idle.pass = "none"
  /\ Idle.fd = None
  BY DEF Idle, Goroutine, Mount, Passes

\* Another program counter.
LEMMA PcRec ==
  ASSUME NEW r \in Goroutine, NEW l \in {"idle", "detach", "stage", "bind", "scan", "entry", "swap"}
  PROVE  LET s == [r EXCEPT !.pc = l]
         IN  /\ s \in Goroutine /\ s.pc = l /\ s.old = r.old /\ s.pass = r.pass /\ s.at = r.at
             /\ s.entries = r.entries /\ s.on = r.on /\ s.fd = r.fd
  BY DEF Goroutine

\* A pass begins.
LEMMA BeginRec ==
  ASSUME NEW r \in Goroutine, NEW v \in Vols, NEW pass \in {"device", "repair"},
         staging[v] \in Mount, running \in SUBSET Containers
  PROVE  LET s == Begin(v, r, pass)
         IN  /\ s \in Goroutine /\ s.pc = "scan" /\ s.old = r.old /\ s.pass = pass
             /\ s.at = r.at /\ s.entries = r.entries /\ s.on = r.on /\ s.fd = r.fd
  BY DEF Begin, Goroutine, Passes

\* A recovery begins.
LEMMA RecoverRec ==
  ASSUME NEW d \in Mount
  PROVE  LET s == [Idle EXCEPT !.pc = "detach", !.old = d]
         IN  s \in Goroutine /\ s.pc = "detach" /\ s.old = d /\ s.pass = "none" /\ s.fd = None
  BY DEF Idle, Goroutine, Mount, Passes

\* A container is done.
LEMMA DoneRec ==
  ASSUME NEW r \in Goroutine
  PROVE  LET s == [[r EXCEPT !.pc = "scan"] EXCEPT !.at = None]
         IN  /\ s \in Goroutine /\ s.pc = "scan" /\ s.old = r.old /\ s.pass = r.pass
             /\ s.entries = r.entries /\ s.fd = r.fd
  BY DEF Goroutine

\* A listed mount is left alone.
LEMMA SkipRec ==
  ASSUME NEW r \in Goroutine, NEW E \in SUBSET Vols
  PROVE  LET s == [r EXCEPT !.entries = E]
         IN  /\ s \in Goroutine /\ s.pc = r.pc /\ s.old = r.old /\ s.pass = r.pass
             /\ s.at = r.at /\ s.entries = E /\ s.on = r.on /\ s.fd = r.fd
  BY DEF Goroutine

\* An entry is done.
LEMMA EntryRec ==
  ASSUME NEW r \in Goroutine, NEW E \in SUBSET Vols
  PROVE  LET s == [[[[r EXCEPT !.pc = "entry"] EXCEPT !.entries = E] EXCEPT !.on = None]
                     EXCEPT !.fd = None]
         IN  /\ s \in Goroutine /\ s.pc = "entry" /\ s.old = r.old /\ s.pass = r.pass
             /\ s.at = r.at /\ s.entries = E /\ s.on = None /\ s.fd = None
  BY DEF Goroutine, Mount

\* EntryDone, seen from the record.
LEMMA EntryDoneView ==
  ASSUME TypeOK, NEW v \in Vols, EntryDone(v)
  PROVE  /\ Only(v)
         /\ LET s == gor'[v]
                r == gor[v]
            IN  /\ s.pc = "entry" /\ s.old = r.old /\ s.pass = r.pass /\ s.at = r.at
                /\ s.entries = r.entries \ {r.on} /\ s.fd = None
<1> DEFINE r == gor[v]
           E == r.entries \ {r.on}
           s == [[[[r EXCEPT !.pc = "entry"] EXCEPT !.entries = E] EXCEPT !.on = None]
                   EXCEPT !.fd = None]
<1>1. r \in Goroutine /\ gor \in [Vols -> Goroutine]
  BY DEF TypeOK
<1>2. E \in SUBSET Vols
  BY <1>1 DEF Goroutine
<1>3. gor' = [gor EXCEPT ![v] = s]
  BY <1>1 DEF EntryDone
<1>4. /\ s \in Goroutine /\ s.pc = "entry" /\ s.old = r.old /\ s.pass = r.pass
      /\ s.at = r.at /\ s.entries = E /\ s.on = None /\ s.fd = None
  <2> HIDE DEF r, E
  <2> QED
    BY <1>1, <1>2, EntryRec
<1> HIDE DEF s
<1> QED
  BY <1>1, <1>3, <1>4, SetOnly

-------------------------------------------------------------------------------
(* What a goroutine does without touching containers or devices.           *)

\* A step of v's goroutine that leaves the devices and the containers alone
\* keeps the invariant if v's own part of it holds afterwards.
LEMMA GorStep ==
  ASSUME IInv, NEW v \in Vols, Only(v), UNCHANGED <<of, alive, running, cm>>,
         misled' \in BOOLEAN, misled => misled',
         staging' \in [Vols -> Mount], bind' \in [Vols -> Mount],
         \A u \in Vols : staging'[u] \in Devices => of[staging'[u]] = u,
         \A u \in Vols : bind'[u] \in Devices => of[bind'[u]] = u,
         gor'[v].fd \in Devices => of[gor'[v].fd] = v,
         gor'[v].pass = "device" => gor'[v].old \in Devices,
         gor'[v].pc \in {"entry", "swap"} => gor'[v].at \in Containers,
         gor'[v].pc = "swap" => gor'[v].on \in gor'[v].entries,
         ~misled' => OldIsDead(v)' /\ Listed(v)' /\ Doomed(v)'
  PROVE  IInv'
<1>1. TypeOK'
  BY DEF IInv, TypeOK, Only
<1>2. OwnMounts'
  BY DEF IInv, OwnMounts, Only
<1>3. SomeVolume'
  BY DEF IInv, SomeVolume
<1>4. Passing'
  BY DEF IInv, Passing, Only
<1>5. ASSUME ~misled' PROVE Careful'
  <2>1. Careful
    BY <1>5 DEF IInv
  <2>2. ASSUME NEW u \in Vols, u # v
        PROVE  OldIsDead(u)' /\ Listed(u)' /\ Doomed(u)'
    <3>1. gor'[u] = gor[u]
      BY <2>2 DEF Only
    <3>2. OldIsDead(u)'
      BY <2>1, <3>1 DEF Careful, OldIsDead
    <3>3. Listed(u)'
      BY <2>1, <3>1 DEF Careful, Listed
    <3>4. Doomed(u)'
      BY <2>1, <3>1 DEF Careful, Doomed, Dead
    <3> QED
      BY <3>2, <3>3, <3>4
  <2> QED
    BY <1>5, <2>2 DEF Careful
<1> QED
  BY <1>1, <1>2, <1>3, <1>4, <1>5 DEF IInv

\* The same for a goroutine that is, afterwards, not in the middle of a
\* container.
LEMMA AwayStep ==
  ASSUME IInv, NEW v \in Vols, Only(v), UNCHANGED <<of, alive, running, cm>>,
         misled' \in BOOLEAN, misled => misled',
         staging' \in [Vols -> Mount], bind' \in [Vols -> Mount],
         \A u \in Vols : staging'[u] \in Devices => of[staging'[u]] = u,
         \A u \in Vols : bind'[u] \in Devices => of[bind'[u]] = u,
         gor'[v].fd \in Devices => of[gor'[v].fd] = v,
         gor'[v].pass = "device" => gor'[v].old \in Devices,
         gor'[v].pc \notin {"entry", "swap"},
         ~misled' => OldIsDead(v)'
  PROVE  IInv'
<1>1. Listed(v)' /\ Doomed(v)'
  BY DEF Listed, Doomed
<1> QED
  BY <1>1, GorStep

\* What the invariant says of one goroutine.
LEMMA Locals ==
  ASSUME IInv, NEW v \in Vols
  PROVE  /\ gor \in [Vols -> Goroutine] /\ gor[v] \in Goroutine /\ running \in SUBSET Containers
         /\ staging \in [Vols -> Mount] /\ bind \in [Vols -> Mount] /\ misled \in BOOLEAN
         /\ staging[v] \in Mount /\ bind[v] \in Mount
         /\ \A u \in Vols : staging[u] \in Devices => of[staging[u]] = u
         /\ \A u \in Vols : bind[u] \in Devices => of[bind[u]] = u
         /\ gor[v].fd \in Devices => of[gor[v].fd] = v
         /\ gor[v].pass = "device" => gor[v].old \in Devices
         /\ gor[v].pc \in {"entry", "swap"} => gor[v].at \in Containers
         /\ gor[v].pc = "swap" => gor[v].on \in gor[v].entries
         /\ ~misled => OldIsDead(v) /\ Listed(v) /\ Doomed(v)
         /\ gor[v].old \in Mount /\ gor[v].entries \in SUBSET Vols /\ gor[v].todo \in SUBSET Containers
<1>1. TypeOK /\ gor[v] \in Goroutine
  BY DEF IInv, TypeOK
<1>2. gor[v].old \in Mount /\ gor[v].entries \in SUBSET Vols /\ gor[v].todo \in SUBSET Containers
  BY <1>1 DEF Goroutine
<1>3. ~misled => OldIsDead(v) /\ Listed(v) /\ Doomed(v)
  BY DEF IInv, Careful
<1> QED
  BY <1>1, <1>2, <1>3 DEF IInv, TypeOK, OwnMounts, Passing

\* None is no device.
LEMMA NoneNoDevice == None \notin Devices /\ Host \notin Devices /\ None # Host
  BY RemountAssumption

\* Detach unmounts the staging path.
LEMMA DetachKeeps ==
  ASSUME IInv, NEW v \in Vols, Detach(v)
  PROVE  IInv'
<1> DEFINE x == [gor[v] EXCEPT !.pc = "stage"]
<1>1. gor' = [gor EXCEPT ![v] = x]
  BY DEF Detach
<1>2. /\ x \in Goroutine /\ x.pc = "stage" /\ x.old = gor[v].old /\ x.pass = gor[v].pass
      /\ x.fd = gor[v].fd
  BY Locals, PcRec
<1> HIDE DEF x
<1>3. Only(v) /\ gor'[v] = x
  BY <1>1, <1>2, Locals, SetOnly
<1>4. /\ UNCHANGED <<of, alive, running, cm, misled, bind>>
      /\ staging' = [staging EXCEPT ![v] = None]
  BY DEF Detach
<1>5. staging' \in [Vols -> Mount] /\ \A u \in Vols : staging'[u] \in Devices => of[staging'[u]] = u
  BY <1>4, Locals, NoneNoDevice DEF Mount
<1>6. ~misled' => OldIsDead(v)'
  BY <1>2, <1>3, <1>4, Locals DEF OldIsDead
<1> QED
  BY <1>2, <1>3, <1>4, <1>5, <1>6, Locals, AwayStep

\* RecoverFails leaves the goroutine idle.
LEMMA RecoverFailsKeeps ==
  ASSUME IInv, NEW v \in Vols, RecoverFails(v)
  PROVE  IInv'
<1>1. Only(v) /\ gor'[v] = Idle
  BY Locals, IdleType, SetOnly DEF RecoverFails
<1>2. /\ UNCHANGED <<of, alive, running, cm, misled, staging>>
      /\ bind' = bind \/ bind' = [bind EXCEPT ![v] = None]
  BY DEF RecoverFails
<1>3. bind' \in [Vols -> Mount] /\ \A u \in Vols : bind'[u] \in Devices => of[bind'[u]] = u
  BY <1>2, Locals, NoneNoDevice DEF Mount
<1>4. OldIsDead(v)'
  BY <1>1, IdleType, NoneNoDevice DEF OldIsDead
<1> QED
  BY <1>1, <1>2, <1>3, <1>4, Locals, IdleType, NoneNoDevice, AwayStep

\* Recover notes the device of the mount it is to replace.
LEMMA RecoverKeeps ==
  ASSUME IInv, NEW v \in Vols, Recover(v)
  PROVE  IInv'
<1> DEFINE x == [Idle EXCEPT !.pc = "detach", !.old = OldDevice(v)]
<1>1. /\ OldDevice(v) \in Mount
      /\ OldDevice(v) \in Devices => of[OldDevice(v)] = v
  BY Locals DEF OldDevice
<1>2. gor' = [gor EXCEPT ![v] = x]
  BY DEF Recover
<1>3. x \in Goroutine /\ x.pc = "detach" /\ x.old = OldDevice(v) /\ x.pass = "none" /\ x.fd = None
  BY <1>1, RecoverRec
<1> HIDE DEF x
<1>4. Only(v) /\ gor'[v] = x
  BY <1>2, <1>3, Locals, SetOnly
<1>5. /\ UNCHANGED <<of, alive, running, cm, bind, staging>>
      /\ misled' = (misled \/ OldDevice(v) \in alive)
  BY DEF Recover, host
<1>6. ~misled' => OldIsDead(v)'
  BY <1>1, <1>3, <1>4, <1>5 DEF OldIsDead
<1>7. misled' \in BOOLEAN /\ (misled => misled')
  BY <1>5, Locals
<1> QED
  BY <1>3, <1>4, <1>5, <1>6, <1>7, Locals, NoneNoDevice, AwayStep

\* Rebind binds the publish path to the staging mount and begins a pass.
LEMMA RebindKeeps ==
  ASSUME IInv, NEW v \in Vols, Rebind(v)
  PROVE  IInv'
<1> DEFINE p == IF gor[v].old # None THEN "device" ELSE "repair"
           x == Begin(v, gor[v], p)
<1>1. gor' = [gor EXCEPT ![v] = x]
  BY DEF Rebind
<1>2. p \in {"device", "repair"} /\ (p = "device" => gor[v].old \in Devices)
  BY Locals DEF Mount
<1> HIDE DEF p
<1>3. /\ x \in Goroutine /\ x.pc = "scan" /\ x.old = gor[v].old /\ x.pass = p
      /\ x.fd = gor[v].fd
  BY <1>2, Locals, BeginRec
<1> HIDE DEF x
<1>4. Only(v) /\ gor'[v] = x
  BY <1>1, <1>3, Locals, SetOnly
<1>5. /\ UNCHANGED <<of, alive, running, cm, misled, staging>>
      /\ bind' = [bind EXCEPT ![v] = staging[v]]
  BY DEF Rebind
<1>6. bind' \in [Vols -> Mount] /\ \A u \in Vols : bind'[u] \in Devices => of[bind'[u]] = u
  BY <1>5, Locals
<1>7. ~misled' => OldIsDead(v)'
  BY <1>3, <1>4, <1>5, Locals DEF OldIsDead
<1> QED
  BY <1>2, <1>3, <1>4, <1>5, <1>6, <1>7, Locals, AwayStep

\* Retry and Repair begin a repair pass from an idle goroutine.
LEMMA RepairKeeps ==
  ASSUME IInv, NEW v \in Vols, Retry(v) \/ Repair(v)
  PROVE  IInv'
<1> DEFINE x == Begin(v, Idle, "repair")
<1>1. gor' = [gor EXCEPT ![v] = x]
  BY DEF Retry, Repair
<1>2. x \in Goroutine /\ x.pc = "scan" /\ x.old = None /\ x.pass = "repair" /\ x.fd = None
  BY Locals, BeginRec, IdleType
<1> HIDE DEF x
<1>3. Only(v) /\ gor'[v] = x
  BY <1>1, <1>2, Locals, SetOnly
<1>4. /\ UNCHANGED <<of, alive, running, cm, misled, staging>>
      /\ bind' = bind \/ bind' = [bind EXCEPT ![v] = staging[v]]
  BY DEF Retry, Repair, host
<1>5. bind' \in [Vols -> Mount] /\ \A u \in Vols : bind'[u] \in Devices => of[bind'[u]] = u
  BY <1>4, Locals
<1>6. OldIsDead(v)'
  BY <1>2, <1>3, NoneNoDevice DEF OldIsDead
<1> QED
  BY <1>2, <1>3, <1>4, <1>5, <1>6, Locals, NoneNoDevice, AwayStep

\* EndPass begins the repair pass, or ends the work.
LEMMA EndPassKeeps ==
  ASSUME IInv, NEW v \in Vols, EndPass(v)
  PROVE  IInv'
<1> DEFINE x == IF gor[v].pass = "device" /\ staging[v] # None
                THEN Begin(v, gor[v], "repair") ELSE Idle
<1>1. gor' = [gor EXCEPT ![v] = x]
  BY DEF EndPass
<1>2. /\ x \in Goroutine /\ x.pc \notin {"entry", "swap"} /\ x.pass # "device"
      /\ x.old \in {gor[v].old, None} /\ x.fd \in {gor[v].fd, None}
  BY Locals, BeginRec, IdleType
<1> HIDE DEF x
<1>3. Only(v) /\ gor'[v] = x
  BY <1>1, <1>2, Locals, SetOnly
<1>4. UNCHANGED <<of, alive, running, cm, misled, staging, bind>>
  BY DEF EndPass, host
<1>5. ~misled' => OldIsDead(v)'
  BY <1>2, <1>3, <1>4, Locals, NoneNoDevice DEF OldIsDead
<1> QED
  BY <1>2, <1>3, <1>4, <1>5, Locals, NoneNoDevice, AwayStep

\* ServiceReaps removes a staging mount.
LEMMA ServiceReapsKeeps ==
  ASSUME IInv, NEW v \in Vols, ServiceReaps(v)
  PROVE  IInv'
<1>1. /\ UNCHANGED <<of, alive, bind, running, cm, gor, misled>>
      /\ staging' = [staging EXCEPT ![v] = None]
  BY DEF ServiceReaps
<1>2. Only(v) /\ gor'[v] = gor[v]
  BY <1>1, Locals DEF Only
<1>3. staging' \in [Vols -> Mount] /\ \A u \in Vols : staging'[u] \in Devices => of[staging'[u]] = u
  BY <1>1, Locals, NoneNoDevice DEF Mount
<1>4. ~misled' => OldIsDead(v)' /\ Listed(v)' /\ Doomed(v)'
  BY <1>1, Locals DEF OldIsDead, Listed, Doomed, Dead
<1> QED
  BY <1>1, <1>2, <1>3, <1>4, Locals, GorStep

-------------------------------------------------------------------------------
(* Listing the mounts of a container and choosing the next.                *)

\* Scan lists mounts of v only: those on the device it looks for, which is
\* nobody else's, or those of v's file system.
LEMMA ScanKeeps ==
  ASSUME IInv, NEW v \in Vols, NEW c \in Containers, Scan(v, c)
  PROVE  IInv'
<1> DEFINE E == IF gor[v].pass = "device" THEN MountsByDevice(v, c) ELSE OlderMounts(v, c)
           T == gor[v].todo \ {c}
           r == gor[v]
           x == [[[[r EXCEPT !.pc = "entry"] EXCEPT !.at = c] EXCEPT !.todo = T]
                   EXCEPT !.entries = E]
<1>1. E \in SUBSET Vols /\ T \in SUBSET Containers
  BY Locals DEF MountsByDevice, OlderMounts
<1>2. gor' = [gor EXCEPT ![v] = x]
  BY Locals DEF Scan
<1>3. ASSUME ~misled, NEW w \in E
      PROVE  /\ cm[c][w] \in Devices /\ of[cm[c][w]] = v
             /\ gor[v].pass = "device" => cm[c][w] = gor[v].old
  <2>1. OldIsDead(v) /\ w \in Vols
    BY <1>1, <1>3, Locals
  <2>2. CASE gor[v].pass = "device"
    <3>1. cm[c][w] = gor[v].old /\ gor[v].old \in Devices
      BY <1>3, <2>2, Locals DEF MountsByDevice
    <3>2. of[cm[c][w]] \in Vols
      BY <2>1, <3>1 DEF IInv, SomeVolume
    <3> QED
      BY <2>1, <3>1, <3>2, RemountAssumption DEF OldIsDead
  <2>3. CASE gor[v].pass # "device"
    BY <1>3, <2>3 DEF OlderMounts
  <2> QED
    BY <2>2, <2>3
<1> HIDE DEF E, T
<1>4. /\ x \in Goroutine /\ x.pc = "entry" /\ x.old = gor[v].old /\ x.pass = gor[v].pass
      /\ x.at = c /\ x.entries = E /\ x.fd = gor[v].fd
  <2>1. r \in Goroutine
    BY Locals
  <2>2. /\ x \in Goroutine /\ x.pc = "entry" /\ x.old = r.old /\ x.pass = r.pass
        /\ x.at = c /\ x.entries = E /\ x.fd = r.fd
    <3> HIDE DEF r
    <3> QED
      BY <1>1, <2>1 DEF Goroutine
  <2> QED
    BY <2>2
<1> HIDE DEF x
<1>5. Only(v) /\ gor'[v] = x
  BY <1>2, <1>4, Locals, SetOnly
<1>6. UNCHANGED <<of, alive, running, cm, misled, staging, bind>>
  BY DEF Scan, host
<1>7. ~misled' => OldIsDead(v)' /\ Listed(v)' /\ Doomed(v)'
  <2>1. ~misled' => OldIsDead(v)'
    BY <1>4, <1>5, <1>6, Locals DEF OldIsDead
  <2>2. ~misled' => Listed(v)'
    BY <1>3, <1>4, <1>5, <1>6 DEF Listed
  <2>3. Doomed(v)'
    BY <1>4, <1>5 DEF Doomed
  <2> QED
    BY <2>1, <2>2, <2>3
<1> QED
  BY <1>4, <1>5, <1>6, <1>7, Locals, GorStep

\* Entry goes on to the next container, clones the staging mount for a mount
\* that is dead, or leaves one alone.
LEMMA EntryKeeps ==
  ASSUME IInv, NEW v \in Vols, Entry(v)
  PROVE  IInv'
<1>0. UNCHANGED <<of, alive, running, cm, misled, staging, bind>> /\ gor[v].pc = "entry"
  BY DEF Entry, host
<1>1. CASE gor' = [gor EXCEPT ![v].pc = "scan", ![v].at = None]
  <2> DEFINE x == [[gor[v] EXCEPT !.pc = "scan"] EXCEPT !.at = None]
  <2>1. gor' = [gor EXCEPT ![v] = x]
    BY <1>1, Locals
  <2>2. /\ x \in Goroutine /\ x.pc = "scan" /\ x.old = gor[v].old /\ x.pass = gor[v].pass
        /\ x.fd = gor[v].fd
    BY Locals, DoneRec
  <2> HIDE DEF x
  <2>3. Only(v) /\ gor'[v] = x
    BY <2>1, <2>2, Locals, SetOnly
  <2>4. ~misled' => OldIsDead(v)'
    BY <1>0, <2>2, <2>3, Locals DEF OldIsDead
  <2> QED
    BY <1>0, <2>2, <2>3, <2>4, Locals, AwayStep
<1>2. ASSUME NEW w \in gor[v].entries,
             gor[v].pass = "device" \/ IsStaleMount(cm[gor[v].at][w]),
             gor' = [gor EXCEPT ![v].pc = "swap", ![v].on = w,
                                ![v].fd = IF staging[v] = None THEN Host ELSE staging[v]]
      PROVE  IInv'
  <2> DEFINE d == IF staging[v] = None THEN Host ELSE staging[v]
             r == gor[v]
             x == [[[r EXCEPT !.pc = "swap"] EXCEPT !.on = w] EXCEPT !.fd = d]
  <2>1. /\ d \in Mount \cup {Host} /\ (d \in Devices => of[d] = v)
        /\ w \in Vols
    BY Locals, NoneNoDevice
  <2>2. gor' = [gor EXCEPT ![v] = x]
    BY <1>2, Locals
  <2> HIDE DEF d
  <2>3. /\ x \in Goroutine /\ x.pc = "swap" /\ x.old = gor[v].old /\ x.pass = gor[v].pass
        /\ x.at = gor[v].at /\ x.entries = gor[v].entries /\ x.on = w /\ x.fd = d
    <3>1. r \in Goroutine
      BY Locals
    <3>2. /\ x \in Goroutine /\ x.pc = "swap" /\ x.old = r.old /\ x.pass = r.pass
          /\ x.at = r.at /\ x.entries = r.entries /\ x.on = w /\ x.fd = d
      <4> HIDE DEF r
      <4> QED
        BY <2>1, <3>1 DEF Goroutine
    <3> QED
      BY <3>2
  <2> HIDE DEF x
  <2>4. Only(v) /\ gor'[v] = x
    BY <2>2, <2>3, Locals, SetOnly
  <2>5. ASSUME ~misled' PROVE OldIsDead(v)' /\ Listed(v)' /\ Doomed(v)'
    <3>1. OldIsDead(v) /\ Listed(v)
      BY <1>0, <2>5, Locals
    <3>2. OldIsDead(v)'
      BY <1>0, <2>3, <2>4, <3>1 DEF OldIsDead
    <3>3. Listed(v)'
      BY <1>0, <2>3, <2>4, <3>1 DEF Listed
    <3>4. ASSUME gor[v].at \in running PROVE Dead(cm[gor[v].at][w])
      <4>1. CASE gor[v].pass = "device"
        <5>1. cm[gor[v].at][w] = gor[v].old /\ cm[gor[v].at][w] \in Devices
          BY <1>0, <1>2, <3>1, <3>4, <4>1 DEF Listed
        <5> QED
          BY <3>1, <5>1 DEF OldIsDead, Dead
      <4>2. CASE IsStaleMount(cm[gor[v].at][w])
        BY <4>2 DEF IsStaleMount
      <4> QED
        BY <1>2, <4>1, <4>2
    <3>5. Doomed(v)'
      BY <1>0, <2>3, <2>4, <3>4 DEF Doomed, Dead
    <3> QED
      BY <3>2, <3>3, <3>5
  <2> QED
    <3>1. gor'[v].on \in gor'[v].entries
      BY <1>2, <2>3, <2>4
    <3> QED
      BY <1>0, <2>1, <2>3, <2>4, <2>5, <3>1, Locals, GorStep
<1>3. ASSUME NEW w \in gor[v].entries,
             gor' = [gor EXCEPT ![v].entries = @ \ {w}]
      PROVE  IInv'
  <2> DEFINE E == gor[v].entries \ {w}
             x == [gor[v] EXCEPT !.entries = E]
  <2>1. E \in SUBSET Vols /\ E \subseteq gor[v].entries
    BY Locals
  <2>2. gor' = [gor EXCEPT ![v] = x]
    BY <1>3, Locals
  <2> HIDE DEF E
  <2>3. /\ x \in Goroutine /\ x.pc = "entry" /\ x.old = gor[v].old /\ x.pass = gor[v].pass
        /\ x.at = gor[v].at /\ x.entries = E /\ x.fd = gor[v].fd
    <3> DEFINE r == gor[v]
    <3>1. r \in Goroutine
      BY Locals
    <3> HIDE DEF r
    <3> QED
      BY <1>0, <2>1, <3>1, SkipRec DEF r
  <2> HIDE DEF x
  <2>4. Only(v) /\ gor'[v] = x
    BY <2>2, <2>3, Locals, SetOnly
  <2>5. ASSUME ~misled' PROVE OldIsDead(v)' /\ Listed(v)' /\ Doomed(v)'
    <3>1. OldIsDead(v) /\ Listed(v)
      BY <1>0, <2>5, Locals
    <3>2. OldIsDead(v)'
      BY <1>0, <2>3, <2>4, <3>1 DEF OldIsDead
    <3>3. Listed(v)'
      BY <1>0, <2>1, <2>3, <2>4, <3>1 DEF Listed
    <3>4. Doomed(v)'
      BY <2>3, <2>4 DEF Doomed
    <3> QED
      BY <3>2, <3>3, <3>4
  <2> QED
    BY <1>0, <2>3, <2>4, <2>5, Locals, GorStep
<1> QED
  BY <1>1, <1>2, <1>3 DEF Entry

-------------------------------------------------------------------------------
(* Replacing a mount.                                                      *)

\* The end of an entry, with the mount that is replaced set to m, or with
\* every mount left alone.  Nobody else has listed that mount.
LEMMA ReplaceKeeps ==
  ASSUME IInv, NEW v \in Vols, gor[v].pc = "swap", EntryDone(v),
         NEW m \in Mount \cup {Host}, m \in Devices => of[m] = v,
         \/ cm' = cm
         \/ gor[v].at \in running /\ cm' = [cm EXCEPT ![gor[v].at][gor[v].on] = m],
         UNCHANGED <<of, alive, staging, bind, running, misled>>
  PROVE  IInv'
<1> DEFINE a == gor[v].at
           o == gor[v].on
<1>1. /\ TypeOK /\ a \in Containers /\ o \in gor[v].entries /\ o \in Vols
      /\ cm \in [Containers -> [Vols -> Mount \cup {Host}]]
  BY Locals DEF IInv, TypeOK
<1>2. /\ Only(v) /\ gor'[v].pc = "entry" /\ gor'[v].old = gor[v].old /\ gor'[v].fd = None
      /\ gor'[v].pass = gor[v].pass /\ gor'[v].at = a /\ gor'[v].entries = gor[v].entries \ {o}
  BY <1>1, EntryDoneView
<1>3. /\ cm' \in [Containers -> [Vols -> Mount \cup {Host}]]
      /\ \A c \in Containers, w \in Vols : cm'[c][w] # cm[c][w] =>
           c = a /\ w = o /\ a \in running /\ cm'[c][w] = m
  BY <1>1
<1> HIDE DEF a, o
<1>4. TypeOK'
  BY <1>2, <1>3 DEF IInv, TypeOK, Only
<1>5. OwnMounts'
  BY <1>2, NoneNoDevice DEF IInv, OwnMounts, Only
<1>6. SomeVolume'
  BY <1>3 DEF IInv, SomeVolume
<1>7. Passing'
  BY <1>1, <1>2, Locals DEF IInv, Passing, Only
<1>8. ASSUME ~misled' PROVE Careful'
  <2>1. Careful /\ ~misled
    BY <1>8 DEF IInv
  <2>2. OldIsDead(v)' /\ Listed(v)' /\ Doomed(v)'
    <3>1. OldIsDead(v)'
      BY <1>2, <2>1 DEF Careful, OldIsDead
    <3>2. \A w \in gor[v].entries \ {o} : w \in Vols /\ cm'[a][w] = cm[a][w]
      BY <1>1, <1>3, Locals
    <3>3. Listed(v) /\ gor[v].at = a
      BY <2>1 DEF Careful, a
    <3>4. Listed(v)'
      BY <1>2, <3>2, <3>3 DEF Listed
    <3>5. Doomed(v)'
      BY <1>2 DEF Doomed
    <3> QED
      BY <3>1, <3>4, <3>5
  <2>3. ASSUME NEW u \in Vols, u # v
        PROVE  OldIsDead(u)' /\ Listed(u)' /\ Doomed(u)'
    <3>1. gor'[u] = gor[u]
      BY <1>2, <2>3 DEF Only
    <3>2. OldIsDead(u)'
      BY <2>1, <3>1 DEF Careful, OldIsDead
    <3>3. ASSUME gor[u].pc \in {"entry", "swap"}, gor[u].at \in running,
                 NEW w \in gor[u].entries
          PROVE  cm'[gor[u].at][w] = cm[gor[u].at][w]
      <4>1. of[cm[gor[u].at][w]] = u /\ gor[u].at \in Containers /\ w \in Vols
        BY <2>1, <3>3, Locals DEF Careful, Listed
      <4>2. a \in running => of[cm[a][o]] = v
        BY <1>1, <2>1 DEF Careful, Listed, a, o
      <4> QED
        BY <1>3, <2>3, <4>1, <4>2
    <3>4. Listed(u)'
      BY <2>1, <3>1, <3>3 DEF Careful, Listed
    <3>5. gor[u].pc = "swap" => gor[u].on \in gor[u].entries
      BY Locals
    <3>6. Doomed(u)'
      BY <2>1, <3>1, <3>3, <3>5 DEF Careful, Doomed, Dead
    <3> QED
      BY <3>2, <3>4, <3>6
  <2> QED
    BY <2>2, <2>3 DEF Careful
<1> QED
  BY <1>4, <1>5, <1>6, <1>7, <1>8 DEF IInv

\* Swap moves the clone there.
LEMMA SwapKeeps ==
  ASSUME IInv, NEW v \in Vols, Swap(v)
  PROVE  IInv'
<1>1. gor[v].fd \in Mount \cup {Host}
  BY Locals DEF Goroutine
<1> QED
  BY <1>1, Locals, ReplaceKeeps DEF Swap, host

\* SwapFails may leave no mount there.
LEMMA SwapFailsKeeps ==
  ASSUME IInv, NEW v \in Vols, SwapFails(v)
  PROVE  IInv'
<1>1. None \in Mount \cup {Host} /\ None \notin Devices
  BY NoneNoDevice DEF Mount
<1> QED
  BY <1>1, ReplaceKeeps DEF SwapFails, host

-------------------------------------------------------------------------------
(* New mounts.                                                             *)

\* What refers to a device.
LEMMA Refers ==
  /\ \A u \in Vols : staging[u] \in Referenced /\ bind[u] \in Referenced /\ gor[u].fd \in Referenced
  /\ \A c \in Containers, w \in Vols : cm[c][w] \in Referenced
  BY DEF Referenced

\* A new mount leaves the devices in use as they are.
LEMMA MountsView ==
  ASSUME IInv, NEW v \in Vols, NEW d \in Devices \ Referenced, NEW live \in SUBSET alive,
         Mounts(v, d, live)
  PROVE  /\ staging' = [staging EXCEPT ![v] = d] /\ staging' \in [Vols -> Mount]
         /\ of' \in [Devices -> Vols \cup {None}]
         /\ alive' \subseteq Devices /\ alive' \subseteq alive \cup {d}
         /\ misled' \in BOOLEAN /\ (misled => misled')
         /\ ~misled' => \A u \in Vols : gor[u].old # d
         /\ of'[d] = v
         /\ \A e \in Devices : e \in Referenced => of'[e] = of[e]
         /\ \A e \in Devices : e # d => of'[e] \in {of[e], None}
<1>1. staging \in [Vols -> Mount] /\ of \in [Devices -> Vols \cup {None}] /\ alive \subseteq Devices
      /\ misled \in BOOLEAN
  BY DEF IInv, TypeOK
<1>2. staging' = [staging EXCEPT ![v] = d] /\ staging' \in [Vols -> Mount]
  BY <1>1 DEF Mounts, Mount
<1>3. of' = [e \in Devices |-> IF e = d THEN v ELSE IF e \in Referenced THEN of[e] ELSE None]
  BY DEF Mounts
<1>4. of' \in [Devices -> Vols \cup {None}]
  BY <1>1, <1>3
<1>5. alive' \subseteq Devices /\ alive' \subseteq alive \cup {d}
  BY <1>1 DEF Mounts
<1>6. misled' = (misled \/ \E u \in Vols : gor[u].old = d)
  BY DEF Mounts
<1> QED
  BY <1>1, <1>2, <1>3, <1>4, <1>5, <1>6

\* A new mount for v, made while v's goroutine is not in the middle of a
\* container.
LEMMA MountStep ==
  ASSUME IInv, NEW v \in Vols, NEW d \in Devices \ Referenced, NEW live \in SUBSET alive,
         Mounts(v, d, live), UNCHANGED <<running, cm>>,
         bind' \in [Vols -> Mount], \A u \in Vols : bind'[u] \in {bind[u], staging'[u]},
         Only(v), gor'[v].old = gor[v].old, gor'[v].pass = gor[v].pass,
         gor'[v].fd = gor[v].fd, gor'[v].pc \notin {"entry", "swap"}
  PROVE  IInv'
<1> USE MountsView
<1>1. \A u \in Vols : gor'[u].fd = gor[u].fd /\ gor'[u].old = gor[u].old
  BY DEF Only
<1>2. TypeOK'
  BY DEF IInv, TypeOK, Only
<1>3. OwnMounts'
  <2> SUFFICES ASSUME NEW u \in Vols
               PROVE  /\ staging'[u] \in Devices => of'[staging'[u]] = u
                      /\ bind'[u] \in Devices => of'[bind'[u]] = u
                      /\ gor'[u].fd \in Devices => of'[gor'[u].fd] = u
    BY DEF OwnMounts
  <2>1. /\ staging[u] \in Devices => of'[staging[u]] = u
        /\ bind[u] \in Devices => of'[bind[u]] = u
        /\ gor[u].fd \in Devices => of'[gor[u].fd] = u
    BY Refers DEF IInv, OwnMounts
  <2>2. staging \in [Vols -> Mount]
    BY DEF IInv, TypeOK
  <2>3. staging'[u] \in Devices => of'[staging'[u]] = u
    <3>1. staging'[u] = IF u = v THEN d ELSE staging[u]
      BY <2>2
    <3> QED
      BY <2>1, <3>1
  <2> QED
    BY <1>1, <2>1, <2>3
<1>4. SomeVolume'
  BY Refers DEF IInv, SomeVolume
<1>5. Passing'
  BY DEF IInv, Passing, Only
<1>6. ASSUME ~misled', NEW u \in Vols PROVE OldIsDead(u)' /\ Listed(u)' /\ Doomed(u)'
  <2>1. OldIsDead(u) /\ Listed(u) /\ Doomed(u) /\ gor[u].old # d
    BY <1>6 DEF IInv, Careful
  <2>2. OldIsDead(u)'
    BY <1>1, <2>1 DEF OldIsDead
  <2>3. CASE u = v
    BY <2>2, <2>3 DEF Listed, Doomed
  <2>4. CASE u # v
    <3>1. gor'[u] = gor[u]
      BY <2>4 DEF Only
    <3>2. ASSUME gor[u].pc \in {"entry", "swap"}, NEW w \in gor[u].entries
          PROVE  cm[gor[u].at][w] \in Referenced
      BY <3>2, Locals, Refers
    <3>3. Listed(u)'
      BY <2>1, <3>1, <3>2 DEF Listed
    <3>4. gor[u].pc = "swap" => gor[u].on \in gor[u].entries
      BY Locals
    <3>5. Doomed(u)'
      BY <2>1, <3>1, <3>2, <3>4 DEF Doomed, Dead
    <3> QED
      BY <2>2, <3>3, <3>5
  <2> QED
    BY <2>3, <2>4
<1> QED
  BY <1>2, <1>3, <1>4, <1>5, <1>6 DEF IInv, Careful

\* Stage, in a recovery.
LEMMA StageKeeps ==
  ASSUME IInv, NEW v \in Vols, Stage(v)
  PROVE  IInv'
<1> DEFINE x == [gor[v] EXCEPT !.pc = "bind"]
<1>1. PICK d \in Devices \ Referenced : Mounts(v, d, alive)
  BY DEF Stage
<1>2. gor' = [gor EXCEPT ![v] = x] /\ UNCHANGED <<bind, running, cm>>
  BY DEF Stage
<1>3. /\ x \in Goroutine /\ x.pc = "bind" /\ x.old = gor[v].old /\ x.pass = gor[v].pass
      /\ x.fd = gor[v].fd
  BY Locals, PcRec
<1> HIDE DEF x
<1>4. Only(v) /\ gor'[v] = x
  BY <1>2, <1>3, Locals, SetOnly
<1>5. bind' \in [Vols -> Mount] /\ \A u \in Vols : bind'[u] \in {bind[u], staging'[u]}
  BY <1>2, Locals
<1> QED
  BY <1>1, <1>2, <1>3, <1>4, <1>5, MountStep

\* Restage, by kubelet.
LEMMA RestageKeeps ==
  ASSUME IInv, NEW v \in Vols, Restage(v)
  PROVE  IInv'
<1>1. PICK d \in Devices \ Referenced :
        /\ Mounts(v, d, alive) \/ Mounts(v, d, alive \ {staging[v]})
        /\ bind' = [bind EXCEPT ![v] = IF @ \in alive' THEN @ ELSE d]
  BY DEF Restage
<1>2. UNCHANGED <<running, cm, gor>> /\ gor[v].pc = "idle"
  BY DEF Restage
<1>3. PICK live \in SUBSET alive : Mounts(v, d, live)
  BY <1>1
<1>4. staging' = [staging EXCEPT ![v] = d]
  BY <1>3, MountsView
<1>5. bind' \in [Vols -> Mount] /\ \A u \in Vols : bind'[u] \in {bind[u], staging'[u]}
  BY <1>1, <1>4, Locals DEF Mount
<1>6. Only(v) /\ gor'[v] = gor[v]
  BY <1>2, Locals DEF Only
<1> QED
  BY <1>2, <1>3, <1>5, <1>6, MountStep

-------------------------------------------------------------------------------
(* Weeds and containers.                                                   *)

\* The end of a weed makes nothing alive.
LEMMA WeedDiesKeeps ==
  ASSUME IInv, NEW d \in Devices, WeedDies(d)
  PROVE  IInv'
<1>1. UNCHANGED <<of, staging, bind, running, cm, gor, misled>> /\ alive' \subseteq alive
  BY DEF WeedDies
<1>2. TypeOK' /\ OwnMounts' /\ SomeVolume' /\ Passing'
  BY <1>1 DEF IInv, TypeOK, OwnMounts, SomeVolume, Passing
<1>3. Careful => Careful'
  BY <1>1 DEF Careful, OldIsDead, Listed, Doomed, Dead
<1> QED
  BY <1>1, <1>2, <1>3 DEF IInv

\* Another set of running containers, with other mounts in c, which no
\* goroutine is in, or which is gone.
LEMMA ContainerStep ==
  ASSUME IInv, NEW c \in Containers, NEW ms \in [Vols -> Mount],
         \A w \in Vols : ms[w] \in Devices => of[ms[w]] = w,
         running' \in SUBSET Containers, cm' = [cm EXCEPT ![c] = ms],
         \A e \in Containers : e # c => (e \in running' <=> e \in running),
         c \notin running' \/ \A v \in Vols : gor[v].at # c,
         UNCHANGED <<of, alive, staging, bind, gor, misled>>
  PROVE  IInv'
<1>1. /\ cm \in [Containers -> [Vols -> Mount \cup {Host}]]
      /\ TypeOK /\ OwnMounts /\ SomeVolume /\ Passing
  BY DEF IInv, TypeOK
<1>2. cm' \in [Containers -> [Vols -> Mount \cup {Host}]]
  BY <1>1
<1>3. cm'[c] = ms /\ \A e \in Containers : e # c => cm'[e] = cm[e]
  BY <1>1
<1>4. TypeOK' /\ OwnMounts' /\ Passing'
  BY <1>1, <1>2 DEF TypeOK, OwnMounts, Passing
<1>5. SomeVolume'
  BY <1>1, <1>3 DEF SomeVolume
<1>6. ASSUME ~misled', NEW u \in Vols PROVE OldIsDead(u)' /\ Listed(u)' /\ Doomed(u)'
  <2>1. OldIsDead(u) /\ Listed(u) /\ Doomed(u)
    BY <1>6 DEF IInv, Careful
  <2>2. gor[u].pc \in {"entry", "swap"} /\ gor[u].at \in running' =>
          gor[u].at \in running /\ cm'[gor[u].at] = cm[gor[u].at]
    BY <1>3, Locals
  <2>3. OldIsDead(u)'
    BY <2>1 DEF OldIsDead
  <2>4. Listed(u)'
    BY <2>1, <2>2 DEF Listed
  <2>5. Doomed(u)'
    BY <2>1, <2>2 DEF Doomed, Dead
  <2> QED
    BY <2>3, <2>4, <2>5
<1> QED
  BY <1>4, <1>5, <1>6 DEF IInv, Careful

\* A container starts with the publish binds.
LEMMA ContainerStartsKeeps ==
  ASSUME IInv, NEW c \in Containers, ContainerStarts(c)
  PROVE  IInv'
<1>1. bind \in [Vols -> Mount] /\ \A w \in Vols : bind[w] \in Devices => of[bind[w]] = w
  BY DEF IInv, TypeOK, OwnMounts
<1>2. /\ running' = running \cup {c} /\ cm' = [cm EXCEPT ![c] = bind]
      /\ UNCHANGED <<of, alive, staging, bind, gor, misled>>
      /\ \A v \in Vols : gor[v].at # c
  BY DEF ContainerStarts, host
<1>3. running' \in SUBSET Containers
  BY <1>2 DEF IInv, TypeOK
<1> QED
  BY <1>1, <1>2, <1>3, ContainerStep

\* A container exits, and its mounts with it.
LEMMA ContainerExitsKeeps ==
  ASSUME IInv, NEW c \in Containers, ContainerExits(c)
  PROVE  IInv'
<1>1. NoMounts \in [Vols -> Mount] /\ \A w \in Vols : NoMounts[w] \notin Devices
  BY NoneNoDevice DEF NoMounts, Mount
<1>2. /\ running' = running \ {c} /\ cm' = [cm EXCEPT ![c] = NoMounts]
      /\ UNCHANGED <<of, alive, staging, bind, gor, misled>>
  BY DEF ContainerExits, host
<1>3. running' \in SUBSET Containers
  BY <1>2 DEF IInv, TypeOK
<1> QED
  BY <1>1, <1>2, <1>3, ContainerStep

-------------------------------------------------------------------------------
(* The invariant, and what follows from it.                                *)

\* The first state: every volume has a device of its own.
LEMMA InitIInv == Init => IInv
<1> SUFFICES ASSUME Init PROVE IInv
  OBVIOUS
<1>1. /\ staging \in [Vols -> Devices] /\ bind = staging
      /\ \A v, w \in Vols : v # w => staging[v] # staging[w]
  BY DEF Init
<1>2. of = [d \in Devices |-> IF \E v \in Vols : staging[v] = d
                             THEN CHOOSE v \in Vols : staging[v] = d ELSE None]
  BY DEF Init
<1>3. of \in [Devices -> Vols \cup {None}]
  BY <1>2
<1>4. \A v \in Vols : of[staging[v]] = v
  <2> TAKE v \in Vols
  <2>1. of[staging[v]] = CHOOSE u \in Vols : staging[u] = staging[v]
    BY <1>1, <1>2
  <2>2. (CHOOSE u \in Vols : staging[u] = staging[v]) = v
    BY <1>1
  <2> QED
    BY <2>1, <2>2
<1>5. gor \in [Vols -> Goroutine] /\ \A v \in Vols : gor[v] = Idle
  BY IdleType DEF Init
<1>6. /\ cm \in [Containers -> [Vols -> Mount \cup {Host}]]
      /\ \A c \in Containers, w \in Vols : cm[c][w] = None
  BY DEF Init, NoMounts, Mount
<1>7. TypeOK
  <2>1. staging \in [Vols -> Mount] /\ bind \in [Vols -> Mount]
    BY <1>1 DEF Mount
  <2>2. alive = {staging[v] : v \in Vols}
    BY DEF Init
  <2>3. alive \subseteq Devices
    BY <1>1, <2>2
  <2>4. running \subseteq Containers /\ misled \in BOOLEAN
    BY DEF Init
  <2> QED
    BY <1>3, <1>5, <1>6, <2>1, <2>3, <2>4 DEF TypeOK
<1>8. OwnMounts
  BY <1>1, <1>4, <1>5, IdleType, NoneNoDevice DEF OwnMounts
<1>9. SomeVolume
  BY <1>6, NoneNoDevice DEF SomeVolume
<1>10. Passing
  BY <1>5, IdleType DEF Passing
<1>11. Careful
  BY <1>5, IdleType, NoneNoDevice DEF Careful, OldIsDead, Listed, Doomed
<1> QED
  BY <1>7, <1>8, <1>9, <1>10, <1>11 DEF IInv

\* Every step keeps the invariant.
LEMMA NextIInv == IInv /\ [Next]_vars => IInv'
<1> SUFFICES ASSUME IInv, [Next]_vars PROVE IInv'
  OBVIOUS
<1>1. ASSUME NEW v \in Vols, Step(v) \/ Fails(v)
      PROVE  IInv'
  BY <1>1, DetachKeeps, StageKeeps, RebindKeeps, EndPassKeeps, EntryKeeps, SwapKeeps, ScanKeeps,
     SwapFailsKeeps, RecoverFailsKeeps
     DEF Step, Fails
<1>2. ASSUME NEW v \in Vols,
             Recover(v) \/ Retry(v) \/ Repair(v) \/ ServiceReaps(v) \/ Restage(v)
      PROVE  IInv'
  BY <1>2, RecoverKeeps, RepairKeeps, ServiceReapsKeeps, RestageKeeps
<1>3. ASSUME NEW d \in Devices, WeedDies(d)
      PROVE  IInv'
  BY <1>3, WeedDiesKeeps
<1>4. ASSUME NEW c \in Containers, ContainerStarts(c) \/ ContainerExits(c)
      PROVE  IInv'
  BY <1>4, ContainerStartsKeeps, ContainerExitsKeeps
<1>5. CASE UNCHANGED vars
  BY <1>5 DEF vars, IInv, TypeOK, OwnMounts, SomeVolume, Passing, Careful, OldIsDead, Listed,
              Doomed, Dead
<1> QED
  BY <1>1, <1>2, <1>3, <1>4, <1>5 DEF Next

\* The mounts of a volume show the volume, and as long as no recovery looked
\* for a device in use, the mounts a goroutine has listed are still its
\* volume's and the one it is about to replace is dead.
THEOREM RemountInvariance == Spec => []IInv
<1>1. IInv /\ UNCHANGED vars => IInv'
  BY NextIInv
<1> QED
  BY InitIInv, NextIInv, <1>1, PTL DEF Spec

\* Every reachable state has the types ContainerRemount declares.
THEOREM RemountTypeCorrect == Spec => []TypeOK
<1>1. IInv => TypeOK
  BY DEF IInv
<1> QED
  BY RemountInvariance, <1>1, PTL

\* A goroutine leaves the replacement of a mount only by remountViaSetns.
LEMMA OnlySwapReplaces ==
  ASSUME IInv, [Next]_vars, NEW v \in Vols, gor[v].pc = "swap", gor'[v].pc # "swap"
  PROVE  Swap(v) \/ SwapFails(v)
<1>1. gor \in [Vols -> Goroutine]
  BY DEF IInv, TypeOK
<1>2. gor'[v] # gor[v]
  OBVIOUS
<1>3. ASSUME NEW u \in Vols,
             Step(u) \/ Fails(u) \/ Recover(u) \/ Retry(u) \/ Repair(u) \/ ServiceReaps(u)
               \/ Restage(u)
      PROVE  Swap(v) \/ SwapFails(v)
  <2>1. CASE Swap(u) \/ SwapFails(u)
    BY <1>1, <1>2, <2>1 DEF Swap, SwapFails, EntryDone
  <2>2. CASE Detach(u) \/ Stage(u) \/ Rebind(u) \/ EndPass(u)
    BY <1>1, <1>2, <2>2 DEF Detach, Stage, Rebind, EndPass
  <2>3. CASE Entry(u)
    BY <1>1, <1>2, <2>3 DEF Entry
  <2>4. ASSUME NEW c \in Containers, Scan(u, c) PROVE FALSE
    BY <1>1, <1>2, <2>4 DEF Scan
  <2>5. CASE RecoverFails(u) \/ Recover(u) \/ Retry(u) \/ Repair(u)
    BY <1>1, <1>2, <2>5 DEF RecoverFails, Recover, Retry, Repair
  <2>6. CASE ServiceReaps(u) \/ Restage(u)
    BY <1>2, <2>6 DEF ServiceReaps, Restage
  <2> QED
    BY <1>3, <2>1, <2>2, <2>3, <2>4, <2>5, <2>6 DEF Step, Fails
<1>4. ASSUME NEW d \in Devices, WeedDies(d) PROVE FALSE
  BY <1>2, <1>4 DEF WeedDies
<1>5. ASSUME NEW c \in Containers, ContainerStarts(c) \/ ContainerExits(c) PROVE FALSE
  BY <1>2, <1>5 DEF ContainerStarts, ContainerExits
<1>6. CASE UNCHANGED vars
  BY <1>2, <1>6 DEF vars
<1> QED
  BY <1>3, <1>4, <1>5, <1>6 DEF Next

\* A mount in a container is replaced only when its weed is gone
\* (remountViaSetns), whatever the goroutines of other volumes, the weeds and
\* the containers do meanwhile, as long as no recovery looked for a device
\* that was in use.
THEOREM RemountTakesOnlyDeadCorrect == Spec => RemountTakesOnlyDead
<1> DEFINE Takes == ~misled => \A v, w \in Vols, c \in Containers :
                       Replaces(v, c, w) => Dead(cm[c][w])
<1>1. ASSUME IInv, [Next]_vars PROVE Takes
  <2> SUFFICES ASSUME ~misled, NEW v \in Vols, NEW w \in Vols, NEW c \in Containers,
                      Replaces(v, c, w)
               PROVE  Dead(cm[c][w])
    OBVIOUS
  <2>1. gor[v].pc = "swap" /\ gor'[v].pc # "swap" /\ cm'[c][w] # cm[c][w]
    BY DEF Replaces
  <2>2. Swap(v) \/ SwapFails(v)
    BY <1>1, <2>1, OnlySwapReplaces
  <2>3. /\ cm \in [Containers -> [Vols -> Mount \cup {Host}]]
        /\ gor[v].at \in Containers /\ gor[v].on \in Vols
    BY <1>1, <2>1, Locals DEF IInv, TypeOK
  <2>4. c = gor[v].at /\ w = gor[v].on /\ gor[v].at \in running
    BY <2>1, <2>2, <2>3 DEF Swap, SwapFails
  <2>5. Doomed(v)
    BY <1>1 DEF IInv, Careful
  <2> QED
    BY <2>1, <2>4, <2>5 DEF Doomed
<1>2. IInv /\ [Next]_vars => [Takes]_vars
  BY <1>1
<1> HIDE DEF Takes
<1>3. Spec => [][Takes]_vars
  BY RemountInvariance, <1>2, PTL DEF Spec
<1> QED
  BY <1>3 DEF Takes, RemountTakesOnlyDead
===============================================================================
