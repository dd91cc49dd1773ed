------------------------------ MODULE MountSlot ------------------------------
(***************************************************************************)
(* What the mount service promises the node plugin, without locks, request *)
(* goroutines, watchers or the kernel: every volume has one slot.  A slot  *)
(* is empty, claimed by a weed mount process that is being started, or     *)
(* filled by a process the service has registered.  A claim may be given   *)
(* up at any time (the start failed), but a registered process leaves its  *)
(* slot only once it has finished, and no slot ever changes from one       *)
(* process to another without being empty in between.                      *)
(***************************************************************************)
CONSTANTS Volumes,  \* volume ids
          Procs,    \* weed mount process identities
          None      \* no process

VARIABLES slot,      \* slot[v]: the process claiming or filling v's slot
          filled,    \* the volumes whose process is registered
          finished   \* the processes that exited and whose target was cleaned up

vars == <<slot, filled, finished>>

Init ==
  /\ slot = [v \in Volumes |-> None]
  /\ filled = {}
  /\ finished = {}

\* A Mount request starts process p for the empty slot of v.
Claim(v, p) ==
  /\ slot[v] = None
  /\ \A w \in Volumes : slot[w] # p
  /\ slot' = [slot EXCEPT ![v] = p]
  /\ finished' = finished \ {p}
  /\ UNCHANGED filled

\* The mount came up: the process is registered for v.
Fill(v) ==
  /\ slot[v] # None
  /\ filled' = filled \cup {v}
  /\ UNCHANGED <<slot, finished>>

\* The start failed: the claim is given up, whatever became of the process.
GiveUp(v) ==
  /\ slot[v] # None
  /\ v \notin filled
  /\ slot' = [slot EXCEPT ![v] = None]
  /\ UNCHANGED <<filled, finished>>

\* A registered process leaves its slot, after it has finished.
Vacate(v) ==
  /\ v \in filled
  /\ slot[v] \in finished
  /\ slot' = [slot EXCEPT ![v] = None]
  /\ filled' = filled \ {v}
  /\ UNCHANGED finished

Finish(p) ==
  /\ finished' = finished \cup {p}
  /\ UNCHANGED <<slot, filled>>

\* The service restarts: its processes die with it and its memory is lost.
Reset ==
  /\ slot' = [v \in Volumes |-> None]
  /\ filled' = {}
  /\ finished' = Procs

Next ==
  \/ \E v \in Volumes, p \in Procs : Claim(v, p)
  \/ \E v \in Volumes : Fill(v) \/ GiveUp(v) \/ Vacate(v)
  \/ \E p \in Procs : Finish(p)
  \/ Reset

Spec == Init /\ [][Next]_vars
==============================================================================
