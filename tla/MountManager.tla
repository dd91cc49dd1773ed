----------------------------- MODULE MountManager -----------------------------
(***************************************************************************)
(* The mount service: mountmanager.Manager serving concurrent /mount and   *)
(* /unmount requests, the goroutine wait() that supervises every weed      *)
(* mount process, the goroutine watchProcessExit of every registered       *)
(* entry, and the kernel's mount table at the target paths.                *)
(*                                                                         *)
(* A request runs in its own goroutine (a member of Callers) and its steps *)
(* interleave with everything else; it holds its volume's mutex from       *)
(* Acquire until it returns.  Timeouts (the 10 s of waitForMount, the 5 s  *)
(* and 1 s of stop) may fire at any time.  A request's answer carries no   *)
(* state, so a success and a failure that leave the same state behind are  *)
(* one step here.                                                          *)
(***************************************************************************)
EXTENDS Naturals, Sequences, FiniteSets

CONSTANTS Volumes,    \* volume ids
          Targets,    \* target (staging) paths
          TargetsOf,  \* the target paths requests name for a volume
          Callers,    \* request goroutines
          Procs,      \* weed mount process identities, reused once forgotten
          Weeds,      \* weed versions; a restart may bring another one
          None        \* "no process", "no volume", "no target"

\* kubelet derives a staging path from the volume id, so two volumes never
\* share one.
ASSUME TargetsAssumption ==
  /\ TargetsOf \in [Volumes -> SUBSET Targets]
  /\ \A v, w \in Volumes : v # w => TargetsOf[v] \cap TargetsOf[w] = {}

ASSUME NoneAssumption == None \notin Procs \cup Volumes \cup Targets

VARIABLES
  call,       \* call[c]: where request goroutine c is, and its locals
  entries,    \* Manager.mounts: the registered process of a volume, or None
  locks,      \* Manager.locks: which mutex object a volume id maps to
  watchers,   \* <<v, p>>: a watchProcessExit goroutine waiting for p
  proc,       \* proc[p]: the life of weed mount process p
  stack,      \* stack[t]: the FUSE mounts at path t, topmost first
  instances,  \* instances[v]: the instance cache directories in v's cacheDir
  weed        \* the version of the service's weed binary

vars == <<call, entries, locks, watchers, proc, stack, instances, weed>>

-------------------------------------------------------------------------------
(* State: mountEntry and weedMountProcess, and the request's locals.       *)

\* A process is "starting" until its mount is up, "serving" while it runs
\* with its mount up, "dead" once it no longer runs (it ended, or was killed),
\* "exited" once cmd.Wait has returned and the exited channel is closed, and
\* "done" once wait() has cleaned up the target and closed the done channel.
\* Wait may return up to outputWaitDelay after the death.
States == {"none", "starting", "serving", "dead", "exited", "done"}
Process == [st : States, vol : Volumes \cup {None}, tgt : Targets \cup {None}]

PCs == {"idle", "lock", "mount", "unmount", "await", "clean", "start", "wait",
        "awaitExit", "term", "kill", "record", "remove"}
Call == [pc : PCs, op : {"mount", "unmount"}, vol : Volumes \cup {None},
         tgt : Targets \cup {None}, proc : Procs \cup {None}, lock : Nat]
Idle == [pc |-> "idle", op |-> "mount", vol |-> None, tgt |-> None,
         proc |-> None, lock |-> 0]

Init ==
  /\ call = [c \in Callers |-> Idle]
  /\ entries = [v \in Volumes |-> None]
  /\ locks = [v \in Volumes |-> 0]
  /\ watchers = {}
  /\ proc = [p \in Procs |-> [st |-> "none", vol |-> None, tgt |-> None]]
  /\ stack = [t \in Targets |-> <<>>]
  /\ instances = [v \in Volumes |-> {}]
  /\ weed \in Weeds

Live(p) == proc[p].st \in {"starting", "serving"}
Exited(p) == proc[p].st \in {"exited", "done"}
Done(p) == proc[p].st = "done"
Mounted(t) == stack[t] # <<>>
Corrupted(t) == Mounted(t) /\ ~Live(Head(stack[t]))

\* Request r holds the mutex it got.
Holds(r) == r.pc \notin {"idle", "lock"}

\* Request r is waiting for a process: it was started, is being stopped, or
\* is known to have exited.
Waiting(r) ==
  r.pc \in {"await", "wait", "awaitExit", "term", "kill", "record", "remove"}

\* Request r owns a process it has started and not yet registered.
Starting(r) ==
  /\ r.op = "mount"
  /\ r.pc \in {"wait", "awaitExit", "term", "kill", "record"}

\* The service still knows of p: it is registered, or a request is starting it.
Supervised(p) ==
  \/ \E v \in Volumes : entries[v] = p
  \/ \E c \in Callers : Starting(call[c]) /\ call[c].proc = p

\* Nothing refers to the identity p any more, so a new process may take it.
Free(p) ==
  /\ proc[p].st \in {"none", "done"}
  /\ \A v \in Volumes : entries[v] # p /\ <<v, p>> \notin watchers
  /\ \A c \in Callers : call[c].proc # p
  /\ \A t \in Targets : \A i \in DOMAIN stack[t] : stack[t][i] # p

Goto(c, l) == call' = [call EXCEPT ![c].pc = l]
Return(c) == call' = [call EXCEPT ![c] = Idle]
Unmount1(t) == IF Mounted(t) THEN [stack EXCEPT ![t] = Tail(@)] ELSE stack

-------------------------------------------------------------------------------
(* Plausible bugs, used only to show that the properties can fail.         *)

\* removeMount that also forgets the volume's mutex.
RemoveMountBug(v) ==
  /\ entries' = [entries EXCEPT ![v] = None]
  /\ locks' = [locks EXCEPT ![v] = (@ + 1) % 4]

\* watchProcessExit without the identity check.
WatchMatchesBug(v, p) == entries[v] # None

\* Mount that starts a fresh process as soon as the old one has exited,
\* leaving the entry to the watcher.
MountStaleBug(c) ==
  /\ call[c].pc = "mount"
  /\ entries[call[c].vol] # None
  /\ Exited(entries[call[c].vol])
  /\ Goto(c, "clean")
  /\ UNCHANGED <<entries, locks, watchers, proc, stack, instances, weed>>

\* Mount that ignores an entry whose target is not the requested one.
MountFreshBug(c) ==
  /\ call[c].pc = "mount"
  /\ LET p == entries[call[c].vol]
     IN p = None \/ (p # None /\ proc[p].tgt # call[c].tgt)
  /\ Goto(c, "clean")
  /\ UNCHANGED <<entries, locks, watchers, proc, stack, instances, weed>>

\* Unmount without the check that there is an entry.
UnmountStopNilBug(c) ==
  /\ call[c].pc = "unmount"
  /\ call' = [call EXCEPT ![c].pc = "term", ![c].proc = entries[call[c].vol]]
  /\ UNCHANGED <<entries, locks, watchers, proc, stack, instances, weed>>

\* Unmount that removes the cache directory before it stops the process.
UnmountStopBug(c) ==
  /\ call[c].pc = "unmount"
  /\ entries[call[c].vol] # None
  /\ call' = [call EXCEPT ![c].pc = "term", ![c].proc = entries[call[c].vol]]
  /\ instances' = [instances EXCEPT ![call[c].vol] = {}]
  /\ UNCHANGED <<entries, locks, watchers, proc, stack, weed>>

\* wait() that skips closing done when there is nothing left to unmount.
WaitCleanupBug(p) ==
  /\ proc[p].st = "exited"
  /\ Mounted(proc[p].tgt)
  /\ stack' = Unmount1(proc[p].tgt)
  /\ proc' = [proc EXCEPT ![p].st = "done"]
  /\ UNCHANGED <<call, entries, locks, watchers, instances, weed>>

\* Mount that forgets to start watchProcessExit.
RecordBug(c) ==
  /\ call[c].pc = "record"
  /\ entries' = [entries EXCEPT ![call[c].vol] = call[c].proc]
  /\ Return(c)
  /\ UNCHANGED <<locks, watchers, proc, stack, instances, weed>>

-------------------------------------------------------------------------------
(* Requests: Manager.Mount and Manager.Unmount.                            *)

\* locks.get: the mutex object the volume id maps to now.
LockGet(v) == locks[v]

\* removeMount: forgets the entry and, deliberately, keeps the mutex.
RemoveMount(v) ==
  /\ entries' = [entries EXCEPT ![v] = None]
  /\ UNCHANGED locks

\* A valid /mount request arrives; one that validateMountRequest refuses
\* changes nothing.
MountCall(c, v, t) ==
  /\ call[c].pc = "idle"
  /\ t \in TargetsOf[v]
  /\ call' = [call EXCEPT ![c] = [pc |-> "lock", op |-> "mount", vol |-> v,
                                  tgt |-> t, proc |-> None, lock |-> LockGet(v)]]
  /\ UNCHANGED <<entries, locks, watchers, proc, stack, instances, weed>>

UnmountCall(c, v) ==
  /\ call[c].pc = "idle"
  /\ call' = [call EXCEPT ![c] = [pc |-> "lock", op |-> "unmount", vol |-> v,
                                  tgt |-> None, proc |-> None, lock |-> LockGet(v)]]
  /\ UNCHANGED <<entries, locks, watchers, proc, stack, instances, weed>>

\* No other request holds the mutex object c got.
LockFree(c) ==
  \A d \in Callers \ {c} :
    ~(Holds(call[d]) /\ call[d].vol = call[c].vol /\ call[d].lock = call[c].lock)

Acquire(c) ==
  /\ call[c].pc = "lock"
  /\ LockFree(c)
  /\ Goto(c, call[c].op)
  /\ UNCHANGED <<entries, locks, watchers, proc, stack, instances, weed>>

\* Mount finds no entry.
MountFresh(c) ==
  /\ call[c].pc = "mount"
  /\ entries[call[c].vol] = None
  /\ Goto(c, "clean")
  /\ UNCHANGED <<entries, locks, watchers, proc, stack, instances, weed>>

\* Mount finds the entry of a process that has not exited: it answers
\* "already mounted", as a success at the same target and an error at another.
MountAlready(c) ==
  /\ call[c].pc = "mount"
  /\ entries[call[c].vol] # None
  /\ ~Exited(entries[call[c].vol])
  /\ Return(c)
  /\ UNCHANGED <<entries, locks, watchers, proc, stack, instances, weed>>

\* Mount finds the entry of a process that has exited, and waits for wait()
\* to finish with the target.
MountStale(c) ==
  /\ call[c].pc = "mount"
  /\ entries[call[c].vol] # None
  /\ Exited(entries[call[c].vol])
  /\ call' = [call EXCEPT ![c].pc = "await", ![c].proc = entries[call[c].vol]]
  /\ UNCHANGED <<entries, locks, watchers, proc, stack, instances, weed>>

MountReplace(c) ==
  /\ call[c].pc = "await"
  /\ Done(call[c].proc)
  /\ RemoveMount(call[c].vol)
  /\ call' = [call EXCEPT ![c].pc = "clean", ![c].proc = None]
  /\ UNCHANGED <<watchers, proc, stack, instances, weed>>

\* startMount gives up before a process exists: filterMountArgs refuses a
\* required flag, ensureTargetClean or MkdirAll fails, or cmd.Start fails.
StartFails(c) ==
  /\ call[c].pc \in {"clean", "start"}
  /\ Return(c)
  /\ UNCHANGED <<entries, locks, watchers, proc, stack, instances, weed>>

\* ensureTargetClean: whatever is mounted at the target is unmounted, one
\* mount deep.
EnsureTargetClean(c) ==
  /\ call[c].pc = "clean"
  /\ stack' = Unmount1(call[c].tgt)
  /\ Goto(c, "start")
  /\ UNCHANGED <<entries, locks, watchers, proc, instances, weed>>

\* cmd.Start and go process.wait().
StartProcess(c, p) ==
  /\ call[c].pc = "start"
  /\ Free(p)
  /\ proc' = [proc EXCEPT ![p] = [st |-> "starting", vol |-> call[c].vol,
                                  tgt |-> call[c].tgt]]
  /\ call' = [call EXCEPT ![c].pc = "wait", ![c].proc = p]
  /\ UNCHANGED <<entries, locks, watchers, stack, instances, weed>>

\* waitForMount returns: the path is a mount point (whoever mounted it), it
\* is a corrupted one, the process exited, or the time is up.
WaitForMount(c) ==
  /\ call[c].pc = "wait"
  /\ LET t == call[c].tgt
     IN \/ Mounted(t) /\ ~Corrupted(t) /\ Goto(c, "record")
        \/ Corrupted(t) /\ Goto(c, "term")
        \/ ~Mounted(t) /\ Exited(call[c].proc) /\ Goto(c, "awaitExit")
        \/ ~Mounted(t) /\ ~Exited(call[c].proc) /\ Goto(c, "term")
  /\ UNCHANGED <<entries, locks, watchers, proc, stack, instances, weed>>

\* The process exited before its mount came up: wait for done, then fail.
StartExited(c) ==
  /\ call[c].pc = "awaitExit"
  /\ Done(call[c].proc)
  /\ Return(c)
  /\ UNCHANGED <<entries, locks, watchers, proc, stack, instances, weed>>

\* The instance directories of v that a running process holds open: weed
\* keeps one per version.
HeldInstances(v) ==
  {w \in {weed} : \E q \in Procs : proc[q].vol = v /\ proc[q].st = "serving"}

\* The mount is up: removeUnheldInstanceCaches keeps only the instance
\* directories a running process of this volume holds open; then the entry
\* is recorded and its watcher started.
Record(c) ==
  /\ call[c].pc = "record"
  /\ LET v == call[c].vol
         p == call[c].proc
     IN /\ instances' = [instances EXCEPT ![v] = @ \cap HeldInstances(v)]
        /\ entries' = [entries EXCEPT ![v] = p]
        /\ watchers' = watchers \cup {<<v, p>>}
  /\ Return(c)
  /\ UNCHANGED <<locks, proc, stack, weed>>

\* stop(): done is closed within the grace period, or after the kill; or
\* neither, and stop fails.  A failed start ignores the failure and forgets
\* the process; Unmount reports it and keeps the entry.
StopDone(c) ==
  /\ call[c].pc \in {"term", "kill"}
  /\ Done(call[c].proc)
  /\ IF call[c].op = "mount" THEN Return(c) ELSE Goto(c, "remove")
  /\ UNCHANGED <<entries, locks, watchers, proc, stack, instances, weed>>

StopKill(c) ==
  /\ call[c].pc = "term"
  /\ ~Done(call[c].proc)
  /\ proc' = IF Live(call[c].proc) THEN [proc EXCEPT ![call[c].proc].st = "dead"]
             ELSE proc
  /\ Goto(c, "kill")
  /\ UNCHANGED <<entries, locks, watchers, stack, instances, weed>>

StopFails(c) ==
  /\ call[c].pc = "kill"
  /\ ~Done(call[c].proc)
  /\ Return(c)
  /\ UNCHANGED <<entries, locks, watchers, proc, stack, instances, weed>>

\* Unmount of a volume without an entry succeeds at once.
UnmountNothing(c) ==
  /\ call[c].pc = "unmount"
  /\ entries[call[c].vol] = None
  /\ Return(c)
  /\ UNCHANGED <<entries, locks, watchers, proc, stack, instances, weed>>

UnmountStop(c) ==
  /\ call[c].pc = "unmount"
  /\ entries[call[c].vol] # None
  /\ call' = [call EXCEPT ![c].pc = "term", ![c].proc = entries[call[c].vol]]
  /\ UNCHANGED <<entries, locks, watchers, proc, stack, instances, weed>>

\* The process is stopped: its cache directory is removed (or fails to be,
\* which is only logged) and the entry forgotten.
UnmountRemove(c) ==
  /\ call[c].pc = "remove"
  /\ \/ instances' = [instances EXCEPT ![call[c].vol] = {}]
     \/ UNCHANGED instances
  /\ RemoveMount(call[c].vol)
  /\ Return(c)
  /\ UNCHANGED <<watchers, proc, stack, weed>>

-------------------------------------------------------------------------------
(* Goroutines and processes of the service.                                *)

\* watchProcessExit: once p is done, drop the entry if it is still p's.
WatchMatches(v, p) == entries[v] = p

WatchProcessExit(v, p) ==
  /\ <<v, p>> \in watchers
  /\ Done(p)
  /\ watchers' = watchers \ {<<v, p>>}
  /\ entries' = IF WatchMatches(v, p) THEN [entries EXCEPT ![v] = None] ELSE entries
  /\ UNCHANGED <<call, locks, proc, stack, instances, weed>>

\* weed mounts its target and holds its instance directory open.
ProcessMounts(p) ==
  /\ proc[p].st = "starting"
  /\ proc' = [proc EXCEPT ![p].st = "serving"]
  /\ stack' = [stack EXCEPT ![proc[p].tgt] = <<p>> \o @]
  /\ instances' = [instances EXCEPT ![proc[p].vol] = @ \cup {weed}]
  /\ UNCHANGED <<call, entries, locks, watchers, weed>>

\* The process ends: it crashed, or obeys a signal.  A weed that ends in
\* good order has unmounted its own mount.
ProcessDies(p) ==
  /\ Live(p)
  /\ proc' = [proc EXCEPT ![p].st = "dead"]
  /\ \/ UNCHANGED stack
     \/ /\ Mounted(proc[p].tgt)
        /\ Head(stack[proc[p].tgt]) = p
        /\ stack' = Unmount1(proc[p].tgt)
  /\ UNCHANGED <<call, entries, locks, watchers, instances, weed>>

\* wait(): cmd.Wait returns and exited is closed ...
WaitReturns(p) ==
  /\ proc[p].st = "dead"
  /\ proc' = [proc EXCEPT ![p].st = "exited"]
  /\ UNCHANGED <<call, entries, locks, watchers, stack, instances, weed>>

\* ... and 100 ms later cleanupDeadMountPoint unmounts the target path and
\* done is closed.  The unmount may fail, which is only logged.
WaitCleanup(p) ==
  /\ proc[p].st = "exited"
  /\ stack' \in {stack, Unmount1(proc[p].tgt)}
  /\ proc' = [proc EXCEPT ![p].st = "done"]
  /\ UNCHANGED <<call, entries, locks, watchers, instances, weed>>

\* The node plugin unmounts a staging path behind the service's back.
PluginUnmount(t) ==
  /\ Mounted(t)
  /\ stack' = Unmount1(t)
  /\ UNCHANGED <<call, entries, locks, watchers, proc, instances, weed>>

\* The service restarts, perhaps with another weed: requests, entries and
\* goroutines are gone and the processes die with the container; their
\* mounts stay behind.
Restart ==
  /\ call' = [c \in Callers |-> Idle]
  /\ entries' = [v \in Volumes |-> None]
  /\ locks' = [v \in Volumes |-> 0]
  /\ watchers' = {}
  /\ proc' = [p \in Procs |-> [proc[p] EXCEPT !.st = "done"]]
  /\ weed' \in Weeds
  /\ UNCHANGED <<stack, instances>>

-------------------------------------------------------------------------------
\* What a goroutine does by itself once it holds the mutex.
Step(c) ==
  \/ MountFresh(c) \/ MountAlready(c) \/ MountStale(c) \/ MountReplace(c)
  \/ StartFails(c) \/ EnsureTargetClean(c) \/ (\E p \in Procs : StartProcess(c, p))
  \/ WaitForMount(c) \/ StartExited(c) \/ Record(c)
  \/ StopDone(c) \/ StopKill(c) \/ StopFails(c)
  \/ UnmountNothing(c) \/ UnmountStop(c) \/ UnmountRemove(c)

Next ==
  \/ \E c \in Callers, v \in Volumes : \E t \in Targets : MountCall(c, v, t)
  \/ \E c \in Callers, v \in Volumes : UnmountCall(c, v)
  \/ \E c \in Callers : Acquire(c) \/ Step(c)
  \/ \E v \in Volumes, p \in Procs : WatchProcessExit(v, p)
  \/ \E p \in Procs :
       ProcessMounts(p) \/ ProcessDies(p) \/ WaitReturns(p) \/ WaitCleanup(p)
  \/ \E t \in Targets : PluginUnmount(t)
  \/ Restart

Spec == Init /\ [][Next]_vars

\* A goroutine that can run does run, timers fire, Wait returns within
\* outputWaitDelay of a death, and a Go mutex does not starve a waiter.
\* Nothing is assumed of weed itself: it may serve, hang or die.
Fairness ==
  /\ \A c \in Callers : SF_vars(Acquire(c)) /\ WF_vars(Step(c))
  /\ \A p \in Procs : WF_vars(WaitReturns(p)) /\ WF_vars(WaitCleanup(p))
  /\ \A v \in Volumes, p \in Procs : WF_vars(WatchProcessExit(v, p))

FairSpec == Spec /\ Fairness

-------------------------------------------------------------------------------
(* Properties.                                                             *)

\* A request past its mutex has a volume, a Mount has a target, and a request
\* that waits for a process has one.
CallShape ==
  \A c \in Callers :
    /\ call[c].pc # "idle" => call[c].vol \in Volumes
    /\ call[c].pc # "idle" /\ call[c].op = "mount" => call[c].tgt \in Targets
    /\ Waiting(call[c]) => call[c].proc \in Procs

\* A process that has been started has a volume and a target.
ProcShape ==
  \A p \in Procs : proc[p].st \notin {"none", "done"} =>
    proc[p].vol \in Volumes /\ proc[p].tgt \in Targets

\* Every variable of the manager, its goroutines, its processes and the mount
\* table has its type; a request past its mutex has a volume, and one that
\* waits for a process has one (stop and wait never meet a nil process).
TypeOK ==
  /\ call \in [Callers -> Call]
  /\ entries \in [Volumes -> Procs \cup {None}]
  /\ locks \in [Volumes -> Nat]
  /\ watchers \subseteq Volumes \X Procs
  /\ proc \in [Procs -> Process]
  /\ stack \in [Targets -> Seq(Procs)]
  /\ instances \in [Volumes -> SUBSET Weeds]
  /\ weed \in Weeds
  /\ CallShape
  /\ ProcShape

\* Mount and Unmount of one volume never run at the same time: what
\* removeMount's comment says deleting the mutex would break.
Serialised ==
  \A c, d \in Callers :
    Holds(call[c]) /\ Holds(call[d]) /\ call[c].vol = call[d].vol => c = d

\* A running weed mount process is never forgotten: it is registered, or a
\* request is still starting it, so some Unmount can stop it.
NoForgottenProcess == \A p \in Procs : Live(p) => Supervised(p)

\* Two weed mount processes never run for one volume (they would share its
\* target, cache directory and socket), however Mount, Unmount, the watchers,
\* deaths and restarts interleave.
OneRunning ==
  \A p, q \in Procs : Live(p) /\ Live(q) /\ proc[p].vol = proc[q].vol => p = q

\* The cache of a registered process that is serving is never removed: not by
\* an Unmount whose stop failed, nor by the cleanup of other versions' caches.
ServingKeepsCache ==
  \A v \in Volumes :
    entries[v] # None /\ proc[entries[v]].st = "serving" => weed \in instances[v]

\* Every request returns: none waits for ever for a mutex, a channel or a
\* process, whatever weed does.
RequestsReturn == \A c \in Callers : (call[c].pc # "idle") ~> (call[c].pc = "idle")

\* The entry of a process that has died is dropped even if nobody calls
\* Unmount, so a later Mount is not told "already mounted" for ever.
StaleEntryDropped ==
  \A v \in Volumes, p \in Procs : (entries[v] = p /\ ~Live(p)) ~> (entries[v] # p)

\* The unmount that wait() makes after its process exited takes away only
\* "the mount point left behind by a weed mount process that has exited"
\* (cleanupDeadMountPoint): never the mount of a process that is running.
CleanupTakesOnlyDeadMounts ==
  [][\A p \in Procs :
       LET t == proc[p].tgt
       IN proc[p].st = "exited" /\ proc'[p].st = "done" /\ stack' # stack
            => Corrupted(t)]_vars

\* The mount service implements the slots of MountSlot.
Slots == INSTANCE MountSlot WITH
  slot <- [v \in Volumes |->
             IF entries[v] # None THEN entries[v]
             ELSE IF \E c \in Callers : Starting(call[c]) /\ call[c].vol = v
                  THEN call[CHOOSE c \in Callers : Starting(call[c]) /\ call[c].vol = v].proc
                  ELSE None],
  filled <- {v \in Volumes : entries[v] # None},
  finished <- {p \in Procs : Done(p)}

\* Each volume has one slot, a registered process leaves it only when it has
\* finished, and a slot is empty between two processes.
ImplementsSlots == Slots!Spec
===============================================================================
