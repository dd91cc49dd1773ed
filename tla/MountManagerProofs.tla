-------------------------- MODULE MountManagerProofs --------------------------
(***************************************************************************)
(* Proofs about MountManager, for any volumes, paths, requests, processes  *)
(* and versions.  The inductive invariant IInv says what each request may  *)
(* rely on at each point of its program (CallInv), that an entry belongs   *)
(* to its volume, that the mutex of a volume is never replaced and so      *)
(* excludes, and that no running process is forgotten.                     *)
(***************************************************************************)
EXTENDS MountManager, TLAPS

\* What request r may rely on:
\*  - it has the volume, target and process its program counter needs;
\*  - while it starts a process, or is about to, the volume has no entry, and
\*    the process it starts is one of its volume;
\*  - while it replaces or stops a registered process only the watcher can
\*    have removed the entry, it leaves the wait when the process is done, and
\*    after the kill the process no longer runs.
CallInv(r) ==
  /\ r \in Call
  /\ r.lock = 0
  /\ r.pc # "idle" => r.vol \in Volumes
  /\ r.pc # "idle" /\ r.op = "mount" => r.tgt \in Targets
  /\ Waiting(r) => r.proc \in Procs
  /\ r.pc \in {"mount", "await", "clean", "start", "wait", "awaitExit", "record"}
       => r.op = "mount"
  /\ r.pc \in {"unmount", "remove"} => r.op = "unmount"
  /\ r.pc \in {"clean", "start"} \/ Starting(r) => entries[r.vol] = None
  /\ Starting(r) => proc[r.proc].vol = r.vol /\ proc[r.proc].st # "none"
  /\ r.pc = "await" \/ (Waiting(r) /\ r.op = "unmount")
       => entries[r.vol] \in {None, r.proc}
  /\ r.pc = "remove" => Done(r.proc)
  /\ r.pc = "kill" => ~Live(r.proc)

CallsInv == call \in [Callers -> Call] /\ \A c \in Callers : CallInv(call[c])

\* The mutex of a volume is never replaced.
OneMutex == locks = [v \in Volumes |-> 0]

\* An entry is the entry of a process of that volume.
EntriesMatch ==
  \A v \in Volumes :
    entries[v] # None => proc[entries[v]].vol = v /\ proc[entries[v]].st # "none"

\* The types of the variables other than call and locks.
OtherTypes ==
  /\ entries \in [Volumes -> Procs \cup {None}]
  /\ watchers \subseteq Volumes \X Procs
  /\ proc \in [Procs -> Process]
  /\ stack \in [Targets -> Seq(Procs)]
  /\ instances \in [Volumes -> SUBSET Weeds]
  /\ weed \in Weeds
  /\ ProcShape

IInv ==
  /\ OtherTypes /\ CallsInv /\ OneMutex /\ Serialised
  /\ EntriesMatch /\ NoForgottenProcess

\* The variables other than call.
rest == <<entries, locks, watchers, proc, stack, instances, weed>>

-------------------------------------------------------------------------------
(* Lemmas.                                                                 *)

\* The invariant gives the types.
LEMMA IInvTypes == IInv => TypeOK
  BY DEF IInv, OtherTypes, CallsInv, CallInv, OneMutex, TypeOK, CallShape

\* An unmount leaves a mount table.
LEMMA UnmountType ==
  ASSUME stack \in [Targets -> Seq(Procs)], NEW t
  PROVE  Unmount1(t) \in [Targets -> Seq(Procs)]
<1>1. CASE t \in Targets /\ Mounted(t)
  <2>1. stack[t] \in Seq(Procs) /\ stack[t] # <<>>
    BY <1>1 DEF Mounted
  <2>2. Tail(stack[t]) \in Seq(Procs)
    BY <2>1
  <2> QED
    BY <1>1, <2>2 DEF Unmount1
<1>2. CASE t \notin Targets
  BY <1>2 DEF Unmount1
<1>3. CASE ~Mounted(t)
  BY <1>3 DEF Unmount1
<1> QED
  BY <1>1, <1>2, <1>3

\* A step that leaves the other variables alone keeps their types.
LEMMA RestTypes ==
  ASSUME IInv, UNCHANGED rest
  PROVE  UNCHANGED <<entries, locks, proc>> /\ OtherTypes'
  BY DEF IInv, OtherTypes, ProcShape, rest

\* A step of request c alone: if c's new record r satisfies CallInv, c keeps
\* the mutex or does without it, and c does not let go of a running process
\* it was starting, the invariant is kept.
LEMMA CallStep ==
  ASSUME IInv, UNCHANGED <<entries, locks, proc>>, OtherTypes', NEW c \in Callers, NEW r,
         call' = [call EXCEPT ![c] = r],
         CallInv(r),
         Holds(r) => \A d \in Callers : d # c /\ Holds(call[d]) => call[d].vol # r.vol,
         Starting(call[c]) /\ Live(call[c].proc)
           => Starting(r) /\ r.proc = call[c].proc
  PROVE  IInv'
<1>1. r \in Call
  BY DEF CallInv
<1>2. /\ call' \in [Callers -> Call]
      /\ call'[c] = r
      /\ \A d \in Callers : d # c => call'[d] = call[d]
  BY <1>1 DEF IInv, CallsInv
<1>3. OneMutex' /\ EntriesMatch'
  BY DEF IInv, OneMutex, EntriesMatch
<1>4. \A d \in Callers : CallInv(call'[d])
  BY <1>2 DEF IInv, CallsInv
<1>5. CallsInv'
  BY <1>2, <1>4 DEF CallsInv, CallInv, Done, Live, Waiting, Starting
<1>6. Serialised'
  BY <1>2 DEF IInv, Serialised, Holds
<1>7. NoForgottenProcess'
  BY <1>2 DEF IInv, NoForgottenProcess, Supervised, Live
<1> QED
  BY <1>3, <1>5, <1>6, <1>7 DEF IInv

\* Request c, which holds the mutex, moves to program counter l.
LEMMA GotoStep ==
  ASSUME IInv, UNCHANGED <<entries, locks, proc>>, OtherTypes', NEW c \in Callers, NEW l,
         Goto(c, l),
         Holds(call[c]),
         CallInv([call[c] EXCEPT !.pc = l]),
         Starting(call[c]) /\ Live(call[c].proc)
           => Starting([call[c] EXCEPT !.pc = l])
  PROVE  IInv'
<1> DEFINE r == [call[c] EXCEPT !.pc = l]
<1>1. call' = [call EXCEPT ![c] = r]
  BY DEF Goto
<1>2. call[c] \in Call
  BY DEF IInv, CallsInv
<1>3. r.vol = call[c].vol /\ r.proc = call[c].proc
  BY <1>2 DEF Call
<1>4. \A d \in Callers : d # c /\ Holds(call[d]) => call[d].vol # r.vol
  BY <1>3 DEF IInv, Serialised
<1> HIDE DEF r
<1>5. CallInv(r) /\ (Starting(call[c]) /\ Live(call[c].proc) => Starting(r))
  BY DEF r
<1> QED
  BY <1>1, <1>3, <1>4, <1>5, CallStep

\* Request c returns, not letting go of a running process.
LEMMA ReturnStep ==
  ASSUME IInv, UNCHANGED rest, NEW c \in Callers, Return(c),
         Starting(call[c]) => ~Live(call[c].proc)
  PROVE  IInv'
<1>1. CallInv(Idle)
  BY DEF CallInv, Idle, Call, PCs, Waiting, Starting
<1>2. ~Holds(Idle)
  BY DEF Holds, Idle
<1> QED
  BY <1>1, <1>2, CallStep, RestTypes DEF Return

\* Request c, which is not starting a process, moves on with process p.
LEMMA TakeStep ==
  ASSUME IInv, UNCHANGED rest, NEW c \in Callers, NEW l, NEW p,
         call' = [call EXCEPT ![c].pc = l, ![c].proc = p],
         Holds(call[c]), ~Starting(call[c]),
         CallInv([call[c] EXCEPT !.pc = l, !.proc = p])
  PROVE  IInv'
<1> DEFINE r == [call[c] EXCEPT !.pc = l, !.proc = p]
<1>1. call' = [call EXCEPT ![c] = r]
  OBVIOUS
<1>2. call[c] \in Call
  BY DEF IInv, CallsInv
<1>3. r.vol = call[c].vol
  BY <1>2 DEF Call
<1>4. \A d \in Callers : d # c /\ Holds(call[d]) => call[d].vol # r.vol
  BY <1>3 DEF IInv, Serialised
<1> HIDE DEF r
<1>5. CallInv(r)
  BY DEF r
<1> QED
  BY <1>1, <1>4, <1>5, CallStep, RestTypes

-------------------------------------------------------------------------------
(* The steps of a request that change nothing but the request.             *)

\* A new request.
LEMMA CallKeeps ==
  ASSUME IInv, NEW c \in Callers, NEW v \in Volumes,
         (\E t \in Targets : MountCall(c, v, t)) \/ UnmountCall(c, v)
  PROVE  IInv'
<1>1. UNCHANGED rest
  BY DEF MountCall, UnmountCall, rest
<1>2. LockGet(v) = 0 /\ ~Starting(call[c])
  BY DEF MountCall, UnmountCall, LockGet, Starting, IInv, OneMutex
<1>3. PICK r : /\ call' = [call EXCEPT ![c] = r]
               /\ \/ \E t \in Targets :
                        r = [pc |-> "lock", op |-> "mount", vol |-> v, tgt |-> t,
                             proc |-> None, lock |-> 0]
                  \/ r = [pc |-> "lock", op |-> "unmount", vol |-> v, tgt |-> None,
                          proc |-> None, lock |-> 0]
  BY <1>2 DEF MountCall, UnmountCall
<1>4. CallInv(r) /\ ~Holds(r)
  BY <1>3 DEF CallInv, Call, PCs, Waiting, Starting, Holds
<1> QED
  BY <1>1, <1>2, <1>3, <1>4, CallStep, RestTypes

\* A request enters the critical section: nobody of its volume is inside.
LEMMA AcquireKeeps ==
  ASSUME IInv, NEW c \in Callers, Acquire(c)
  PROVE  IInv'
<1> DEFINE r == [call[c] EXCEPT !.pc = call[c].op]
<1>1. CallInv(call[c]) /\ call[c] \in Call /\ call[c].pc = "lock"
  BY DEF IInv, CallsInv, Acquire
<1>2. UNCHANGED rest /\ call' = [call EXCEPT ![c] = r] /\ ~Starting(call[c])
  BY DEF Acquire, Goto, rest, Starting
<1>3. CallInv(r)
  BY <1>1 DEF CallInv, Call, PCs, Waiting, Starting
<1>4. \A d \in Callers : CallInv(call[d])
  BY DEF IInv, CallsInv
<1>5. r.vol = call[c].vol
  BY <1>1 DEF Call
<1>6. \A d \in Callers : d # c /\ Holds(call[d]) => call[d].vol # r.vol
  BY <1>1, <1>4, <1>5 DEF Acquire, LockFree, CallInv
<1> HIDE DEF r
<1> QED
  BY <1>2, <1>3, <1>6, CallStep, RestTypes

\* Mount looks at the entry it finds.
LEMMA MountChecksKeep ==
  ASSUME IInv, NEW c \in Callers,
         MountFresh(c) \/ MountAlready(c) \/ MountStale(c)
  PROVE  IInv'
<1>1. CallInv(call[c]) /\ call[c].pc = "mount" /\ UNCHANGED rest
  BY DEF IInv, CallsInv, MountFresh, MountAlready, MountStale, rest
<1>2. Holds(call[c]) /\ ~Starting(call[c])
  BY <1>1 DEF Holds, Starting
<1>3. CASE MountFresh(c)
  <2>1. CallInv([call[c] EXCEPT !.pc = "clean"])
    BY <1>1, <1>3 DEF CallInv, Call, PCs, Waiting, Starting, MountFresh
  <2> QED
    BY <1>1, <1>2, <1>3, <2>1, GotoStep, RestTypes DEF MountFresh
<1>4. CASE MountAlready(c)
  BY <1>1, <1>2, <1>4, ReturnStep DEF MountAlready
<1>5. CASE MountStale(c)
  <2> DEFINE p == entries[call[c].vol]
  <2>1. p \in Procs
    BY <1>1, <1>5 DEF MountStale, CallInv, IInv, OtherTypes
  <2>2. CallInv([call[c] EXCEPT !.pc = "await", !.proc = p])
    BY <1>1, <2>1 DEF CallInv, Call, PCs, Waiting, Starting
  <2> QED
    BY <1>1, <1>2, <1>5, <2>2, TakeStep DEF MountStale
<1> QED
  BY <1>3, <1>4, <1>5

\* startMount fails early, waitForMount returns, or the process exits first.
LEMMA StartChecksKeep ==
  ASSUME IInv, NEW c \in Callers,
         StartFails(c) \/ WaitForMount(c) \/ StartExited(c)
  PROVE  IInv'
<1>1. CallInv(call[c]) /\ Holds(call[c]) /\ UNCHANGED rest
  BY DEF IInv, CallsInv, StartFails, WaitForMount, StartExited, rest, Holds
<1>2. CASE StartFails(c)
  <2>1. ~Starting(call[c])
    BY <1>2 DEF StartFails, Starting
  <2> QED
    BY <1>1, <1>2, <2>1, ReturnStep DEF StartFails
<1>3. CASE WaitForMount(c)
  <2>1. PICK l \in {"record", "term", "awaitExit"} : Goto(c, l)
    BY <1>3 DEF WaitForMount
  <2>2. /\ CallInv([call[c] EXCEPT !.pc = l])
        /\ Starting([call[c] EXCEPT !.pc = l])
    BY <1>1, <1>3, <2>1 DEF WaitForMount, CallInv, Call, PCs, Waiting, Starting
  <2> QED
    BY <1>1, <2>1, <2>2, GotoStep, RestTypes
<1>4. CASE StartExited(c)
  <2>1. ~Live(call[c].proc)
    BY <1>4 DEF StartExited, Done, Live
  <2> QED
    BY <1>1, <1>4, <2>1, ReturnStep DEF StartExited
<1> QED
  BY <1>2, <1>3, <1>4

\* stop() succeeds or fails, and Unmount looks at the entry it finds.
LEMMA StopChecksKeep ==
  ASSUME IInv, NEW c \in Callers,
         StopDone(c) \/ StopFails(c) \/ UnmountNothing(c) \/ UnmountStop(c)
  PROVE  IInv'
<1>1. CallInv(call[c]) /\ Holds(call[c]) /\ UNCHANGED rest
  BY DEF IInv, CallsInv, StopDone, StopFails, UnmountNothing, UnmountStop, rest, Holds
<1>2. CASE StopDone(c)
  <2>1. ~Live(call[c].proc)
    BY <1>2 DEF StopDone, Done, Live
  <2>2. CASE call[c].op = "mount"
    BY <1>1, <1>2, <2>1, <2>2, ReturnStep DEF StopDone
  <2>3. CASE call[c].op # "mount"
    <3>1. call[c].op = "unmount"
      BY <1>1, <2>3 DEF CallInv, Call
    <3>2. CallInv([call[c] EXCEPT !.pc = "remove"])
      BY <1>1, <1>2, <3>1 DEF StopDone, CallInv, Call, PCs, Waiting, Starting
    <3> QED
      BY <1>1, <1>2, <2>1, <2>3, <3>2, GotoStep, RestTypes DEF StopDone
  <2> QED
    BY <2>2, <2>3
<1>3. CASE StopFails(c)
  <2>1. ~Live(call[c].proc)
    BY <1>1, <1>3 DEF StopFails, CallInv
  <2> QED
    BY <1>1, <1>3, <2>1, ReturnStep DEF StopFails
<1>4. CASE UnmountNothing(c)
  <2>1. ~Starting(call[c])
    BY <1>4 DEF UnmountNothing, Starting
  <2> QED
    BY <1>1, <1>4, <2>1, ReturnStep DEF UnmountNothing
<1>5. CASE UnmountStop(c)
  <2> DEFINE p == entries[call[c].vol]
  <2>1. p \in Procs /\ ~Starting(call[c])
    BY <1>1, <1>5 DEF UnmountStop, CallInv, IInv, OtherTypes, Starting
  <2>2. CallInv([call[c] EXCEPT !.pc = "term", !.proc = p])
    BY <1>1, <1>5, <2>1 DEF UnmountStop, CallInv, Call, PCs, Waiting, Starting
  <2> QED
    BY <1>1, <1>5, <2>1, <2>2, TakeStep DEF UnmountStop
<1> QED
  BY <1>2, <1>3, <1>4, <1>5

-------------------------------------------------------------------------------
(* The steps that touch the mount table, the processes or the entries.     *)

\* ensureTargetClean unmounts the target.
LEMMA EnsureTargetCleanKeeps ==
  ASSUME IInv, NEW c \in Callers, EnsureTargetClean(c)
  PROVE  IInv'
<1>1. CallInv(call[c]) /\ Holds(call[c]) /\ ~Starting(call[c])
  BY DEF IInv, CallsInv, EnsureTargetClean, Holds, Starting
<1>2. UNCHANGED <<entries, locks, proc>> /\ OtherTypes'
  BY UnmountType DEF EnsureTargetClean, IInv, OtherTypes, ProcShape
<1>3. CallInv([call[c] EXCEPT !.pc = "start"])
  BY <1>1 DEF EnsureTargetClean, CallInv, Call, PCs, Waiting, Starting
<1> QED
  BY <1>1, <1>2, <1>3, GotoStep DEF EnsureTargetClean

\* A process goes on in its life and does not come back to life.
LEMMA ProcStep ==
  ASSUME IInv, UNCHANGED <<call, entries, locks>>, NEW p \in Procs, NEW s \in States,
         proc' = [proc EXCEPT ![p].st = s],
         s # "none", proc[p].st # "done",
         s \in {"starting", "serving"} => Live(p),
         OtherTypes'
  PROVE  IInv'
<1>1. /\ proc' \in [Procs -> Process]
      /\ proc'[p].st = s /\ proc'[p].vol = proc[p].vol
      /\ \A q \in Procs : q # p => proc'[q] = proc[q]
  BY DEF IInv, OtherTypes, Process
<1>2. \A q \in Procs : proc'[q].st \in {"starting", "serving"} => Live(q)
  BY <1>1 DEF Live
<1>3. OneMutex' /\ Serialised'
  BY DEF IInv, OneMutex, Serialised, Holds
<1>4. EntriesMatch'
  BY <1>1 DEF IInv, EntriesMatch, OtherTypes
<1>5. ASSUME NEW r, CallInv(r) PROVE CallInv(r)'
  BY <1>1, <1>2, <1>5 DEF CallInv, Waiting, Starting, Done, Live
<1>6. CallsInv'
  BY <1>5 DEF IInv, CallsInv
<1>7. NoForgottenProcess'
  BY <1>2 DEF IInv, NoForgottenProcess, Supervised, Live
<1> QED
  BY <1>3, <1>4, <1>6, <1>7 DEF IInv

\* weed mounts or dies, and wait() supervises it.
LEMMA ProcessesKeep ==
  ASSUME IInv, NEW p \in Procs,
         ProcessMounts(p) \/ ProcessDies(p) \/ WaitReturns(p) \/ WaitCleanup(p)
  PROVE  IInv'
<1>1. proc[p].st \notin {"none", "done"}
  BY DEF ProcessMounts, ProcessDies, WaitReturns, WaitCleanup, Live
<1>2. proc[p] \in Process /\ proc[p].vol \in Volumes /\ proc[p].tgt \in Targets
  BY <1>1 DEF IInv, OtherTypes, ProcShape
<1>3. PICK s \in States \ {"none"} :
        /\ proc' = [proc EXCEPT ![p].st = s]
        /\ s \in {"starting", "serving"} => Live(p)
  <2>1. CASE ProcessMounts(p)
    <3>1. "serving" \in States \ {"none"}
      BY DEF States
    <3> QED
      BY <2>1, <3>1 DEF ProcessMounts, Live
  <2>2. CASE ProcessDies(p)
    <3>1. "dead" \in States \ {"none"}
      BY DEF States
    <3> QED
      BY <2>2, <3>1 DEF ProcessDies, Live
  <2>3. CASE WaitReturns(p)
    <3>1. "exited" \in States \ {"none"}
      BY DEF States
    <3> QED
      BY <2>3, <3>1 DEF WaitReturns, Live
  <2>4. CASE WaitCleanup(p)
    <3>1. "done" \in States \ {"none"}
      BY DEF States
    <3> QED
      BY <2>4, <3>1 DEF WaitCleanup, Live
  <2> QED
    BY <2>1, <2>2, <2>3, <2>4
<1>4. UNCHANGED <<call, entries, locks>> /\ UNCHANGED <<watchers, weed>>
  BY DEF ProcessMounts, ProcessDies, WaitReturns, WaitCleanup
<1>5. stack' \in [Targets -> Seq(Procs)] /\ instances' \in [Volumes -> SUBSET Weeds]
  <2>1. CASE ProcessMounts(p)
    <3>1. stack[proc[p].tgt] \in Seq(Procs) /\ <<p>> \in Seq(Procs)
      BY <1>2 DEF IInv, OtherTypes
    <3>2. <<p>> \o stack[proc[p].tgt] \in Seq(Procs)
      BY <3>1
    <3> QED
      BY <2>1, <1>2, <3>2 DEF ProcessMounts, IInv, OtherTypes
  <2>2. CASE ~ProcessMounts(p)
    BY <2>2, UnmountType DEF ProcessDies, WaitReturns, WaitCleanup, IInv, OtherTypes
  <2> QED
    BY <2>1, <2>2
<1>6. proc' \in [Procs -> Process] /\ ProcShape'
  BY <1>2, <1>3 DEF IInv, OtherTypes, ProcShape, Process
<1>7. OtherTypes'
  BY <1>4, <1>5, <1>6 DEF IInv, OtherTypes
<1> QED
  BY <1>1, <1>3, <1>4, <1>7, ProcStep

\* A fresh process is started: nothing refers to its identity.
LEMMA StartProcessKeeps ==
  ASSUME IInv, NEW c \in Callers, NEW p \in Procs, StartProcess(c, p)
  PROVE  IInv'
<1> DEFINE r == [call[c] EXCEPT !.pc = "wait", !.proc = p]
<1>1. CallInv(call[c]) /\ call[c] \in Call /\ call[c].pc = "start"
  BY DEF IInv, CallsInv, StartProcess
<1>2. call[c].vol \in Volumes /\ call[c].tgt \in Targets /\ call[c].op = "mount"
  BY <1>1 DEF CallInv
<1>3. /\ call' \in [Callers -> Call]
      /\ call'[c] = r
      /\ \A d \in Callers : d # c => call'[d] = call[d]
  BY <1>1 DEF StartProcess, IInv, CallsInv, Call, PCs
<1>4. /\ proc' \in [Procs -> Process]
      /\ proc'[p] = [st |-> "starting", vol |-> call[c].vol, tgt |-> call[c].tgt]
      /\ \A q \in Procs : q # p => proc'[q] = proc[q]
  BY <1>2 DEF StartProcess, IInv, OtherTypes, Process, States
<1>5. OtherTypes'
  BY <1>2, <1>4 DEF StartProcess, IInv, OtherTypes, ProcShape
<1>6. /\ r \in Call /\ r.pc = "wait" /\ r.proc = p /\ r.op = "mount"
      /\ r.vol = call[c].vol /\ r.tgt = call[c].tgt /\ r.lock = call[c].lock
  BY <1>1, <1>2 DEF Call, PCs
<1> HIDE DEF r
<1>7. CallInv(call[c])'
  BY <1>1, <1>2, <1>3, <1>4, <1>6 DEF StartProcess, CallInv, Waiting, Starting
<1>8. ASSUME NEW d \in Callers, d # c PROVE CallInv(call[d])'
  <2>1. call'[d] = call[d] /\ CallInv(call[d]) /\ call[d].proc # p
    BY <1>3, <1>8 DEF StartProcess, Free, IInv, CallsInv
  <2>2. UNCHANGED entries /\ (call[d].proc \in Procs => proc'[call[d].proc] = proc[call[d].proc])
    BY <1>4, <2>1 DEF StartProcess
  <2> QED
    BY <2>1, <2>2 DEF CallInv, Waiting, Starting, Done, Live
<1>9. CallsInv'
  BY <1>3, <1>7, <1>8 DEF CallsInv
<1>10. OneMutex' /\ Serialised'
  BY <1>1, <1>3, <1>6 DEF IInv, OneMutex, Serialised, Holds, StartProcess
<1>11. EntriesMatch'
  BY <1>4 DEF IInv, EntriesMatch, StartProcess, Free, OtherTypes
<1>12. NoForgottenProcess'
  <2> SUFFICES ASSUME NEW q \in Procs, Live(q)' PROVE Supervised(q)'
    BY DEF NoForgottenProcess
  <2>1. CASE q = p
    BY <2>1, <1>3, <1>6 DEF Supervised, Starting
  <2>2. CASE q # p
    <3>1. Supervised(q)
      BY <1>4, <2>2 DEF IInv, NoForgottenProcess, Live
    <3>2. ~Starting(call[c])
      BY <1>1 DEF Starting
    <3> QED
      BY <1>3, <3>1, <3>2 DEF Supervised, StartProcess
  <2> QED
    BY <2>1, <2>2
<1> QED
  BY <1>5, <1>9, <1>10, <1>11, <1>12 DEF IInv

\* The kill: the process of request c no longer runs.
LEMMA StopKillKeeps ==
  ASSUME IInv, NEW c \in Callers, StopKill(c)
  PROVE  IInv'
<1> DEFINE p == call[c].proc
           r == [call[c] EXCEPT !.pc = "kill"]
<1>1. CallInv(call[c]) /\ call[c] \in Call /\ call[c].pc = "term" /\ p \in Procs
  BY DEF IInv, CallsInv, StopKill, CallInv, Waiting
<1>2. /\ call' \in [Callers -> Call]
      /\ call'[c] = r
      /\ \A d \in Callers : d # c => call'[d] = call[d]
  BY <1>1 DEF StopKill, Goto, IInv, CallsInv, Call, PCs
<1>3. /\ proc' \in [Procs -> Process]
      /\ \A q \in Procs :
           /\ proc'[q].vol = proc[q].vol /\ proc'[q].tgt = proc[q].tgt
           /\ proc'[q].st = proc[q].st \/ (Live(q) /\ proc'[q].st = "dead")
      /\ proc'[p].st \notin {"starting", "serving"}
  BY <1>1 DEF StopKill, IInv, OtherTypes, Process, States, Live
<1>4. OtherTypes'
  BY <1>3 DEF StopKill, IInv, OtherTypes, ProcShape, Live
<1>5. /\ r \in Call /\ r.pc = "kill" /\ r.proc = p /\ r.op = call[c].op
      /\ r.vol = call[c].vol /\ r.tgt = call[c].tgt /\ r.lock = call[c].lock
  BY <1>1 DEF Call, PCs
<1> HIDE DEF r
<1>6. UNCHANGED <<entries, locks>>
  BY DEF StopKill
<1>7. CallInv(call[c])'
  BY <1>1, <1>2, <1>3, <1>5, <1>6 DEF CallInv, Waiting, Starting, Done, Live
<1>8. ASSUME NEW d \in Callers, d # c PROVE CallInv(call[d])'
  <2>1. call'[d] = call[d] /\ CallInv(call[d])
    BY <1>2, <1>8 DEF IInv, CallsInv
  <2> QED
    BY <1>3, <1>6, <2>1 DEF CallInv, Waiting, Starting, Done, Live
<1>9. CallsInv'
  BY <1>2, <1>7, <1>8 DEF CallsInv
<1>10. OneMutex' /\ Serialised'
  BY <1>1, <1>2, <1>5, <1>6 DEF IInv, OneMutex, Serialised, Holds
<1>11. EntriesMatch'
  BY <1>3, <1>6 DEF IInv, EntriesMatch, OtherTypes, Live
<1>12. NoForgottenProcess'
  BY <1>1, <1>2, <1>3, <1>5, <1>6 DEF IInv, NoForgottenProcess, Supervised, Live, Starting
<1> QED
  BY <1>4, <1>9, <1>10, <1>11, <1>12 DEF IInv

\* The entry of a process that no longer runs is removed.  A request that
\* relies on the entry accepts that it is gone.
LEMMA EntryDropped ==
  ASSUME IInv, NEW v \in Volumes, UNCHANGED <<locks, proc>>, OtherTypes',
         entries' = [entries EXCEPT ![v] = None],
         entries[v] # None => ~Live(entries[v])
  PROVE  /\ OneMutex' /\ EntriesMatch'
         /\ \A r \in Call : CallInv(r) => CallInv(r)'
         /\ \A p \in Procs : Live(p)' => Live(p) /\ Supervised(p)
                              /\ \A w \in Volumes : entries[w] = p => entries'[w] = p
<1>1. \A w \in Volumes : entries'[w] \in {None, entries[w]}
  BY DEF IInv, OtherTypes
<1>2. OneMutex' /\ EntriesMatch'
  BY <1>1 DEF IInv, OneMutex, EntriesMatch
<1>3. ASSUME NEW r \in Call, CallInv(r) PROVE CallInv(r)'
  BY <1>1, <1>3 DEF CallInv, Waiting, Starting, Done, Live
<1>4. ASSUME NEW p \in Procs, Live(p)'
      PROVE  Live(p) /\ Supervised(p) /\ \A w \in Volumes : entries[w] = p => entries'[w] = p
  <2>1. Live(p)
    BY <1>4 DEF Live
  <2>2. p # None
    BY NoneAssumption
  <2> QED
    BY <2>1, <2>2, <1>1 DEF IInv, NoForgottenProcess, OtherTypes
<1> QED
  BY <1>2, <1>3, <1>4

\* watchProcessExit drops the entry of its own process only.
LEMMA WatchKeeps ==
  ASSUME IInv, NEW v \in Volumes, NEW p \in Procs, WatchProcessExit(v, p)
  PROVE  IInv'
<1>1. UNCHANGED <<call, locks, proc>> /\ OtherTypes'
  BY DEF WatchProcessExit, IInv, OtherTypes, ProcShape
<1>2. CASE entries[v] = p
  <2>1. entries' = [entries EXCEPT ![v] = None] /\ ~Live(p)
    BY <1>2 DEF WatchProcessExit, WatchMatches, Done, Live
  <2>2. /\ OneMutex' /\ EntriesMatch'
        /\ \A r \in Call : CallInv(r) => CallInv(r)'
        /\ \A q \in Procs : Live(q)' => Live(q) /\ Supervised(q)
                              /\ \A w \in Volumes : entries[w] = q => entries'[w] = q
    BY <1>1, <1>2, <2>1, EntryDropped
  <2>3. CallsInv'
    BY <1>1, <2>2 DEF IInv, CallsInv
  <2>4. Serialised'
    BY <1>1 DEF IInv, Serialised, Holds
  <2>5. NoForgottenProcess'
    BY <1>1, <2>2 DEF NoForgottenProcess, Supervised
  <2> QED
    BY <1>1, <2>2, <2>3, <2>4, <2>5 DEF IInv
<1>3. CASE entries[v] # p
  <2>1. UNCHANGED <<entries, locks, proc, call>>
    BY <1>1, <1>3 DEF WatchProcessExit, WatchMatches
  <2>2. CallsInv' /\ OneMutex' /\ Serialised' /\ EntriesMatch' /\ NoForgottenProcess'
    BY <2>1 DEF IInv, CallsInv, CallInv, Waiting, Starting, Done, Live, OneMutex, Serialised,
                Holds, EntriesMatch, NoForgottenProcess, Supervised
  <2> QED
    BY <1>1, <2>2 DEF IInv
<1> QED
  BY <1>2, <1>3

\* Mount replaces a stale entry, or Unmount removes a stopped process's one.
LEMMA RemoveKeeps ==
  ASSUME IInv, NEW c \in Callers, MountReplace(c) \/ UnmountRemove(c)
  PROVE  IInv'
<1> DEFINE v == call[c].vol
           r == IF MountReplace(c) THEN [call[c] EXCEPT !.pc = "clean", !.proc = None]
                ELSE Idle
<1>1. CallInv(call[c]) /\ call[c] \in Call
  BY DEF IInv, CallsInv
<1>2. /\ v \in Volumes /\ ~Starting(call[c]) /\ Holds(call[c])
      /\ entries[v] \in {None, call[c].proc} /\ Done(call[c].proc)
  BY <1>1 DEF MountReplace, UnmountRemove, CallInv, Starting, Holds, Waiting
<1>3. /\ entries' = [entries EXCEPT ![v] = None]
      /\ UNCHANGED <<locks, proc>>
      /\ entries[v] # None => ~Live(entries[v])
  BY <1>2 DEF MountReplace, UnmountRemove, RemoveMount, Done, Live
<1>4. OtherTypes'
  BY <1>2, <1>3 DEF MountReplace, UnmountRemove, IInv, OtherTypes, ProcShape
<1>5. /\ OneMutex' /\ EntriesMatch'
      /\ \A x \in Call : CallInv(x) => CallInv(x)'
      /\ \A q \in Procs : Live(q)' => Live(q) /\ Supervised(q)
                            /\ \A w \in Volumes : entries[w] = q => entries'[w] = q
  BY <1>2, <1>3, <1>4, EntryDropped
<1>6. r \in Call /\ call' = [call EXCEPT ![c] = r]
  BY <1>1 DEF MountReplace, UnmountRemove, Return, Idle, Call, PCs
<1>7. /\ call' \in [Callers -> Call]
      /\ call'[c] = r
      /\ \A d \in Callers : d # c => call'[d] = call[d]
  BY <1>6 DEF IInv, CallsInv
<1>8. CallInv(call[c])'
  <2>1. CASE MountReplace(c)
    <3>1. /\ r.pc = "clean" /\ r.op = call[c].op /\ r.vol = v /\ r.tgt = call[c].tgt
          /\ r.lock = call[c].lock
      BY <1>1, <2>1 DEF Call
    <3>2. entries'[v] = None
      BY <1>2, <1>3 DEF IInv, OtherTypes
    <3> HIDE DEF r
    <3> QED
      BY <1>1, <1>2, <1>6, <1>7, <2>1, <3>1, <3>2
      DEF MountReplace, CallInv, Waiting, Starting
  <2>2. CASE ~MountReplace(c)
    <3>1. call'[c] = Idle
      BY <1>7, <2>2
    <3>2. Idle \in Call
      BY DEF Idle, Call, PCs
    <3> QED
      BY <3>1, <3>2 DEF CallInv, Idle, Waiting, Starting
  <2> QED
    BY <2>1, <2>2
<1>9. CallsInv'
  BY <1>5, <1>7, <1>8 DEF IInv, CallsInv
<1>10. Serialised'
  <2>1. r.vol = v \/ ~Holds(r)
    BY <1>1 DEF Holds, Idle, Call
  <2> HIDE DEF r
  <2> QED
    BY <1>2, <1>7, <2>1 DEF IInv, Serialised, Holds
<1> HIDE DEF r
<1>11. NoForgottenProcess'
  BY <1>2, <1>5, <1>7 DEF NoForgottenProcess, Supervised
<1> QED
  BY <1>4, <1>5, <1>9, <1>10, <1>11 DEF IInv

\* The started process is registered: the request's claim becomes the entry.
LEMMA RecordKeeps ==
  ASSUME IInv, NEW c \in Callers, Record(c)
  PROVE  IInv'
<1> DEFINE v == call[c].vol
           p == call[c].proc
<1>1. CallInv(call[c]) /\ call[c] \in Call /\ call[c].pc = "record"
  BY DEF IInv, CallsInv, Record
<1>2. /\ v \in Volumes /\ p \in Procs /\ Starting(call[c]) /\ Holds(call[c])
      /\ entries[v] = None /\ proc[p].vol = v /\ proc[p].st # "none"
  BY <1>1 DEF CallInv, Waiting, Starting, Holds
<1>3. /\ entries' = [entries EXCEPT ![v] = p]
      /\ watchers' = watchers \cup {<<v, p>>}
      /\ call' = [call EXCEPT ![c] = Idle]
      /\ UNCHANGED <<locks, proc, stack, weed>>
  BY DEF Record, Return
<1>4. /\ entries' \in [Volumes -> Procs \cup {None}] /\ entries'[v] = p
      /\ \A w \in Volumes : w # v => entries'[w] = entries[w]
  BY <1>2, <1>3 DEF IInv, OtherTypes
<1>5. instances' \in [Volumes -> SUBSET Weeds]
  BY <1>2 DEF Record, IInv, OtherTypes
<1>6. OtherTypes'
  BY <1>2, <1>3, <1>4, <1>5 DEF IInv, OtherTypes, ProcShape
<1>7. Idle \in Call
  BY DEF Idle, Call, PCs
<1>8. /\ call' \in [Callers -> Call]
      /\ call'[c] = Idle
      /\ \A d \in Callers : d # c => call'[d] = call[d]
  BY <1>3, <1>7 DEF IInv, CallsInv
<1>9. CallInv(call[c])'
  BY <1>7, <1>8 DEF CallInv, Idle, Waiting, Starting
<1>10. ASSUME NEW d \in Callers, d # c PROVE CallInv(call[d])'
  <2>1. call'[d] = call[d] /\ CallInv(call[d])
    BY <1>8, <1>10 DEF IInv, CallsInv
  <2>2. call[d].pc \in {"idle", "lock"} \/ call[d].vol # v
    BY <1>2, <1>10 DEF IInv, Serialised, Holds
  <2> QED
    BY <1>3, <1>4, <2>1, <2>2 DEF CallInv, Waiting, Starting, Done, Live
<1>11. CallsInv'
  BY <1>8, <1>9, <1>10 DEF CallsInv
<1>12. OneMutex' /\ EntriesMatch'
  BY <1>2, <1>3, <1>4 DEF IInv, OneMutex, EntriesMatch
<1>13. Serialised'
  BY <1>8 DEF IInv, Serialised, Holds, Idle
<1>14. NoForgottenProcess'
  <2> SUFFICES ASSUME NEW q \in Procs, Live(q)' PROVE Supervised(q)'
    BY DEF NoForgottenProcess
  <2>1. Supervised(q)
    BY <1>3 DEF IInv, NoForgottenProcess, Live
  <2>2. q # None
    BY NoneAssumption
  <2> QED
    BY <1>2, <1>4, <1>8, <2>1, <2>2 DEF Supervised
<1> QED
  BY <1>6, <1>11, <1>12, <1>13, <1>14 DEF IInv

\* The plugin unmounts a path, or the service restarts.
LEMMA EnvironmentKeeps ==
  ASSUME IInv, (\E t \in Targets : PluginUnmount(t)) \/ Restart
  PROVE  IInv'
<1>1. CASE \E t \in Targets : PluginUnmount(t)
  <2>1. UNCHANGED <<call, entries, locks, watchers, proc, instances, weed>>
    BY <1>1 DEF PluginUnmount
  <2>2. OtherTypes'
    BY <1>1, <2>1, UnmountType DEF PluginUnmount, IInv, OtherTypes, ProcShape
  <2>3. CallsInv' /\ OneMutex' /\ Serialised' /\ EntriesMatch' /\ NoForgottenProcess'
    BY <2>1 DEF IInv, CallsInv, CallInv, Waiting, Starting, Done, Live, OneMutex, Serialised,
                Holds, EntriesMatch, NoForgottenProcess, Supervised
  <2> QED
    BY <2>2, <2>3 DEF IInv
<1>2. CASE Restart
  <2>1. /\ proc' \in [Procs -> Process]
        /\ \A p \in Procs : proc'[p].st = "done"
    BY <1>2 DEF Restart, IInv, OtherTypes, Process, States
  <2>2. OtherTypes' /\ OneMutex' /\ EntriesMatch'
    BY <1>2, <2>1 DEF Restart, IInv, OtherTypes, ProcShape, OneMutex, EntriesMatch
  <2>3. Idle \in Call
    BY DEF Idle, Call, PCs
  <2>4. CallsInv'
    BY <1>2, <2>3 DEF Restart, CallsInv, CallInv, Idle, Waiting, Starting
  <2>5. Serialised' /\ NoForgottenProcess'
    BY <1>2, <2>1 DEF Restart, Serialised, Holds, Idle, NoForgottenProcess, Live
  <2> QED
    BY <2>2, <2>4, <2>5 DEF IInv
<1> QED
  BY <1>1, <1>2

-------------------------------------------------------------------------------
(* Theorems.                                                               *)

\* The invariant holds initially.
LEMMA InitIInv == Init => IInv
<1> SUFFICES ASSUME Init PROVE IInv
  OBVIOUS
<1>1. Idle \in Call
  BY DEF Idle, Call, PCs
<1>2. CallsInv
  BY <1>1 DEF Init, CallsInv, CallInv, Idle, Waiting, Starting
<1>3. OtherTypes /\ OneMutex /\ EntriesMatch
  BY DEF Init, OtherTypes, Process, States, ProcShape, OneMutex, EntriesMatch
<1>4. Serialised /\ NoForgottenProcess
  BY DEF Init, Serialised, Holds, Idle, NoForgottenProcess, Live
<1> QED
  BY <1>2, <1>3, <1>4 DEF IInv

\* Every step keeps the invariant.
LEMMA NextIInv == IInv /\ [Next]_vars => IInv'
<1> SUFFICES ASSUME IInv, [Next]_vars PROVE IInv'
  OBVIOUS
<1>1. ASSUME NEW c \in Callers, NEW v \in Volumes, NEW t \in Targets, MountCall(c, v, t)
      PROVE  IInv'
  BY <1>1, CallKeeps
<1>2. ASSUME NEW c \in Callers, NEW v \in Volumes, UnmountCall(c, v) PROVE IInv'
  BY <1>2, CallKeeps
<1>3. ASSUME NEW c \in Callers, Acquire(c) PROVE IInv'
  BY <1>3, AcquireKeeps
<1>4. ASSUME NEW c \in Callers, Step(c) PROVE IInv'
  BY <1>4, MountChecksKeep, StartChecksKeep, StopChecksKeep, EnsureTargetCleanKeeps,
     StartProcessKeeps, StopKillKeeps, RemoveKeeps, RecordKeeps DEF Step
<1>5. ASSUME NEW v \in Volumes, NEW p \in Procs, WatchProcessExit(v, p) PROVE IInv'
  BY <1>5, WatchKeeps
<1>6. ASSUME NEW p \in Procs,
             ProcessMounts(p) \/ ProcessDies(p) \/ WaitReturns(p) \/ WaitCleanup(p)
      PROVE  IInv'
  BY <1>6, ProcessesKeep
<1>7. ASSUME (\E t \in Targets : PluginUnmount(t)) \/ Restart PROVE IInv'
  BY <1>7, EnvironmentKeeps
<1>8. CASE UNCHANGED vars
  BY <1>8 DEF vars, IInv, OtherTypes, ProcShape, CallsInv, CallInv, Waiting, Starting, Done,
              Live, OneMutex, Serialised, Holds, EntriesMatch, NoForgottenProcess, Supervised
<1> QED
  BY <1>1, <1>2, <1>3, <1>4, <1>5, <1>6, <1>7, <1>8 DEF Next

\* The inductive invariant holds in every behaviour of the mount service.
THEOREM Invariance == Spec => []IInv
  BY InitIInv, NextIInv, PTL DEF Spec

\* The types hold, and stop() and wait() never meet a nil process.
THEOREM TypeCorrect == Spec => []TypeOK
  BY Invariance, IInvTypes, PTL

\* Manager.Mount and Manager.Unmount of one volume never overlap, because the
\* mutex of a volume is never dropped from the map.
THEOREM SerialisedCorrect == Spec => []Serialised
<1>1. IInv => Serialised
  BY DEF IInv
<1> QED
  BY <1>1, Invariance, PTL

\* A running weed mount process is always registered or being started.
THEOREM NoForgottenCorrect == Spec => []NoForgottenProcess
<1>1. IInv => NoForgottenProcess
  BY DEF IInv
<1> QED
  BY <1>1, Invariance, PTL

\* Two weed mount processes never run for one volume.
THEOREM OneRunningCorrect == Spec => []OneRunning
<1>1. IInv => OneRunning
  <2> SUFFICES ASSUME IInv, NEW p \in Procs, NEW q \in Procs, Live(p), Live(q),
                      proc[p].vol = proc[q].vol
               PROVE  p = q
    BY DEF OneRunning
  <2> DEFINE v == proc[p].vol
  <2>1. p # None /\ q # None
    BY NoneAssumption
  <2>2. \A x \in {p, q} : \/ v \in Volumes /\ entries[v] = x
                          \/ \E c \in Callers : /\ Starting(call[c]) /\ call[c].proc = x
                                                /\ call[c].vol = v /\ entries[v] = None
    <3> SUFFICES ASSUME NEW x \in {p, q}
                 PROVE  \/ v \in Volumes /\ entries[v] = x
                        \/ \E c \in Callers : /\ Starting(call[c]) /\ call[c].proc = x
                                              /\ call[c].vol = v /\ entries[v] = None
      OBVIOUS
    <3>1. Supervised(x) /\ proc[x].vol = v /\ x # None
      BY <2>1 DEF IInv, NoForgottenProcess
    <3>2. CASE \E w \in Volumes : entries[w] = x
      BY <3>1, <3>2 DEF IInv, EntriesMatch
    <3>3. CASE \E c \in Callers : Starting(call[c]) /\ call[c].proc = x
      <4>1. PICK c \in Callers : Starting(call[c]) /\ call[c].proc = x
        BY <3>3
      <4>2. CallInv(call[c])
        BY DEF IInv, CallsInv
      <4> QED
        BY <3>1, <4>1, <4>2 DEF CallInv
    <3> QED
      BY <3>1, <3>2, <3>3 DEF Supervised
  <2>3. \A c, d \in Callers :
          Starting(call[c]) /\ Starting(call[d]) /\ call[c].vol = call[d].vol => c = d
    BY DEF IInv, Serialised, Holds, Starting
  <2> QED
    BY <2>1, <2>2, <2>3
<1> QED
  BY <1>1, Invariance, PTL

\* Nobody removes the instance directory a serving process has made; entries
\* and the claims of requests say which process that is.
Cached == \A p \in Procs : proc[p].st = "serving" => weed \in instances[proc[p].vol]

\* A request that removes the cache directory of its volume has a process that
\* is done, and no other process of the volume runs.
LEMMA RemovedIsIdle ==
  ASSUME IInv, NEW c \in Callers, call[c].pc = "remove", NEW p \in Procs, Live(p)
  PROVE  proc[p].vol # call[c].vol
<1>1. CallInv(call[c]) /\ call[c].vol \in Volumes
  BY DEF IInv, CallsInv, CallInv
<1>2. /\ call[c].op = "unmount" /\ Done(call[c].proc)
      /\ entries[call[c].vol] \in {None, call[c].proc}
  BY <1>1 DEF CallInv, Waiting
<1>3. Supervised(p) /\ p # None /\ p # call[c].proc
  BY <1>2, NoneAssumption DEF IInv, NoForgottenProcess, Live, Done
<1>4. CASE \E v \in Volumes : entries[v] = p
  BY <1>2, <1>3, <1>4 DEF IInv, EntriesMatch
<1>5. CASE \E d \in Callers : Starting(call[d]) /\ call[d].proc = p
  <2>1. PICK d \in Callers : Starting(call[d]) /\ call[d].proc = p
    BY <1>5
  <2>2. CallInv(call[d]) /\ d # c /\ Holds(call[d]) /\ Holds(call[c])
    BY <1>2, <2>1 DEF IInv, CallsInv, Starting, Holds
  <2>3. call[d].vol # call[c].vol
    BY <2>2 DEF IInv, Serialised
  <2> QED
    BY <2>1, <2>2, <2>3 DEF CallInv
<1> QED
  BY <1>3, <1>4, <1>5 DEF Supervised

\* Every step keeps the cache directories of serving processes.
LEMMA NextCached == IInv /\ Cached /\ [Next]_vars => Cached'
<1> SUFFICES ASSUME IInv, Cached, [Next]_vars PROVE Cached'
  OBVIOUS
<1>1. /\ proc \in [Procs -> Process] /\ instances \in [Volumes -> SUBSET Weeds]
      /\ \A p \in Procs : proc[p].st = "serving" => proc[p].vol \in Volumes
  BY DEF IInv, OtherTypes, ProcShape
<1>2. ASSUME UNCHANGED <<instances, weed>>, proc' \in [Procs -> Process],
             \A p \in Procs : proc'[p].st = "serving"
                              => proc[p].st = "serving" /\ proc'[p].vol = proc[p].vol
      PROVE  Cached'
  BY <1>2 DEF Cached
<1>3. ASSUME NEW c \in Callers, NEW p \in Procs, StartProcess(c, p) PROVE Cached'
  <2>1. /\ proc' \in [Procs -> Process]
        /\ proc'[p].st = "starting" /\ \A q \in Procs : q # p => proc'[q] = proc[q]
    BY <1>1, <1>3, StartProcessKeeps DEF StartProcess, IInv, OtherTypes
  <2> QED
    BY <1>2, <1>3, <2>1 DEF StartProcess
<1>4. ASSUME NEW c \in Callers, StopKill(c) PROVE Cached'
  <2>1. proc' \in [Procs -> Process]
    BY <1>4, StopKillKeeps DEF IInv, OtherTypes
  <2>2. \A p \in Procs : proc'[p].st = "serving" => proc'[p] = proc[p]
    BY <1>1, <1>4 DEF StopKill, Process
  <2> QED
    BY <1>2, <1>4, <2>1, <2>2 DEF StopKill
<1>5. ASSUME NEW c \in Callers, Record(c) PROVE Cached'
  <2>1. call[c].vol \in Volumes
    BY <1>5 DEF Record, IInv, CallsInv, CallInv
  <2>2. \A v \in Volumes : instances'[v] = IF v = call[c].vol
                                           THEN instances[v] \cap HeldInstances(v)
                                           ELSE instances[v]
    BY <1>1, <1>5, <2>1 DEF Record
  <2>3. UNCHANGED <<proc, weed>>
    BY <1>5 DEF Record
  <2> QED
    BY <1>1, <2>2, <2>3 DEF Cached, HeldInstances
<1>6. ASSUME NEW c \in Callers, UnmountRemove(c) PROVE Cached'
  <2>1. \A p \in Procs : proc[p].st = "serving" => proc[p].vol # call[c].vol
    BY <1>6, RemovedIsIdle DEF UnmountRemove, Live
  <2>2. \A v \in Volumes : v # call[c].vol => instances'[v] = instances[v]
    BY <1>1, <1>6 DEF UnmountRemove
  <2>3. UNCHANGED <<proc, weed>>
    BY <1>6 DEF UnmountRemove
  <2> QED
    BY <1>1, <2>1, <2>2, <2>3 DEF Cached
<1>7. ASSUME NEW p \in Procs, ProcessMounts(p) PROVE Cached'
  <2>1. proc[p].vol \in Volumes /\ UNCHANGED weed
    BY <1>7 DEF ProcessMounts, IInv, OtherTypes, ProcShape
  <2>2. \A q \in Procs : proc'[q].vol = proc[q].vol /\ (q # p => proc'[q] = proc[q])
    BY <1>1, <1>7 DEF ProcessMounts, Process
  <2>3. /\ weed \in instances'[proc[p].vol]
        /\ \A v \in Volumes : instances[v] \subseteq instances'[v]
    BY <1>1, <1>7, <2>1 DEF ProcessMounts
  <2> QED
    BY <1>1, <2>1, <2>2, <2>3 DEF Cached
<1>8. ASSUME NEW p \in Procs, ProcessDies(p) \/ WaitReturns(p) \/ WaitCleanup(p)
      PROVE  Cached'
  <2>1. PICK s \in {"dead", "exited", "done"} : proc' = [proc EXCEPT ![p].st = s]
    BY <1>8 DEF ProcessDies, WaitReturns, WaitCleanup
  <2>2. /\ proc' \in [Procs -> Process]
        /\ \A q \in Procs : proc'[q].st = "serving" => proc'[q] = proc[q]
    BY <1>1, <2>1 DEF Process, States
  <2> QED
    BY <1>2, <1>8, <2>2 DEF ProcessDies, WaitReturns, WaitCleanup
<1>9. CASE Restart
  BY <1>1, <1>9 DEF Restart, Cached, Process
<1>10. ASSUME UNCHANGED <<proc, instances, weed>> PROVE Cached'
  BY <1>10 DEF Cached
<1>11. ASSUME NEW c \in Callers, Step(c) PROVE Cached'
  <2>1. \/ \E p \in Procs : StartProcess(c, p)
        \/ StopKill(c) \/ Record(c) \/ UnmountRemove(c)
        \/ UNCHANGED <<proc, instances, weed>>
    BY <1>11 DEF Step, MountFresh, MountAlready, MountStale, MountReplace, StartFails,
         EnsureTargetClean, WaitForMount, StartExited, StopDone, StopFails, UnmountNothing,
         UnmountStop
  <2> QED
    BY <1>3, <1>4, <1>5, <1>6, <1>10, <2>1
<1>12. \/ \E c \in Callers : Step(c)
       \/ \E p \in Procs :
            ProcessMounts(p) \/ ProcessDies(p) \/ WaitReturns(p) \/ WaitCleanup(p)
       \/ Restart
       \/ UNCHANGED <<proc, instances, weed>>
  BY DEF Next, vars, MountCall, UnmountCall, Acquire, WatchProcessExit, PluginUnmount
<1> QED
  BY <1>7, <1>8, <1>9, <1>10, <1>11, <1>12

\* Neither an Unmount whose stop failed, nor the cleanup of other versions'
\* caches, removes the cache of a registered process that is serving.
THEOREM ServingKeepsCacheCorrect == Spec => []ServingKeepsCache
<1>1. Init => Cached
  BY DEF Init, Cached
<1>2. IInv /\ Cached => ServingKeepsCache
  BY DEF IInv, OtherTypes, EntriesMatch, Cached, ServingKeepsCache
<1> QED
  BY <1>1, <1>2, Invariance, NextCached, PTL DEF Spec
===============================================================================
