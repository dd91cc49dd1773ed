---------------------------- MODULE HealthMonitor ----------------------------
(***************************************************************************)
(* How the health monitor tells a dead or hung staging mount from a busy   *)
(* one: the statfs and health probes of the staging path, which callers    *)
(* share while they are in flight, the time each has gone unanswered, the  *)
(* counters of consecutive failures on the Volume object, and the rechecks *)
(* of a recovery.  NodeServer has the same recovery with every probe as    *)
(* one step of unknown outcome; here the probes are the subject, and the   *)
(* publish paths are left out.                                             *)
(*                                                                         *)
(* Time advances in ticks, and a tick waits for whatever is due: a timer,  *)
(* or the answer of a weed that is not hung.                               *)
(***************************************************************************)
EXTENDS Integers

CONSTANTS Mounts,     \* FUSE mounts, each with its own weed process
          None,       \* no mount, no probe, no volume
          Interval,   \* defaultHealthCheckInterval, in ticks
          Timeout,    \* defaultHealthCheckTimeout, in ticks
          HungAfter,  \* defaultHungMountAfter, in ticks
          Threshold,  \* defaultUnhealthyThreshold
          StatBound,  \* how long weed takes to answer a stat, at most
          Bound       \* how long weed takes to answer any other request, at most

ASSUME HealthAssumption ==
  /\ None \notin Mounts
  /\ {Interval, Timeout, HungAfter, Threshold, StatBound, Bound} \subseteq Nat \ {0}
  /\ StatBound <= Bound

VARIABLES
  path,    \* the mount at the staging path, or None
  weed,    \* weed[m]: "quick", "busy", "hung" or "dead"
  vol,     \* the counters of the tracked Volume object, or None
  mutex,   \* who holds the volume's mutex
  statfs,  \* statfsProbes[staging path]
  health,  \* healthProbes[staging path]
  hm,      \* the health monitor's goroutine for the volume
  ticker,  \* the time since the goroutine was last started
  silent   \* ghost: the mount at the path left a request unanswered past its
           \* bound since the health monitor last found it healthy

vars == <<path, weed, vol, mutex, statfs, health, hm, ticker, silent>>

-------------------------------------------------------------------------------
(* State.  Ages are counted up to MaxAge, one more than any of them is     *)
(* compared with, and failures up to Threshold.                            *)

MaxAge == (IF Bound > HungAfter THEN Bound ELSE HungAfter) + 1
Older(a) == IF a < MaxAge THEN a + 1 ELSE a
Oldest(a, b) == IF a < b THEN b ELSE a

Counters == [fails : 0 .. Threshold - 1, streak : 0 .. Threshold, abnormal : BOOLEAN]
Fresh == [fails |-> 0, streak |-> 0, abnormal |-> FALSE]

\* A probe of the mount that was at the path when its system call began.
StatfsProbe == [on : Mounts \cup {None}, age : 0 .. MaxAge]

\* stagingPathHealth in flight: it waits for stat, then for statfs, and once
\* it is closed its result can be read until its goroutine forgets it.
HealthProbe == [on : Mounts \cup {None}, age : 0 .. MaxAge, wait : 0 .. Timeout,
                stage : {"stat", "statfs", "closed"}, result : {"ok", "dead", "slow"}]

\* from: the probe a check waits on is the registered one ("health"), one that
\* resetStatfsProbe has orphaned, of some age, or one already forgotten with
\* that result.
Checks == {"check", "recheck", "recheck2"}
PCs == Checks \cup {"idle", "lock", "unmount", "reset", "again", "mounted", "isdead", "detach",
                    "cleanup", "stage"}
Monitor == [pc : PCs, wait : 0 .. Timeout, from : {"health", "orphan", "ok", "dead", "slow"},
            age : 0 .. MaxAge, hung : BOOLEAN, mine : BOOLEAN, held : Counters]
Idle == [pc |-> "idle", wait |-> 0, from |-> "health", age |-> 0, hung |-> FALSE,
         mine |-> FALSE, held |-> Fresh]

ASSUME NoneAssumption == None \notin Counters \cup StatfsProbe \cup HealthProbe

Init ==
  /\ path = None
  /\ weed = [m \in Mounts |-> "dead"]
  /\ vol = None
  /\ mutex = "free"
  /\ statfs = None
  /\ health = None
  /\ hm = Idle
  /\ ticker = Interval
  /\ silent = FALSE

-------------------------------------------------------------------------------
(* Plausible bugs, used only to show that the properties can fail.         *)

\* A check that starts a probe of its own every time.
LoadOrStoreBug(h) == [on |-> path, age |-> 0, wait |-> 0, stage |-> "stat", result |-> "slow"]

\* A healthy check that leaves the volume abnormal.
NoteHealthyBug(c) == [c EXCEPT !.fails = 0, !.streak = 0]

\* A recovery that leaves the count of failed checks as it is.
FailedBug(c) == [c EXCEPT !.fails = @ + 1, !.abnormal = @ \/ c.fails + 1 >= Threshold]

\* A sweep that leaves a volume alone once it is reported abnormal.
SweepsBug == vol # None /\ ~vol.abnormal

\* A recheck that takes any timeout of a mount once found hung for a proof.
ConfirmedBug(r) == r[1] = "dead" \/ (hm.hung /\ r[1] = "slow")

-------------------------------------------------------------------------------
(* Probes (mount_util.go, checkHealthUnanswered).                          *)

\* LoadOrStore: the health probe in flight, or a new one.
LoadOrStore(h) ==
  IF h # None THEN h
  ELSE [on |-> path, age |-> 0, wait |-> 0, stage |-> "stat", result |-> "slow"]

NewStatfs == [on |-> path, age |-> 0]
StatfsUnanswered == IF statfs = None THEN 0 ELSE statfs.age

\* resetStatfsProbe: the probes in flight go on, and nobody joins them.
ResetStatfsProbe == statfs' = None /\ health' = None

\* A probe that is closed has its result only.
Close(h, r) == [h EXCEPT !.stage = "closed", !.result = r, !.age = 0, !.wait = 0]

\* A system call of mount m, answered within b, need not return after a ticks.
MayWait(m, a, b) == m # None /\ (weed[m] = "hung" \/ (weed[m] = "busy" /\ a < b))

\* stat returns: from the attribute cache whatever weed does, from weed, or
\* with the error of a dead connection.  A path that is no mount point is
\* dead (IsMountPoint is answered from the attributes that stat has fetched);
\* otherwise statfs follows, on the probe in flight if there is one.
StatReturns ==
  /\ health # None /\ health.stage = "stat"
  /\ \/ /\ health.on # None /\ weed[health.on] = "dead"
        /\ health' = Close(health, "dead")
        /\ UNCHANGED statfs
     \/ /\ path = None
        /\ health' = Close([health EXCEPT !.on = None], "dead")
        /\ UNCHANGED statfs
     \/ /\ path # None
        /\ health' = [health EXCEPT !.stage = "statfs", !.on = path]
        /\ statfs' = IF statfs = None THEN NewStatfs ELSE statfs
  /\ UNCHANGED <<path, weed, vol, mutex, hm, silent, ticker>>

\* statfs returns, the probe is forgotten, and whoever waited for it has its
\* result: a health probe, or isDeadMount of a recovery.
StatfsReturns ==
  /\ statfs # None
  /\ statfs.on # None => weed[statfs.on] # "hung"
  /\ LET r == IF statfs.on # None /\ weed[statfs.on] = "dead" THEN "dead" ELSE "ok"
     IN /\ health' = IF health # None /\ health.stage = "statfs"
                     THEN Close(health, r) ELSE health
        /\ \/ hm.pc # "isdead" /\ UNCHANGED <<hm, mutex>>
           \/ hm.pc = "isdead" /\ r = "dead" /\ hm' = [hm EXCEPT !.pc = "detach"] /\ UNCHANGED mutex
           \/ hm.pc = "isdead" /\ r = "ok" /\ hm' = Idle /\ mutex' = "free"
  /\ statfs' = None
  /\ UNCHANGED <<path, weed, vol, silent, ticker>>

\* probeStatfs gives up on a statfs that stays in flight.
ProbeTimeout ==
  /\ health # None /\ health.stage = "statfs" /\ health.wait = Timeout
  /\ health' = Close(health, "slow")
  /\ UNCHANGED <<path, weed, vol, mutex, statfs, hm, silent, ticker>>

\* The goroutine of a closed probe forgets it, some time after its waiters
\* could read the result.
Forget ==
  /\ health # None /\ health.stage = "closed"
  /\ health' = None
  /\ hm' = IF hm.pc \in Checks /\ hm.from = "health"
           THEN [hm EXCEPT !.from = health.result] ELSE hm
  /\ UNCHANGED <<path, weed, vol, mutex, statfs, silent, ticker>>

\* What checkHealthUnanswered may return now: a result, and for "slow" how
\* long the mount has left the probe unanswered.
Result(r) == <<r, IF r = "slow" THEN StatfsUnanswered ELSE 0>>
TimedOut(a) == <<"slow", Oldest(a, StatfsUnanswered)>>
Results ==
  CASE hm.from = "health" ->
         IF health.stage = "closed" THEN {Result(health.result)}
         ELSE IF hm.wait = Timeout THEN {TimedOut(health.age)} ELSE {}
    [] hm.from = "orphan" ->
         {Result("ok"), Result("dead"), Result("slow")}
           \cup (IF hm.wait = Timeout THEN {TimedOut(hm.age)} ELSE {})
    [] OTHER -> {Result(hm.from)}

\* A check begins, and the goroutine goes on as r.
BeginCheck(r) ==
  /\ health' = LoadOrStore(health)
  /\ hm' = [r EXCEPT !.wait = 0, !.from = "health"]

-------------------------------------------------------------------------------
(* performVolumeHealthCheck.                                               *)

\* checkAndRecoverVolumes starts a check of every tracked volume.
Sweeps == vol # None

Sweep ==
  /\ hm.pc = "idle" /\ Sweeps
  /\ ticker = Interval
  /\ ticker' = 0
  /\ BeginCheck([Idle EXCEPT !.pc = "check", !.mine = TRUE])
  /\ UNCHANGED <<path, weed, vol, mutex, statfs, silent>>

\* The counters of the object the check began with, which may no longer be
\* the tracked one.
Loaded == IF hm.mine THEN vol ELSE hm.held
Save(c) == vol' = IF hm.mine THEN c ELSE vol

NoteUnhealthy(c) == [c EXCEPT !.streak = IF @ < Threshold THEN @ + 1 ELSE @]
NoteHealthy(c) == [c EXCEPT !.fails = 0, !.streak = 0, !.abnormal = FALSE]

CheckSlow ==
  /\ hm.pc = "check"
  /\ \E r \in Results :
       /\ r[1] = "slow"
       /\ LET c == [NoteUnhealthy(Loaded) EXCEPT !.fails = 0]
              hung == c.streak >= Threshold /\ r[2] > HungAfter
          IN /\ Save([c EXCEPT !.abnormal = @ \/ hung])
             /\ hm' = IF hung THEN [Idle EXCEPT !.pc = "lock", !.hung = TRUE] ELSE Idle
  /\ UNCHANGED <<path, weed, mutex, statfs, health, silent, ticker>>

\* The failed check that reaches the threshold starts the count again.
Failed(c) ==
  IF c.fails + 1 < Threshold THEN [c EXCEPT !.fails = @ + 1]
  ELSE [c EXCEPT !.fails = 0, !.abnormal = TRUE]

CheckDead ==
  /\ hm.pc = "check"
  /\ <<"dead", 0>> \in Results
  /\ Save(Failed(NoteUnhealthy(Loaded)))
  /\ hm' = IF Loaded.fails + 1 < Threshold THEN Idle ELSE [Idle EXCEPT !.pc = "lock"]
  /\ UNCHANGED <<path, weed, mutex, statfs, health, silent, ticker>>

\* The publish retry and the container repair that may follow are
\* NodeServer's and ContainerRemount's.
CheckOK ==
  /\ hm.pc = "check"
  /\ <<"ok", 0>> \in Results
  /\ Save(NoteHealthy(Loaded))
  /\ hm' = Idle
  /\ silent' = FALSE
  /\ UNCHANGED <<path, weed, mutex, statfs, health, ticker>>

-------------------------------------------------------------------------------
(* recoverVolumeAs.                                                        *)

Leave == hm' = Idle /\ mutex' = "free"

Recover ==
  /\ hm.pc = "lock" /\ mutex = "free"
  /\ IF vol = None THEN Leave /\ UNCHANGED health
     ELSE mutex' = "hm" /\ BeginCheck([hm EXCEPT !.pc = "recheck"])
  /\ UNCHANGED <<path, weed, vol, statfs, silent, ticker>>

Confirmed(r) == r[1] = "dead" \/ (hm.hung /\ r[1] = "slow" /\ r[2] > HungAfter)

Recheck ==
  /\ hm.pc \in {"recheck", "recheck2"}
  /\ \E r \in Results :
       IF Confirmed(r)
       THEN /\ hm' = [hm EXCEPT !.pc = IF @ = "recheck" THEN "unmount" ELSE "mounted"]
            /\ UNCHANGED mutex
       ELSE Leave
  /\ UNCHANGED <<path, weed, vol, statfs, health, silent, ticker>>

\* The mount service stops the weed and removes its mount, or leaves the dead
\* mount behind.
RecoverUnmount ==
  /\ hm.pc = "unmount"
  /\ path' \in {path, None}
  /\ weed' = [m \in Mounts |-> IF m = path THEN "dead" ELSE weed[m]]
  /\ hm' = [hm EXCEPT !.pc = "reset"]
  /\ silent' = FALSE
  /\ UNCHANGED <<vol, mutex, statfs, health, ticker>>

\* A service that does not know the weed has nothing to stop, and succeeds.
UnmountUnknown ==
  /\ hm.pc = "unmount"
  /\ hm' = [hm EXCEPT !.pc = "reset"]
  /\ UNCHANGED <<path, weed, vol, mutex, statfs, health, silent, ticker>>

ResetUnmounted ==
  /\ hm.pc = "reset"
  /\ ResetStatfsProbe
  /\ hm' = [hm EXCEPT !.pc = "again"]
  /\ UNCHANGED <<path, weed, vol, mutex, silent, ticker>>

\* A volume without an unmounter, if it is not hung, has nothing to unmount
\* and nothing to reset.
RecheckAgain ==
  /\ hm.pc = "again" \/ (hm.pc = "unmount" /\ ~hm.hung)
  /\ BeginCheck([hm EXCEPT !.pc = "recheck2"])
  /\ UNCHANGED <<path, weed, vol, mutex, statfs, silent, ticker>>

\* isDeadMount of a path that is still mounted.
CheckMounted ==
  /\ hm.pc = "mounted"
  /\ IF path = None
     THEN hm' = [hm EXCEPT !.pc = "detach"] /\ UNCHANGED statfs
     ELSE /\ hm' = [hm EXCEPT !.pc = "isdead", !.wait = 0]
          /\ statfs' = IF statfs = None THEN NewStatfs ELSE statfs
  /\ UNCHANGED <<path, weed, vol, mutex, health, silent, ticker>>

IsDeadTimeout ==
  /\ hm.pc = "isdead" /\ hm.wait = Timeout
  /\ IF hm.hung /\ StatfsUnanswered > HungAfter
     THEN hm' = [hm EXCEPT !.pc = "detach"] /\ UNCHANGED mutex
     ELSE Leave
  /\ UNCHANGED <<path, weed, vol, statfs, health, silent, ticker>>

Detach ==
  /\ hm.pc = "detach"
  /\ path' = None
  /\ silent' = FALSE
  /\ hm' = [hm EXCEPT !.pc = "cleanup"]
  /\ UNCHANGED <<weed, vol, mutex, statfs, health, ticker>>

CleanUp ==
  /\ hm.pc = "cleanup"
  /\ ResetStatfsProbe
  /\ hm' = [hm EXCEPT !.pc = "stage"]
  /\ UNCHANGED <<path, weed, vol, mutex, silent, ticker>>

\* A new mount, with its new weed.  A mount that is neither at the path nor
\* being probed is forgotten, whatever its weed does.
Unused(m) ==
  /\ m # path
  /\ statfs # None => statfs.on # m
  /\ health # None => health.on # m

MountNew(m) ==
  /\ Unused(m)
  /\ path' = m
  /\ weed' = [n \in Mounts |-> CASE n = m -> "quick"
                               [] n # m /\ Unused(n) -> "dead"
                               [] OTHER -> weed[n]]
  /\ UNCHANGED silent

Restage ==
  /\ hm.pc = "stage"
  /\ \E m \in Mounts : MountNew(m)
  /\ vol' = Fresh
  /\ Leave
  /\ UNCHANGED <<statfs, health, ticker>>

\* Unmount, detach, cleanup or re-stage fails, or there is no volume context.
RecoverFails ==
  /\ hm.pc \in {"unmount", "detach", "stage"}
  /\ Leave
  /\ UNCHANGED <<path, weed, vol, statfs, health, silent, ticker>>

-------------------------------------------------------------------------------
(* CSI handlers, which hold the mutex, and volume statistics, whose        *)
(* goroutine may outlive the request that held it.                         *)

RpcLock ==
  /\ mutex = "free"
  /\ mutex' = "rpc"
  /\ UNCHANGED <<path, weed, vol, statfs, health, hm, silent, ticker>>

\* requireHealthyStaging: the handler may wait for the probe or join it.
RpcCheck ==
  /\ mutex = "rpc" /\ vol # None
  /\ health' = LoadOrStore(health)
  /\ UNCHANGED <<path, weed, vol, mutex, statfs, hm, silent, ticker>>

RpcUnlock ==
  /\ mutex = "rpc"
  /\ mutex' = "free"
  /\ UNCHANGED <<path, weed, vol, statfs, health, hm, silent, ticker>>

\* NodeStageVolume of an untracked volume.
RpcStage ==
  /\ mutex = "rpc" /\ vol = None /\ path = None
  /\ \E m \in Mounts : MountNew(m)
  /\ vol' = Fresh
  /\ mutex' = "free"
  /\ UNCHANGED <<statfs, health, hm, ticker>>

\* Volume.Unstage: a volume without an unmounter only loses its mount.
RpcUnmount ==
  /\ mutex = "rpc" /\ vol # None
  /\ path' = None
  /\ weed' \in {weed} \cup {[weed EXCEPT ![m] = "dead"] : m \in {path} \cap Mounts}
  /\ silent' = FALSE
  /\ mutex' = "unstage"
  /\ UNCHANGED <<vol, statfs, health, hm, ticker>>

RpcUnstaged ==
  /\ mutex = "unstage"
  /\ ResetStatfsProbe
  /\ hm' = LET lost == hm.pc = "check" /\ hm.from = "health"
           IN [hm EXCEPT !.from = IF lost THEN "orphan" ELSE @,
                         !.age = IF lost THEN health.age ELSE @,
                         !.mine = FALSE, !.held = IF hm.mine THEN vol ELSE @]
  /\ vol' = None
  /\ mutex' = "free"
  /\ UNCHANGED <<path, weed, silent, ticker>>

StatsProbe ==
  /\ statfs = None /\ path # None
  /\ statfs' = NewStatfs
  /\ UNCHANGED <<path, weed, vol, mutex, health, hm, silent, ticker>>

-------------------------------------------------------------------------------
(* weed, the mount service, and time.                                      *)

\* The weed of a mount that is gone from the path may only end.
Weed(m) ==
  /\ weed[m] # "dead"
  /\ \E s \in {"quick", "busy", "hung", "dead"} :
       (m = path \/ s = "dead") /\ weed' = [weed EXCEPT ![m] = s]
  /\ UNCHANGED <<path, vol, mutex, statfs, health, hm, silent, ticker>>

\* The mount service removes the mount of a weed that ended.
ServiceReaps ==
  /\ path # None /\ weed[path] = "dead"
  /\ path' = None
  /\ silent' = FALSE
  /\ UNCHANGED <<weed, vol, mutex, statfs, health, hm, ticker>>

Waiting == hm.pc \in Checks \cup {"isdead"}

Tick ==
  /\ Waiting => hm.wait < Timeout
  /\ health # None => \/ health.stage = "stat" /\ MayWait(health.on, health.age, StatBound)
                      \/ health.stage = "statfs" /\ health.wait < Timeout
  /\ statfs # None => MayWait(statfs.on, statfs.age, Bound)
  /\ hm' = IF Waiting
           THEN [hm EXCEPT !.wait = @ + 1, !.age = IF hm.from = "orphan" THEN Older(@) ELSE @]
           ELSE hm
  /\ ticker' = IF ticker < Interval THEN ticker + 1 ELSE ticker
  /\ health' = IF health = None THEN None
               ELSE [health EXCEPT !.age = Older(@),
                                   !.wait = IF health.stage = "statfs" THEN @ + 1 ELSE @]
  /\ statfs' = IF statfs = None THEN None ELSE [statfs EXCEPT !.age = Older(@)]
  /\ silent' = (path # None /\
       \/ silent
       \/ health # None /\ health.stage = "stat" /\ health.on = path /\ health.age >= StatBound
       \/ statfs # None /\ statfs.on = path /\ statfs.age >= Bound)
  /\ UNCHANGED <<path, weed, vol, mutex>>

-------------------------------------------------------------------------------
Probes == StatReturns \/ StatfsReturns \/ ProbeTimeout \/ Forget
Check == CheckSlow \/ CheckDead \/ CheckOK
Recovery ==
  \/ Recheck \/ RecoverUnmount \/ ResetUnmounted \/ RecheckAgain \/ CheckMounted
  \/ IsDeadTimeout \/ Detach \/ CleanUp \/ Restage
Rpc == RpcCheck \/ RpcUnlock \/ RpcStage \/ RpcUnmount \/ RpcUnstaged

Next ==
  \/ Probes \/ Tick \/ StatsProbe
  \/ Sweep \/ Check \/ Recover \/ Recovery \/ UnmountUnknown \/ RecoverFails
  \/ RpcLock \/ Rpc
  \/ ServiceReaps \/ \E m \in Mounts : Weed(m)

Spec == Init /\ [][Next]_vars

-------------------------------------------------------------------------------
(* Properties.                                                             *)

\* Type correctness.
TypeOK ==
  /\ path \in Mounts \cup {None}
  /\ weed \in [Mounts -> {"quick", "busy", "hung", "dead"}]
  /\ vol \in Counters \cup {None}
  /\ mutex \in {"free", "hm", "rpc", "unstage"}
  /\ statfs \in StatfsProbe \cup {None}
  /\ health \in HealthProbe \cup {None}
  /\ hm \in Monitor
  /\ ticker \in 0 .. Interval
  /\ silent \in BOOLEAN

\* A recovery stops or detaches a mount only if its weed is dead or has left
\* a request unanswered for longer than weed takes to answer any, since the
\* mount was last seen healthy: a mount that is merely busy stays, whichever
\* probes of it and of its predecessors were in flight, or had closed and were
\* not forgotten yet.
TearsDown ==
  \/ hm.pc = "unmount" /\ hm'.pc = "reset"
  \/ hm.pc = "detach" /\ hm'.pc = "cleanup"
RecoverySparesBusy ==
  [][TearsDown /\ path # None => weed[path] = "dead" \/ silent]_vars

\* NodeGetVolumeStats reports the volume abnormal only after Threshold
\* consecutive failed checks of this Volume object, the last of them being
\* the latest check: neither a recovery nor a healthy check leaves it behind.
AbnormalEarned == vol # None /\ vol.abnormal => vol.streak = Threshold

-------------------------------------------------------------------------------
(* Liveness.  System calls return when weed answers, goroutines run, the   *)
(* monitor ticks, and a Go mutex does not starve a waiter.                 *)

Answers(h) == h.on # None => weed[h.on] # "hung"

FairSpec ==
  /\ Spec
  /\ WF_vars(StatReturns /\ Answers(health)) /\ WF_vars(StatfsReturns)
  /\ WF_vars(ProbeTimeout) /\ WF_vars(Forget)
  /\ WF_vars(Sweep) /\ WF_vars(Check) /\ SF_vars(Recover) /\ WF_vars(Recovery)
  /\ WF_vars(RpcUnlock \/ RpcUnstaged)

\* Only finitely much happens between two ticks.
TimePasses == []<><<Tick>>_vars

FaultsStop ==
  <>[][~(RecoverFails \/ UnmountUnknown \/ \E m \in Mounts : Weed(m))]_vars

\* Once nothing fails any more, a tracked volume whose mount hangs gets rid
\* of it, however the checks, the requests and the statistics interleave,
\* provided the mount service knows the weed it is asked to stop.
HungTornDown ==
  TimePasses /\ FaultsStop => \A m \in Mounts :
    (vol # None /\ path = m /\ weed[m] = "hung"
       ~> vol = None \/ path # m \/ weed[m] # "hung")

\* Likewise a volume reported abnormal is reported normal again, unless weed
\* goes on answering slower than a check waits.
ConditionClears ==
  TimePasses /\ FaultsStop => (vol # None /\ vol.abnormal
                   ~> vol = None \/ ~vol.abnormal \/ (path # None /\ weed[path] = "busy"))
===============================================================================
