------------------------------ MODULE CacheSweep ------------------------------
(***************************************************************************)
(* The node plugin's sweep of orphaned cache directories against the       *)
(* requests and recoveries that start mounts writing to them.              *)
(*                                                                         *)
(* Every volume has a cache directory under the plugin's cache base.  The  *)
(* sweep, at start-up and then every hour, moves the directories of        *)
(* volumes it takes for gone aside and deletes them.  cacheMu orders it    *)
(* against stages: a stage holds it for reading, the sweep tries to get it *)
(* for writing and gives up at once if it cannot.  Recoveries, unstages    *)
(* and a publish that adopts a mount do not take it.                       *)
(*                                                                         *)
(* The requests of one volume exclude each other (NodeServer), so that a   *)
(* volume has one task at a time.  The shared chunk cache, which the sweep *)
(* passes over by its name, is left out.                                   *)
(***************************************************************************)
EXTENDS Naturals, FiniteSets

CONSTANTS Vols,  \* volumes
          None   \* no volume

ASSUME SweepAssumption == IsFiniteSet(Vols) /\ None \notin Vols

VARIABLES
  scan,     \* whether StagingScanDir is configured
  cacheMu,  \* the RWMutex: how many stages hold it, and whether the sweep does
  task,     \* task[v]: where the request or recovery of volume v is
  tracked,  \* NodeServer.volumes
  kubelet,  \* the volumes kubelet has a staging directory for
  weed,     \* weed[v]: "none", "starting", or "serving" on its local socket
  dir,      \* the volumes with a cache directory
  aside,    \* the volumes with one moved aside
  sweep,    \* the sweeping goroutine and its locals
  lost,     \* ghost: the volumes whose running weed has lost its directory
  excused   \* ghost: the volumes whose weed nothing showed to a sweep

vars == <<scan, cacheMu, task, tracked, kubelet, weed, dir, aside, sweep, lost, excused>>
disk == <<dir, aside, lost>>

Tasks == {"idle", "rlock", "stage", "mount"}
Sweep == [pc : {"boot", "idle", "list", "move", "delete"}, boot : BOOLEAN,
          keep : SUBSET Vols, todo : SUBSET Vols, victim : Vols \cup {None},
          detached : SUBSET Vols]
NoSweep == [pc |-> "idle", boot |-> FALSE, keep |-> {}, todo |-> {},
            victim |-> None, detached |-> {}]

Init ==
  /\ scan \in BOOLEAN
  /\ cacheMu = [readers |-> 0, writer |-> FALSE]
  /\ task = [v \in Vols |-> "idle"]
  /\ tracked = {} /\ kubelet = {}
  /\ weed = [v \in Vols |-> "none"]
  /\ dir = {} /\ aside = {}
  /\ sweep = NoSweep
  /\ lost = {} /\ excused = {}

-------------------------------------------------------------------------------
(* cacheMu.                                                                *)

At(v, t) == task[v] = t
Goto(v, t) == task' = [task EXCEPT ![v] = t]
Release == cacheMu' = [cacheMu EXCEPT !.readers = @ - 1]

\* A new weed of v runs on the directory that its start has made.
Started(v) ==
  /\ weed' = [weed EXCEPT ![v] = "starting"]
  /\ dir' = dir \cup {v}
  /\ lost' = lost \ {v}

\* v ends its request while its weed may not accept connections yet: without
\* the scan of kubelet's directories nothing shows the weed to a sweep.
Unseen(V) ==
  excused' = {v \in Vols :
                \/ v \in excused /\ weed'[v] # "none"
                \/ v \in V /\ ~scan /\ weed'[v] = "starting"}

-------------------------------------------------------------------------------
(* Plausible bugs, used only to show that the properties can fail.         *)

\* A failed stage that releases the lock twice.
StageFailsBug(v) ==
  /\ At(v, "mount")
  /\ Goto(v, "idle")
  /\ cacheMu' = [cacheMu EXCEPT !.readers = @ - 2]
  /\ UNCHANGED <<scan, tracked, kubelet, weed, disk, sweep, excused>>

\* A sweep that does not look whether a stage holds the lock.
TryLockBug == TRUE

\* A sweep that leaves alone what an earlier one had moved aside.
LeftoversBug == {}

\* A sweep that goes on to its deletions without releasing the lock.
UnlockBug == UNCHANGED cacheMu

-------------------------------------------------------------------------------
(* Requests and recoveries.  None is served while the plugin starts.       *)

Ready(v) == At(v, "idle") /\ ~sweep.boot

\* NodeStageVolume, or a NodePublishVolume that has to stage again; kubelet
\* has made its directory before it calls.
StageCall(v) ==
  /\ Ready(v)
  /\ kubelet' = kubelet \cup {v}
  /\ Goto(v, "rlock")
  /\ UNCHANGED <<scan, cacheMu, tracked, weed, disk, sweep, excused>>

HoldCaches(v) ==
  /\ At(v, "rlock")
  /\ ~cacheMu.writer
  /\ cacheMu' = [cacheMu EXCEPT !.readers = @ + 1]
  /\ Goto(v, "stage")
  /\ UNCHANGED <<scan, tracked, kubelet, weed, disk, sweep, excused>>

\* The volume is tracked, or its mount serves and is adopted.
StageAdopt(v) ==
  /\ At(v, "stage")
  /\ v \in tracked \/ weed[v] = "serving"
  /\ tracked' = IF weed[v] = "serving" THEN tracked \cup {v} ELSE tracked
  /\ Goto(v, "idle")
  /\ Release
  /\ UNCHANGED <<scan, kubelet, weed, disk, sweep, excused>>

\* stageNewVolume: the mount service makes the directory and starts a weed.
StageMount(v) ==
  /\ At(v, "stage")
  /\ v \notin tracked /\ weed[v] = "none"
  /\ Goto(v, "mount")
  /\ Started(v)
  /\ excused' = excused \ {v}
  /\ UNCHANGED <<scan, cacheMu, tracked, kubelet, aside, sweep>>

\* The mount is up: the volume is recorded before the lock is released.
StageDone(v) ==
  /\ At(v, "mount")
  /\ weed[v] = "serving"
  /\ tracked' = tracked \cup {v}
  /\ Goto(v, "idle")
  /\ Release
  /\ UNCHANGED <<scan, kubelet, weed, disk, sweep, excused>>

\* The mount fails, or the client no longer waits for it, or the quota is
\* refused and the new mount unstaged.
StageFails(v) ==
  /\ task[v] \in {"stage", "mount"}
  /\ \/ UNCHANGED <<weed, disk>>
     \/ /\ At(v, "mount")
        /\ weed' = [weed EXCEPT ![v] = "none"]
        /\ dir' \in {dir, dir \ {v}}
        /\ lost' = lost \ {v}
        /\ UNCHANGED aside
  /\ Unseen({v})
  /\ Goto(v, "idle")
  /\ Release
  /\ UNCHANGED <<scan, tracked, kubelet, sweep>>

\* NodePublishVolume adopts a mount that serves, without the lock: a sweep
\* that has read the map does not learn of it.
PublishAdopt(v) ==
  /\ Ready(v)
  /\ v \in kubelet \ tracked
  /\ weed[v] = "serving"
  /\ tracked' = tracked \cup {v}
  /\ UNCHANGED <<scan, cacheMu, task, kubelet, weed, disk, sweep, excused>>

\* NodeUnstageVolume: CleanupVolumeResources removes the directory, as far as
\* that works; kubelet then removes its own.  The unmount of a volume that is
\* not tracked may fail without the request failing.
Unstage(v) ==
  /\ Ready(v)
  /\ v \in kubelet
  /\ \/ weed' = [weed EXCEPT ![v] = "none"]
     \/ v \notin tracked /\ UNCHANGED weed
  /\ dir' \in {dir, dir \ {v}}
  /\ lost' = IF weed'[v] = "none" THEN lost \ {v}
             ELSE lost \cup ({v} \ dir')
  /\ excused' = IF weed'[v] = "none" THEN excused \ {v} ELSE excused \cup {v}
  /\ tracked' = tracked \ {v}
  /\ kubelet' = kubelet \ {v}
  /\ UNCHANGED <<scan, cacheMu, task, aside, sweep>>

\* Without the scan, nothing shows the new weed of v to a sweep that has read
\* the map before v was adopted.
MapIsStale(v) == ~scan /\ cacheMu.writer /\ v \notin sweep.keep

\* recoverVolumeAs stages a dead mount again, without the lock; whether it
\* then succeeds or fails, the volume stays tracked.
Recover(v) ==
  /\ Ready(v)
  /\ v \in tracked /\ weed[v] = "none"
  /\ Started(v)
  /\ excused' = IF MapIsStale(v) THEN excused \cup {v} ELSE excused \ {v}
  /\ UNCHANGED <<scan, cacheMu, task, tracked, kubelet, aside, sweep>>

-------------------------------------------------------------------------------
(* The sweep.                                                              *)

\* TryLock: no stage holds the lock.
TryLock == cacheMu.readers = 0

\* What earlier sweeps have moved aside and not deleted.
Leftovers == aside

\* detachOrphanCacheDirs: the map is read before the directory.
SweepBegin ==
  /\ sweep.pc \in {"boot", "idle"}
  /\ TryLock
  /\ cacheMu' = [cacheMu EXCEPT !.writer = TRUE]
  /\ sweep' = [sweep EXCEPT !.pc = "list", !.keep = tracked, !.todo = dir,
                            !.detached = Leftovers]
  /\ UNCHANGED <<scan, task, tracked, kubelet, weed, disk, excused>>

\* kubeletHasStaged and isCacheOfServedMount.
KubeletHasStaged(v) == scan /\ v \in kubelet
Served(v) == weed[v] = "serving"

SweepJudge(v) ==
  /\ sweep.pc = "list" /\ v \in sweep.todo
  /\ IF v \in sweep.keep \/ KubeletHasStaged(v) \/ Served(v)
     THEN sweep' = [sweep EXCEPT !.todo = @ \ {v}]
     ELSE sweep' = [sweep EXCEPT !.todo = @ \ {v}, !.pc = "move", !.victim = v]
  /\ UNCHANGED <<scan, cacheMu, task, tracked, kubelet, weed, disk, excused>>

\* os.Rename, which fails when the directory is gone.
SweepMove ==
  /\ sweep.pc = "move"
  /\ LET v == sweep.victim
     IN \/ /\ v \in dir
           /\ dir' = dir \ {v}
           /\ aside' = aside \cup {v}
           /\ lost' = IF weed[v] = "none" THEN lost ELSE lost \cup {v}
           /\ sweep' = [sweep EXCEPT !.pc = "list", !.victim = None,
                                     !.detached = @ \cup {v}]
        \/ /\ sweep' = [sweep EXCEPT !.pc = "list", !.victim = None]
           /\ UNCHANGED disk
  /\ UNCHANGED <<scan, cacheMu, task, tracked, kubelet, weed, excused>>

Unlock == cacheMu' = [cacheMu EXCEPT !.writer = FALSE]

\* The lock is released before anything is deleted.
SweepUnlock ==
  /\ sweep.pc = "list" /\ sweep.todo = {}
  /\ Unlock
  /\ sweep' = IF sweep.detached = {} THEN NoSweep ELSE [sweep EXCEPT !.pc = "delete"]
  /\ UNCHANGED <<scan, task, tracked, kubelet, weed, disk, excused>>

\* os.RemoveAll of what was moved aside; where it fails the next sweep tries
\* again.
SweepDelete(D) ==
  /\ sweep.pc = "delete" /\ D \subseteq sweep.detached
  /\ aside' = aside \ D
  /\ sweep' = NoSweep
  /\ UNCHANGED <<scan, cacheMu, task, tracked, kubelet, weed, dir, lost, excused>>

-------------------------------------------------------------------------------
(* The environment.                                                        *)

WeedUp(v) ==
  /\ weed[v] = "starting"
  /\ weed' = [weed EXCEPT ![v] = "serving"]
  /\ UNCHANGED <<scan, cacheMu, task, tracked, kubelet, disk, sweep, excused>>

WeedDies(v) ==
  /\ weed[v] # "none"
  /\ weed' = [weed EXCEPT ![v] = "none"]
  /\ lost' = lost \ {v}
  /\ excused' = excused \ {v}
  /\ UNCHANGED <<scan, cacheMu, task, tracked, kubelet, dir, aside, sweep>>

\* NewNodeServer: the volumes kubelet has a directory for are tracked again,
\* then a first sweep runs, before requests are served.
PluginRestart ==
  /\ task' = [v \in Vols |-> "idle"]
  /\ cacheMu' = [readers |-> 0, writer |-> FALSE]
  /\ tracked' = IF scan THEN kubelet ELSE {}
  /\ sweep' = [NoSweep EXCEPT !.pc = "boot", !.boot = TRUE]
  /\ UNCHANGED <<scan, kubelet, weed, disk>>
  /\ Unseen(Vols)

-------------------------------------------------------------------------------
StageStep(v) ==
  HoldCaches(v) \/ StageAdopt(v) \/ StageMount(v) \/ StageDone(v) \/ StageFails(v)

SweepStep ==
  \/ SweepBegin \/ SweepMove \/ SweepUnlock
  \/ \E v \in Vols : SweepJudge(v)

Deletion == \E D \in SUBSET Vols : SweepDelete(D)

Next ==
  \/ \E v \in Vols :
       \/ StageCall(v) \/ StageStep(v) \/ PublishAdopt(v) \/ Unstage(v)
       \/ Recover(v) \/ WeedUp(v) \/ WeedDies(v)
  \/ SweepStep \/ Deletion \/ PluginRestart

Spec == Init /\ [][Next]_vars

\* Goroutines run and the ticker ticks.  RWMutex.Unlock lets the waiting
\* readers in.  A stage ends: its client gives up after 30 s.  Nothing is
\* assumed of how long a deletion takes.
FairSpec ==
  /\ Spec
  /\ WF_vars(SweepStep)
  /\ \A v \in Vols : WF_vars(StageStep(v)) /\ SF_vars(HoldCaches(v))

-------------------------------------------------------------------------------
(* Properties.                                                             *)

\* Type correctness, and that every stage releases the lock as often as it
\* takes it.
TypeOK ==
  /\ scan \in BOOLEAN
  /\ cacheMu \in [readers : {Cardinality({v \in Vols : task[v] \in {"stage", "mount"}})},
                  writer : BOOLEAN]
  /\ task \in [Vols -> Tasks]
  /\ tracked \subseteq Vols /\ kubelet \subseteq Vols
  /\ weed \in [Vols -> {"none", "starting", "serving"}]
  /\ dir \subseteq Vols /\ aside \subseteq Vols
  /\ sweep \in Sweep
  /\ lost \subseteq Vols /\ excused \subseteq Vols

\* A running weed never loses its cache directory to a sweep, whichever of
\* the lock, the map, kubelet's directory and the local socket shows it, and
\* however stale the sweep's reading of them is when it moves the directory.
\* Excused are a weed whose unstage could not unmount it and, without
\* StagingScanDir, one that was starting when its request ended and one that
\* a recovery starts during a sweep that had read the map before the volume
\* was adopted.
KeepsCache == lost \subseteq excused

\* A stage gets the lock, whatever a sweep is doing and however long the
\* deletion of what it moved aside takes.
StagesProceed == \A v \in Vols : At(v, "rlock") ~> ~At(v, "rlock")

\* Directories of volumes that are gone are removed in the end, those too
\* that a sweep moved aside and failed to delete or was killed before it
\* deleted, provided there are times without a stage and deletions end.
Gone(v) ==
  /\ v \notin tracked \cup kubelet
  /\ weed[v] = "none" /\ At(v, "idle")
Garbage(v) == v \in dir \cup aside
Calm ==
  /\ <>[][/\ ~PluginRestart
          /\ Deletion => aside' = aside \ sweep.detached
          /\ SweepMove => sweep.victim \notin dir']_vars
  /\ []<>(sweep.pc # "delete")
OrphansRemoved ==
  Calm => \A v \in Vols :
    <>[](Gone(v) /\ \A w \in Vols : At(w, "idle")) => <>[]~Garbage(v)
===============================================================================
