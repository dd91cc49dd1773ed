--------------------------- MODULE CacheSweepProofs ---------------------------
(***************************************************************************)
(* Proofs about CacheSweep, for any finite set of volumes: the lock counts *)
(* its readers right, and no sweep takes the cache directory of a running  *)
(* weed.  The inductive invariant says what shows a running weed to a      *)
(* sweep (Shown) and what the sweep may still rely on when it moves the    *)
(* directory it has judged (Victim).                                       *)
(***************************************************************************)
EXTENDS CacheSweep, FiniteSetTheorems, TLAPS

\* kubelet has a directory for the volumes of requests and tracked volumes.
Known ==
  /\ \A v \in Vols : task[v] # "idle" => v \in kubelet
  /\ tracked \subseteq kubelet

\* The sweep holds the lock while it lists and moves, and no stage does then.
Holders == {v \in Vols : task[v] \in {"stage", "mount"}}
Excludes ==
  /\ cacheMu.writer <=> sweep.pc \in {"list", "move"}
  /\ cacheMu.writer => Holders = {}

\* Only a running weed can have lost its directory.
LostRuns == \A v \in lost : weed[v] # "none"

\* A weed that is not excused is shown by kubelet's directory and, while it
\* does not accept connections yet and that directory is not scanned, by the
\* lock or by the map.
Shown ==
  \A v \in Vols : weed[v] # "none" /\ v \notin excused =>
    /\ v \in kubelet
    /\ ~scan /\ weed[v] = "starting" => At(v, "mount") \/ (v \in tracked /\ ~MapIsStale(v))

\* The directory being moved belongs to no weed, or to an excused one, and
\* nothing can start one unseen.
Victim ==
  sweep.pc = "move" =>
    /\ sweep.victim \in Vols \ sweep.keep
    /\ weed[sweep.victim] = "none" \/ sweep.victim \in excused
    /\ scan => /\ sweep.victim \notin tracked
               /\ sweep.victim \notin kubelet \/ At(sweep.victim, "rlock")

IInv == TypeOK /\ Known /\ Excludes /\ LostRuns /\ Shown /\ Victim /\ KeepsCache

-------------------------------------------------------------------------------
(* The lock.                                                               *)

\* The number of readers is the number of stages that hold the lock.
Counted(mu) == mu \in [readers : {Cardinality(Holders)}, writer : BOOLEAN]

\* The types of the variables other than cacheMu.
OtherTypes ==
  /\ scan \in BOOLEAN
  /\ task \in [Vols -> Tasks]
  /\ tracked \subseteq Vols /\ kubelet \subseteq Vols
  /\ weed \in [Vols -> {"none", "starting", "serving"}]
  /\ dir \subseteq Vols /\ aside \subseteq Vols
  /\ sweep \in Sweep
  /\ lost \subseteq Vols /\ excused \subseteq Vols

\* TypeOK, with the count of the lock apart from the other types.
LEMMA Types ==
  /\ TypeOK => OtherTypes /\ Counted(cacheMu)
  /\ OtherTypes' /\ Counted(cacheMu)' => TypeOK'
  BY DEF TypeOK, OtherTypes, Counted, Holders

\* The parts of the invariant that have nothing to do with the lock's count.
Rest == Known /\ Excludes /\ LostRuns /\ Shown /\ Victim /\ KeepsCache

\* The invariant, in the parts that the actions are proved to preserve.
LEMMA Parts ==
  /\ IInv => OtherTypes /\ Counted(cacheMu) /\ Rest /\ TypeOK
  /\ OtherTypes' /\ Counted(cacheMu)' /\ Rest' => IInv'
  BY Types DEF IInv, Rest

\* There are finitely many stages.
LEMMA HoldersFinite == IsFiniteSet(Holders) /\ Cardinality(Holders) \in Nat
  BY SweepAssumption, FS_Subset, FS_CardinalityType DEF Holders

\* A stage of v takes the lock.
LEMMA TakesLock ==
  ASSUME TypeOK, NEW v \in Vols, v \notin Holders, Goto(v, "stage"),
         cacheMu' = [cacheMu EXCEPT !.readers = @ + 1]
  PROVE  Counted(cacheMu)'
<1>1. Holders' = Holders \cup {v}
  BY DEF Holders, Goto, TypeOK
<1>2. Cardinality(Holders') = Cardinality(Holders) + 1
  BY <1>1, HoldersFinite, FS_AddElement
<1> QED
  BY <1>2, Types DEF Counted

\* A stage of v releases it.
LEMMA ReleasesLock ==
  ASSUME TypeOK, NEW v \in Vols, v \in Holders, Goto(v, "idle"), Release
  PROVE  Counted(cacheMu)' /\ cacheMu'.writer = cacheMu.writer
<1>1. Holders' = Holders \ {v}
  BY DEF Holders, Goto, TypeOK
<1>2. Cardinality(Holders') = Cardinality(Holders) - 1
  BY <1>1, HoldersFinite, FS_RemoveElement
<1> QED
  BY <1>2, Types DEF Counted, Release

\* The lock changes hands without a stage.
LEMMA SameHolders ==
  ASSUME TypeOK, Holders' = Holders, NEW b \in BOOLEAN,
         cacheMu' = [cacheMu EXCEPT !.writer = b] \/ (cacheMu' = cacheMu /\ b = cacheMu.writer)
  PROVE  Counted(cacheMu)' /\ cacheMu'.writer = b
  BY Types DEF Counted

-------------------------------------------------------------------------------
(* Requests.                                                               *)

\* kubelet makes its directory and calls.
LEMMA StageCallKeeps ==
  ASSUME IInv, NEW v \in Vols, StageCall(v)
  PROVE  IInv'
<1> USE Parts
<1>1. Holders' = Holders /\ UNCHANGED cacheMu
  BY DEF StageCall, Ready, At, Goto, Holders, OtherTypes
<1>2. Counted(cacheMu)'
  BY <1>1 DEF Counted
<1>3. OtherTypes'
  BY DEF StageCall, Goto, OtherTypes, Tasks, disk
<1>4. Rest'
  BY <1>1 DEF StageCall, Ready, At, Goto, OtherTypes, Rest, Known, Excludes, LostRuns, Shown,
              Victim, KeepsCache, MapIsStale, disk
<1> QED
  BY <1>2, <1>3, <1>4

\* The stage takes the lock: there is no sweep.
LEMMA HoldCachesKeeps ==
  ASSUME IInv, NEW v \in Vols, HoldCaches(v)
  PROVE  IInv'
<1> USE Parts
<1>1. Counted(cacheMu)'
  BY TakesLock DEF HoldCaches, At, Holders
<1>2. ~cacheMu.writer /\ ~cacheMu'.writer
  BY DEF HoldCaches, Counted
<1>3. OtherTypes'
  BY DEF HoldCaches, Goto, OtherTypes, Tasks, disk
<1>4. Rest'
  BY <1>2 DEF HoldCaches, At, Goto, OtherTypes, Rest, Known, Excludes, LostRuns, Shown,
              Victim, KeepsCache, MapIsStale, disk
<1> QED
  BY <1>1, <1>3, <1>4

\* The volume is adopted or its mount is up.
LEMMA StageEndsKeeps ==
  ASSUME IInv, NEW v \in Vols, StageAdopt(v) \/ StageDone(v)
  PROVE  IInv'
<1> USE Parts
<1>1. v \in Holders /\ Goto(v, "idle") /\ Release
  BY DEF StageAdopt, StageDone, At, Holders
<1>2. Counted(cacheMu)' /\ ~cacheMu.writer /\ ~cacheMu'.writer
  BY <1>1, ReleasesLock DEF Rest, Excludes
<1>3. OtherTypes'
  BY <1>1 DEF StageAdopt, StageDone, Goto, OtherTypes, Tasks, disk
<1>4. /\ tracked \subseteq tracked' /\ tracked' \subseteq tracked \cup {v}
      /\ At(v, "mount") => weed[v] = "serving"
      /\ UNCHANGED <<scan, kubelet, weed, lost, sweep, excused>>
  BY DEF StageAdopt, StageDone, At, disk
<1>5. Rest'
  BY <1>1, <1>2, <1>4 DEF At, Goto, OtherTypes, Rest, Known, Excludes, Holders, LostRuns, Shown,
                     Victim, KeepsCache, MapIsStale
<1> QED
  BY <1>2, <1>3, <1>5

\* The mount service starts a weed, under the lock.
LEMMA StageMountKeeps ==
  ASSUME IInv, NEW v \in Vols, StageMount(v)
  PROVE  IInv'
<1> USE Parts
<1>1. Holders' = Holders /\ v \in Holders /\ UNCHANGED cacheMu
  BY DEF StageMount, At, Goto, Holders, OtherTypes
<1>2. Counted(cacheMu)' /\ ~cacheMu.writer
  BY <1>1 DEF Counted, Rest, Excludes
<1>3. OtherTypes'
  BY DEF StageMount, Started, Goto, OtherTypes, Tasks
<1>4. Rest'
  BY <1>1, <1>2 DEF StageMount, Started, At, Goto, OtherTypes, Rest, Known, Excludes, LostRuns,
                    Shown, Victim, KeepsCache, MapIsStale
<1> QED
  BY <1>2, <1>3, <1>4

\* The stage fails; its weed may go on.
LEMMA StageFailsKeeps ==
  ASSUME IInv, NEW v \in Vols, StageFails(v)
  PROVE  IInv'
<1> USE Parts
<1>1. v \in Holders /\ Goto(v, "idle") /\ Release
  BY DEF StageFails, Holders
<1>2. Counted(cacheMu)' /\ ~cacheMu.writer /\ ~cacheMu'.writer
  BY <1>1, ReleasesLock DEF Rest, Excludes
<1>3. weed' \in [Vols -> {"none", "starting", "serving"}]
  BY DEF StageFails, OtherTypes, disk
<1>4. OtherTypes'
  BY <1>1, <1>3 DEF StageFails, Goto, Unseen, OtherTypes, Tasks, disk
<1>5. /\ \A w \in Vols : w # v => weed'[w] = weed[w]
      /\ weed'[v] \in {weed[v], "none"}
      /\ lost' \subseteq lost /\ (weed'[v] = "none" => v \notin lost')
      /\ UNCHANGED <<scan, tracked, kubelet, sweep>>
  BY DEF StageFails, OtherTypes, disk, Rest, LostRuns
<1>6. \A w \in Vols : w \in excused' <=> \/ w \in excused /\ weed'[w] # "none"
                                         \/ w = v /\ ~scan /\ weed'[w] = "starting"
  BY DEF StageFails, Unseen
<1>7. Rest'
  <2>1. Known' /\ Excludes' /\ Victim'
    BY <1>1, <1>2, <1>5 DEF At, Goto, OtherTypes, Rest, Known, Excludes, Victim
  <2>2. LostRuns' /\ KeepsCache'
    BY <1>4, <1>5, <1>6 DEF Rest, LostRuns, KeepsCache, OtherTypes
  <2>3. Shown'
    BY <1>1, <1>2, <1>5, <1>6 DEF At, Goto, OtherTypes, Rest, Shown, MapIsStale
  <2> QED
    BY <2>1, <2>2, <2>3 DEF Rest
<1> QED
  BY <1>2, <1>4, <1>7

\* A publish adopts a mount that serves.
LEMMA PublishAdoptKeeps ==
  ASSUME IInv, NEW v \in Vols, PublishAdopt(v)
  PROVE  IInv'
<1> USE Parts
<1>1. Holders' = Holders /\ UNCHANGED cacheMu /\ Counted(cacheMu)'
  BY DEF PublishAdopt, Holders, Counted
<1>2. OtherTypes'
  BY DEF PublishAdopt, OtherTypes, disk
<1>3. Rest'
  BY <1>1 DEF PublishAdopt, Ready, At, OtherTypes, Rest, Known, Excludes, LostRuns, Shown,
              Victim, KeepsCache, MapIsStale, disk
<1> QED
  BY <1>1, <1>2, <1>3

\* The volume is unstaged, its weed with it or not.
LEMMA UnstageKeeps ==
  ASSUME IInv, NEW v \in Vols, Unstage(v)
  PROVE  IInv'
<1> USE Parts
<1>1. Holders' = Holders /\ UNCHANGED cacheMu /\ Counted(cacheMu)'
  BY DEF Unstage, Holders, Counted
<1>2. weed' \in [Vols -> {"none", "starting", "serving"}]
  BY DEF Unstage, OtherTypes
<1>3. OtherTypes'
  BY <1>2 DEF Unstage, OtherTypes
<1>4. /\ \A w \in Vols : w # v => weed'[w] = weed[w]
      /\ weed'[v] \in {weed[v], "none"}
      /\ lost' \subseteq lost \cup {v} /\ (weed'[v] = "none" => v \notin lost')
      /\ IF weed'[v] = "none" THEN excused' = excused \ {v} ELSE excused' = excused \cup {v}
      /\ tracked' = tracked \ {v} /\ kubelet' = kubelet \ {v}
      /\ UNCHANGED <<scan, task, sweep>> /\ task[v] = "idle"
  BY DEF Unstage, OtherTypes, Rest, LostRuns, Ready, At
<1>5. Rest'
  <2>1. Known' /\ Excludes'
    BY <1>1, <1>4 DEF OtherTypes, Rest, Known, Excludes
  <2>2. LostRuns' /\ KeepsCache'
    BY <1>3, <1>4 DEF Rest, LostRuns, KeepsCache, OtherTypes
  <2>3. Shown' /\ Victim'
    BY <1>1, <1>4 DEF At, OtherTypes, Rest, Shown, Victim, MapIsStale
  <2> QED
    BY <2>1, <2>2, <2>3 DEF Rest
<1> QED
  BY <1>1, <1>3, <1>5

\* A recovery starts a weed without the lock.
LEMMA RecoverKeeps ==
  ASSUME IInv, NEW v \in Vols, Recover(v)
  PROVE  IInv'
<1> USE Parts
<1>1. Holders' = Holders /\ UNCHANGED cacheMu /\ Counted(cacheMu)'
  BY DEF Recover, Holders, Counted
<1>2. OtherTypes'
  BY DEF Recover, Started, OtherTypes
<1>3. Rest'
  BY <1>1 DEF Recover, Started, Ready, At, OtherTypes, Rest, Known, Excludes, LostRuns, Shown,
              Victim, KeepsCache, MapIsStale
<1> QED
  BY <1>1, <1>2, <1>3

-------------------------------------------------------------------------------
(* The sweep.                                                              *)

\* The record of the sweep with another pc.
LEMMA SweepPc ==
  ASSUME NEW r \in Sweep, NEW x \in {"boot", "idle", "list", "move", "delete"}
  PROVE  LET s == [r EXCEPT !.pc = x]
         IN  s \in Sweep /\ s.pc = x /\ s.keep = r.keep /\ s.victim = r.victim
  BY DEF Sweep

\* The record of the sweep with another keep.
LEMMA SweepKeep ==
  ASSUME NEW r \in Sweep, NEW x \in SUBSET Vols
  PROVE  LET s == [r EXCEPT !.keep = x]
         IN  s \in Sweep /\ s.pc = r.pc /\ s.keep = x /\ s.victim = r.victim
  BY DEF Sweep

\* The record of the sweep with another todo.
LEMMA SweepTodo ==
  ASSUME NEW r \in Sweep, NEW x \in SUBSET Vols
  PROVE  LET s == [r EXCEPT !.todo = x]
         IN  s \in Sweep /\ s.pc = r.pc /\ s.keep = r.keep /\ s.victim = r.victim
  BY DEF Sweep

\* The record of the sweep with another detached.
LEMMA SweepDetached ==
  ASSUME NEW r \in Sweep, NEW x \in SUBSET Vols
  PROVE  LET s == [r EXCEPT !.detached = x]
         IN  s \in Sweep /\ s.pc = r.pc /\ s.keep = r.keep /\ s.victim = r.victim
  BY DEF Sweep

\* The record of the sweep with another victim.
LEMMA SweepVictimIs ==
  ASSUME NEW r \in Sweep, NEW x \in Vols \cup {None}
  PROVE  LET s == [r EXCEPT !.victim = x]
         IN  s \in Sweep /\ s.pc = r.pc /\ s.keep = r.keep /\ s.victim = x
  BY DEF Sweep

\* The goroutine without a sweep, also while the plugin starts.
LEMMA NoSweepType ==
  /\ NoSweep \in Sweep /\ NoSweep.pc = "idle"
  /\ [NoSweep EXCEPT !.pc = "boot", !.boot = TRUE] \in Sweep
  /\ [NoSweep EXCEPT !.pc = "boot", !.boot = TRUE].pc = "boot"
  BY DEF NoSweep, Sweep

\* The sweep reads the map under the lock, which no stage holds.
LEMMA SweepBeginKeeps ==
  ASSUME IInv, SweepBegin
  PROVE  IInv'
<1> USE Parts
<1>1. Holders' = Holders /\ Holders = {}
  BY HoldersFinite, FS_EmptySet DEF SweepBegin, TryLock, Counted, Holders
<1>2. Counted(cacheMu)' /\ cacheMu'.writer
  BY <1>1 DEF SweepBegin, Counted
<1>3. sweep' \in Sweep /\ sweep'.pc = "list" /\ sweep'.keep = tracked
  <2> DEFINE s1 == [sweep EXCEPT !.pc = "list"]
             s2 == [s1 EXCEPT !.keep = tracked]
             s3 == [s2 EXCEPT !.todo = dir]
             s4 == [s3 EXCEPT !.detached = aside]
  <2>1. sweep' = s4
    BY DEF SweepBegin, Leftovers
  <2>0. sweep \in Sweep /\ tracked \in SUBSET Vols /\ dir \in SUBSET Vols /\ aside \in SUBSET Vols
    BY DEF OtherTypes
  <2>2. s1 \in Sweep /\ s1.pc = "list"
    BY <2>0, SweepPc
  <2> HIDE DEF s1
  <2>3. s2 \in Sweep /\ s2.pc = "list" /\ s2.keep = tracked
    BY <2>0, <2>2, SweepKeep
  <2> HIDE DEF s2
  <2>4. s3 \in Sweep /\ s3.pc = "list" /\ s3.keep = tracked
    BY <2>0, <2>3, SweepTodo
  <2> HIDE DEF s3
  <2>5. s4 \in Sweep /\ s4.pc = "list" /\ s4.keep = tracked
    BY <2>0, <2>4, SweepDetached
  <2> QED
    BY <2>1, <2>5
<1>4. OtherTypes'
  BY <1>3 DEF SweepBegin, OtherTypes, disk
<1>5. Rest'
  BY <1>1, <1>2, <1>3
  DEF SweepBegin, disk, OtherTypes, Rest, Known, Excludes, LostRuns, Shown, Victim, KeepsCache,
      MapIsStale, At
<1> QED
  BY <1>2, <1>4, <1>5

\* A directory is judged: nothing shows a weed on it.
LEMMA SweepJudgeKeeps ==
  ASSUME IInv, NEW v \in Vols, SweepJudge(v)
  PROVE  IInv'
<1> USE Parts
<1>1. /\ Holders' = Holders /\ Counted(cacheMu)' /\ UNCHANGED cacheMu /\ cacheMu.writer
      /\ Holders = {}
  BY DEF SweepJudge, Holders, Counted, Rest, Excludes
<1>2. UNCHANGED <<scan, task, tracked, kubelet, weed, dir, aside, lost, excused>>
  BY DEF SweepJudge, disk
<1> DEFINE s1 == [sweep EXCEPT !.todo = @ \ {v}]
           s2 == [s1 EXCEPT !.pc = "move"]
           s3 == [s2 EXCEPT !.victim = v]
<1>3. s1 \in Sweep /\ s1.pc = "list" /\ s1.keep = sweep.keep
  <2>1. sweep \in Sweep /\ sweep.pc = "list" /\ sweep.todo \ {v} \in SUBSET Vols
    BY DEF SweepJudge, OtherTypes, Sweep
  <2> QED
    BY <2>1, SweepTodo
<1>4. CASE v \in sweep.keep \/ KubeletHasStaged(v) \/ Served(v)
  <2>1. sweep' = s1
    BY <1>4 DEF SweepJudge
  <2> HIDE DEF s1
  <2>2. OtherTypes'
    BY <1>2, <1>3, <2>1 DEF OtherTypes
  <2>3. Rest'
    BY <1>1, <1>2, <1>3, <2>1
    DEF OtherTypes, Rest, Known, Excludes, LostRuns, Shown, Victim, KeepsCache, MapIsStale, At
  <2> QED
    BY <1>1, <2>2, <2>3
<1>5. CASE ~(v \in sweep.keep \/ KubeletHasStaged(v) \/ Served(v))
  <2>1. sweep' = s3
    BY <1>5 DEF SweepJudge
  <2> HIDE DEF s1
  <2>2. s2 \in Sweep /\ s2.pc = "move" /\ s2.keep = sweep.keep
    BY <1>3, SweepPc
  <2> HIDE DEF s2
  <2>3. s3 \in Sweep /\ s3.pc = "move" /\ s3.keep = sweep.keep /\ s3.victim = v
    BY <2>2, SweepVictimIs
  <2> HIDE DEF s3
  <2>4. OtherTypes'
    BY <1>2, <2>1, <2>3 DEF OtherTypes
  <2>5. weed[v] = "none" \/ v \in excused
    <3>1. ~At(v, "mount") /\ (~scan => MapIsStale(v))
      BY <1>1, <1>5 DEF At, Holders, MapIsStale
    <3>2. scan => v \notin kubelet
      BY <1>5 DEF KubeletHasStaged
    <3>3. weed[v] \in {"none", "starting"}
      BY <1>5 DEF Served, OtherTypes
    <3> QED
      BY <3>1, <3>2, <3>3 DEF Rest, Shown, OtherTypes
  <2>6. Victim'
    BY <1>2, <1>5, <2>1, <2>3, <2>5 DEF Victim, Rest, Known, KubeletHasStaged
  <2>7. Rest'
    BY <1>1, <1>2, <2>1, <2>3, <2>6
    DEF OtherTypes, Rest, Known, Excludes, LostRuns, Shown, KeepsCache, MapIsStale, At
  <2> QED
    BY <1>1, <2>4, <2>7
<1> QED
  BY <1>4, <1>5

\* The directory is moved aside, or was gone.
LEMMA SweepMoveKeeps ==
  ASSUME IInv, SweepMove
  PROVE  IInv'
<1> USE Parts
<1> DEFINE v == sweep.victim
           s1 == [sweep EXCEPT !.pc = "list"]
           s2 == [s1 EXCEPT !.victim = None]
           s3 == [s2 EXCEPT !.detached = sweep.detached \cup {v}]
<1>1. /\ Holders' = Holders /\ Counted(cacheMu)' /\ UNCHANGED cacheMu /\ cacheMu.writer
      /\ Holders = {} /\ v \in Vols /\ sweep \in Sweep /\ sweep.pc = "move"
      /\ sweep.detached \cup {v} \in SUBSET Vols
  BY DEF SweepMove, Holders, Counted, Rest, Excludes, Victim, OtherTypes, Sweep
<1>2. /\ UNCHANGED <<scan, task, tracked, kubelet, weed, excused>>
      /\ lost' \subseteq lost \cup {w \in {v} : weed[w] # "none"}
      /\ dir' \subseteq dir /\ aside' \subseteq aside \cup {v}
  BY DEF SweepMove, disk
<1>3. sweep' \in {s2, s3}
  BY DEF SweepMove
<1>4. s1 \in Sweep /\ s1.pc = "list" /\ s1.keep = sweep.keep
  BY <1>1, SweepPc
<1> HIDE DEF s1
<1>5. s2 \in Sweep /\ s2.pc = "list" /\ s2.keep = sweep.keep
  BY <1>4, SweepVictimIs
<1> HIDE DEF s2
<1>6. s3 \in Sweep /\ s3.pc = "list" /\ s3.keep = sweep.keep
  BY <1>1, <1>5, SweepDetached
<1> HIDE DEF s3
<1>7. OtherTypes'
  BY <1>1, <1>2, <1>3, <1>5, <1>6 DEF OtherTypes
<1>8. LostRuns' /\ KeepsCache'
  BY <1>1, <1>2 DEF Rest, Victim, LostRuns, KeepsCache
<1>9. Rest'
  BY <1>1, <1>2, <1>3, <1>5, <1>6, <1>8
  DEF OtherTypes, Rest, Known, Excludes, Shown, Victim, MapIsStale, At
<1> QED
  BY <1>1, <1>7, <1>9

\* The lock is released, and what was moved aside deleted.
LEMMA SweepEndsKeeps ==
  ASSUME IInv, SweepUnlock \/ \E D \in SUBSET Vols : SweepDelete(D)
  PROVE  IInv'
<1> USE Parts
<1>1. sweep' \in Sweep /\ sweep'.pc \in {"idle", "delete"}
  <2>1. [sweep EXCEPT !.pc = "delete"] \in Sweep /\ [sweep EXCEPT !.pc = "delete"].pc = "delete"
    BY SweepPc DEF OtherTypes
  <2>2. sweep' \in {NoSweep, [sweep EXCEPT !.pc = "delete"]}
    BY DEF SweepUnlock, SweepDelete
  <2> QED
    BY ONLY <2>1, <2>2, NoSweepType
<1>2. /\ UNCHANGED <<scan, task, tracked, kubelet, weed, dir, lost, excused>>
      /\ aside' \subseteq aside
  BY DEF SweepUnlock, SweepDelete, disk
<1>3. Holders' = Holders /\ Counted(cacheMu)' /\ ~cacheMu'.writer
  <2>1. CASE SweepUnlock
    BY <1>2, <2>1 DEF SweepUnlock, Unlock, Holders, Counted
  <2>2. CASE \E D \in SUBSET Vols : SweepDelete(D)
    BY <1>2, <2>2 DEF SweepDelete, Holders, Counted, Rest, Excludes
  <2> QED
    BY <2>1, <2>2
<1>4. OtherTypes'
  BY <1>1, <1>2 DEF OtherTypes
<1>5. Rest'
  BY <1>1, <1>2, <1>3
  DEF OtherTypes, Rest, Known, Excludes, LostRuns, Shown, Victim, KeepsCache, MapIsStale, At
<1> QED
  BY <1>3, <1>4, <1>5

-------------------------------------------------------------------------------
(* The environment.                                                        *)

\* A weed comes up or dies.
LEMMA WeedKeeps ==
  ASSUME IInv, NEW v \in Vols, WeedUp(v) \/ WeedDies(v)
  PROVE  IInv'
<1> USE Parts
<1>1. Holders' = Holders /\ UNCHANGED cacheMu /\ Counted(cacheMu)'
  BY DEF WeedUp, WeedDies, Holders, Counted
<1>2. OtherTypes'
  BY DEF WeedUp, WeedDies, OtherTypes, disk
<1>3. Rest'
  BY <1>1 DEF WeedUp, WeedDies, At, OtherTypes, Rest, Known, Excludes, LostRuns, Shown, Victim,
              KeepsCache, MapIsStale, disk
<1> QED
  BY <1>1, <1>2, <1>3

\* The plugin restarts.
LEMMA RestartKeeps ==
  ASSUME IInv, PluginRestart
  PROVE  IInv'
<1> USE Parts
<1>1. Holders' = {} /\ Counted(cacheMu)' /\ ~cacheMu'.writer
  BY FS_EmptySet DEF PluginRestart, Holders, Counted
<1>2. sweep' \in Sweep /\ sweep'.pc = "boot"
  BY NoSweepType DEF PluginRestart
<1>3. OtherTypes'
  BY <1>2 DEF PluginRestart, Unseen, OtherTypes, Tasks, disk
<1>4. \A w \in Vols : w \in excused' <=> \/ w \in excused /\ weed[w] # "none"
                                         \/ ~scan /\ weed[w] = "starting"
  BY DEF PluginRestart, Unseen
<1>5. Rest'
  BY <1>1, <1>2, <1>3, <1>4
  DEF PluginRestart, disk, OtherTypes, Rest, Known, Excludes, LostRuns, Shown, Victim,
      KeepsCache, MapIsStale, At
<1> QED
  BY <1>1, <1>3, <1>5

-------------------------------------------------------------------------------
(* Theorems.                                                               *)

\* The invariant holds initially.
LEMMA InitIInv == Init => IInv
<1> SUFFICES ASSUME Init PROVE IInv
  OBVIOUS
<1>1. Holders = {} /\ Cardinality(Holders) = 0
  BY FS_EmptySet DEF Init, Holders
<1>2. TypeOK
  BY <1>1, NoSweepType DEF Init, TypeOK, Tasks, Holders
<1> QED
  BY <1>1, <1>2, NoSweepType
  DEF Init, IInv, Known, Excludes, LostRuns, Shown, Victim, KeepsCache

\* Every step keeps the invariant.
LEMMA NextIInv == IInv /\ [Next]_vars => IInv'
<1> SUFFICES ASSUME IInv, [Next]_vars PROVE IInv'
  OBVIOUS
<1>1. ASSUME NEW v \in Vols, StageStep(v) PROVE IInv'
  BY <1>1, HoldCachesKeeps, StageEndsKeeps, StageMountKeeps, StageFailsKeeps DEF StageStep
<1>2. CASE SweepStep \/ Deletion
  BY <1>2, SweepBeginKeeps, SweepJudgeKeeps, SweepMoveKeeps, SweepEndsKeeps
  DEF SweepStep, Deletion
<1>3. CASE UNCHANGED vars
  BY <1>3 DEF vars, IInv, TypeOK, Known, Excludes, Holders, LostRuns, Shown, Victim, KeepsCache,
              MapIsStale, At
<1> QED
  BY <1>1, <1>2, <1>3, StageCallKeeps, PublishAdoptKeeps, UnstageKeeps, RecoverKeeps, WeedKeeps,
     RestartKeeps
  DEF Next

\* The inductive invariant of the cache sweep.
THEOREM SweepInvariance == Spec => []IInv
  BY InitIInv, NextIInv, PTL DEF Spec

\* The types hold, and cacheMu counts exactly the stages that hold it: every
\* path through NodeStageVolume and NodePublishVolume releases it once.
THEOREM SweepTypeCorrect == Spec => []TypeOK
<1>1. IInv => TypeOK
  BY DEF IInv
<1> QED
  BY <1>1, SweepInvariance, PTL

\* No sweep moves the cache directory of a running weed that the lock, the
\* map, kubelet's directory or the socket shows, for any number of volumes.
THEOREM KeepsCacheCorrect == Spec => []KeepsCache
<1>1. IInv => KeepsCache
  BY DEF IInv
<1> QED
  BY <1>1, SweepInvariance, PTL
===============================================================================
