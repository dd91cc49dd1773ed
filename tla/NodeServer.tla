------------------------------ MODULE NodeServer ------------------------------
(***************************************************************************)
(* The node plugin's handling of one volume: the CSI requests              *)
(* NodeStageVolume, NodePublishVolume, NodeUnpublishVolume and             *)
(* NodeUnstageVolume, the health monitor's goroutine with its recovery and *)
(* publish retry, the mutex they share through KeyMutex, and what they act *)
(* on: the mount at the staging path, the bind mounts at the publish       *)
(* paths, the mount service and kubelet's own records.                     *)
(*                                                                         *)
(* The mount service is the one MountManager describes, seen from its      *)
(* client: a request to it is one step (the service serialises requests    *)
(* per volume), but for a mount that its client has given up on, which may *)
(* come up later (bound: one at a time).  A health probe is one step with  *)
(* a nondeterministic answer for a mount that serves but is busy.  The     *)
(* failed checks that lead up to a recovery are not counted: a recovery    *)
(* may start whenever its last check allows it.                            *)
(***************************************************************************)
EXTENDS Naturals, FiniteSets

CONSTANTS Paths,       \* publish target paths
          RO,          \* the paths published read-only
          Rpcs,        \* goroutines serving CSI requests
          Hm,          \* the health monitor's goroutine for the volume
          Mounts,      \* FUSE mounts, each with its own weed process
          Locks,       \* mutex objects
          HasContext,  \* whether requests carry a volume context
          None,        \* no mount, no volume, no path, no mutex
          Bare         \* a bind of the bare directory under the staging mount

Actors == Rpcs \cup {Hm}

ASSUME NodeAssumption ==
  /\ RO \subseteq Paths
  /\ Hm \notin Rpcs
  /\ HasContext \in BOOLEAN
  /\ None \notin Paths \cup Mounts \cup Locks
  /\ Bare \notin Mounts \cup {None}

VARIABLES
  mutex,    \* KeyMutex: the mutex object the volume id maps to
  act,      \* act[a]: where goroutine a is, and its locals
  vol,      \* NodeServer.volumes: the tracked Volume, or None
  staging,  \* the mount at the staging path, or None
  bind,     \* bind[p]: the bind mount at publish path p
  fuse,     \* fuse[m]: whether the weed of m answers, hangs or is dead
  reg,      \* the mount service's registered mount of the volume
  owed,     \* whether the service works on a /mount request its client has given
            \* up on ("now"), or has since the last recovery began ("was")
  kst,      \* kubelet's view of the staging: "no", "trying" or "staged"
  disk,     \* the publish paths kubelet has a vol_data.json for
  pub,      \* ghost: what the last request made of each path, published or
            \* withdrawn, and whether the plugin has restarted since ("old...")
  split,    \* ghost: a mutex object was removed while another goroutine waited on it
  adrift    \* ghost: kubelet has given up on a request and gone on, or a restarted
            \* plugin has not found all that kubelet has a record of

vars == <<mutex, act, vol, staging, bind, fuse, reg, owed, kst, disk, pub, split, adrift>>
world == <<staging, bind, fuse, reg, owed>>
kubelet == <<kst, disk, pub, adrift>>

-------------------------------------------------------------------------------
(* State.                                                                  *)

Modes == {"no", "rw", "ro"}
NoPaths == [p \in Paths |-> "no"]
Volume == [unm : BOOLEAN, ctx : BOOLEAN, paths : [Paths -> Modes]]
ASSUME VolumeAssumption == None \notin Volume

Bind == [src : Mounts \cup {None, Bare}, mode : Modes]
NoBind == [src |-> None, mode |-> "no"]

PCs == {"idle", "lock", "enter", "clean", "mount", "quota", "bind", "unbind",
        "service", "recheck", "detach", "teardown", "rebind"}
Ops == {"none", "stage", "publish", "unpublish", "unstage", "retry", "recover"}
Act == [pc : PCs, op : Ops, path : Paths \cup {None}, lock : Locks \cup {None},
        heard : BOOLEAN, mine : BOOLEAN, hung : BOOLEAN, unm : BOOLEAN,
        snap : [Paths -> Modes], down : SUBSET Paths]
Idle == [pc |-> "idle", op |-> "none", path |-> None, lock |-> None,
         heard |-> FALSE, mine |-> FALSE, hung |-> FALSE, unm |-> FALSE,
         snap |-> NoPaths, down |-> {}]

Init ==
  /\ mutex \in Locks
  /\ act = [a \in Actors |-> Idle]
  /\ vol = None
  /\ staging = None
  /\ bind = [p \in Paths |-> NoBind]
  /\ fuse = [m \in Mounts |-> "dead"]
  /\ reg = None
  /\ owed = "no"
  /\ kst = "no"
  /\ disk = {}
  /\ pub = [p \in Paths |-> "no"]
  /\ split = FALSE
  /\ adrift = FALSE

-------------------------------------------------------------------------------
(* Plausible bugs, used only to show that the properties can fail.         *)

\* A probe whose timeout counts as death.
HealthBug(x) ==
  CASE x = None -> {"dead"}
    [] x = Bare -> {"ok"}
    [] OTHER -> [ok |-> {"ok", "dead"}, hung |-> {"dead"}, dead |-> {"dead"}][fuse[x]]

\* RemoveMutex that leaves a nil mutex behind.
RemoveMutexBug(a) == mutex' = None /\ UNCHANGED split

\* Unpublish that leaves the path tracked until its unmount has worked.
UnpublishBug(r) ==
  /\ act[r].pc = "enter" /\ act[r].op = "unpublish"
  /\ pub' = [pub EXCEPT ![act[r].path] = "gone"]
  /\ act' = [act EXCEPT ![r].pc = "unbind", ![r].mine = (vol # None)]
  /\ UNCHANGED <<mutex, split, vol, world, kst, disk, adrift>>

\* An unpublish that reports success although its unmount failed.
UnbindFailsBug(r) ==
  /\ act[r].pc = "unbind"
  /\ act' = [act EXCEPT ![r] = Idle]
  /\ disk' = IF act[r].heard THEN disk \ {act[r].path} ELSE disk
  /\ UNCHANGED <<mutex, split, vol, world, kst, pub, adrift>>

\* A recovery without the manager-level unmount.
HasUnmounterBug == FALSE

\* A recovery that waits for the mount to be dead instead of giving up.
AbortBug ==
  /\ act[Hm].pc = "enter" /\ (vol = None \/ act[Hm].op = "retry")
  /\ act' = [act EXCEPT ![Hm] = Idle]
  /\ UNCHANGED <<mutex, split, vol, world, kubelet>>

\* A check of the publish paths that takes one without a mount for healthy.
DeadPathsBug(f) ==
  {p \in Paths : f[p] # "no" /\ bind[p].src \in Mounts /\ fuse[bind[p].src] = "dead"}

\* A recovery whose new volume tracks only the paths it could bind.
RebindBug(D) ==
  /\ act[Hm].pc = "rebind"
  /\ D \subseteq act[Hm].down
  /\ bind' = [p \in Paths |-> IF p \in D THEN [src |-> staging, mode |-> "rw"] ELSE bind[p]]
  /\ vol' = [unm |-> TRUE, ctx |-> TRUE,
             paths |-> [p \in Paths |-> IF p \in D THEN "rw" ELSE "no"]]
  /\ act' = [act EXCEPT ![Hm] = Idle]
  /\ UNCHANGED <<mutex, split, staging, fuse, reg, owed, kubelet>>

\* A recovery that binds every path read-write.
RebindModeBug(D) ==
  /\ act[Hm].pc = "rebind"
  /\ D \subseteq act[Hm].down
  /\ bind' = [p \in Paths |-> IF p \in D THEN [src |-> staging, mode |-> "rw"] ELSE bind[p]]
  /\ vol' = [unm |-> TRUE, ctx |-> TRUE, paths |-> act[Hm].snap]
  /\ act' = [act EXCEPT ![Hm] = Idle]
  /\ UNCHANGED <<mutex, split, staging, fuse, reg, owed, kubelet>>

\* A restarted plugin that waits for kubelet to stage the volume again.
PluginRestartBug ==
  /\ act' = [a \in Actors |-> Idle]
  /\ vol' = None
  /\ UNCHANGED <<mutex, split, world, kubelet>>

-------------------------------------------------------------------------------
(* What the plugin sees of a mount, and small helpers.                     *)

Mode(p) == IF p \in RO THEN "ro" ELSE "rw"
Alive(m) == m \in Mounts /\ fuse[m] # "dead"
At(a, l) == act[a].pc = l
Goto(a, l) == act' = [act EXCEPT ![a].pc = l]
PathsOf(f) == {p \in Paths : f[p] # "no"}

\* A weed process no mount and no registration refers to may be reused.
Unused(m) ==
  /\ fuse[m] = "dead"
  /\ m \notin {staging, reg}
  /\ \A p \in Paths : bind[p].src # m

\* stagingPathHealth of a path with mount x on it.  A path without a mount is
\* dead, a bare bind answers from the host's file system, and a busy weed may
\* leave the probe unanswered for its 30 s.
Health(x) ==
  CASE x = None -> {"dead"}
    [] x = Bare -> {"ok"}
    [] OTHER -> [ok |-> {"ok", "slow"}, hung |-> {"slow"}, dead |-> {"dead"}][fuse[x]]

\* The probe has been left unanswered longer than a busy weed ever leaves it.
Unanswered(x) == x \in Mounts /\ fuse[x] = "hung"
DeadPaths(f) == {p \in PathsOf(f) : "dead" \in Health(bind[p].src)}

-------------------------------------------------------------------------------
(* The per-volume mutex, and how a handler ends.                           *)

\* GetMutex: the mutex object the id maps to now.
GetMutex == mutex

LockFree(a) ==
  \A b \in Actors \ {a} : act[b].lock = act[a].lock => act[b].pc \in {"idle", "lock"}

\* RemoveMutex: the id forgets its object, whoever waits on it; the next
\* GetMutex makes a new one.
RemoveMutex(a) ==
  /\ mutex' \in {l \in Locks : \A b \in Actors \ {a} : act[b].lock # l}
  /\ split' = (split \/ \E b \in Actors \ {a} : act[b].lock = mutex)

KeepMutex == UNCHANGED <<mutex, split>>

\* volumes.Store and volumes.Delete by a, which goes on as r: a Volume object
\* other goroutines have loaded is no longer the tracked one.
Store(a, v, r) ==
  /\ vol' = v
  /\ act' = [b \in Actors |-> IF b = a THEN r ELSE [act[b] EXCEPT !.mine = FALSE]]

Return(a) == act' = [act EXCEPT ![a] = Idle]

\* What an answer changes for kubelet, if kubelet still waits for it.
Succeeds(a) ==
  LET r == act[a]
  IN /\ kst' = CASE r.heard /\ r.op = "stage" /\ kst = "trying" -> "staged"
                 [] r.heard /\ r.op = "unstage" -> "no"
                 [] OTHER -> kst
     /\ disk' = IF r.heard /\ r.op = "unpublish" THEN disk \ {r.path} ELSE disk
     /\ pub' = IF r.op = "publish" THEN [pub EXCEPT ![r.path] = "pub"] ELSE pub
     /\ UNCHANGED adrift

\* stageNewVolume or the cleanup before it fails: a request also forgets the
\* volume's mutex, a recovery does not.
Fails(a) ==
  /\ Return(a)
  /\ IF a = Hm THEN KeepMutex ELSE RemoveMutex(a)
  /\ UNCHANGED <<vol, kubelet>>

Request(op, p) ==
  [Idle EXCEPT !.pc = "lock", !.op = op, !.path = p, !.lock = GetMutex, !.heard = TRUE]

Acquire(a) ==
  /\ At(a, "lock")
  /\ LockFree(a)
  /\ Goto(a, "enter")
  /\ KeepMutex
  /\ UNCHANGED <<vol, world, kubelet>>

-------------------------------------------------------------------------------
(* The mount service, as its client sees it.                               *)

\* The service unmounts whatever is at the path and a new weed mounts it.
ServiceStarts ==
  /\ ~Alive(reg)
  /\ \E m \in Mounts :
       /\ Unused(m)
       /\ staging' = m
       /\ reg' = m
       /\ fuse' = [fuse EXCEPT ![m] = "ok"]

\* /mount: a registered weed that still runs (or whose death the service has
\* not noticed yet) is reported as already mounted.
ServiceMount ==
  \/ reg # None /\ UNCHANGED <<reg, fuse>> /\ staging' \in {staging, None}
  \/ ServiceStarts

\* /unmount: the registered weed is stopped and its mount removed, or, when
\* the unmount fails as well, left behind dead; without one it is a no-op.
ServiceUnmount ==
  \/ reg = None /\ UNCHANGED <<reg, fuse, staging>>
  \/ /\ reg # None
     /\ fuse' = [fuse EXCEPT ![reg] = "dead"]
     /\ reg' = None
     /\ staging' \in {staging, None}

\* A failed /unmount has not stopped the weed, or has killed it without
\* seeing it end.
ServiceUnmountFails ==
  /\ UNCHANGED <<reg, staging>>
  /\ fuse' \in {fuse} \cup {[fuse EXCEPT ![m] = "dead"] : m \in {reg} \cap Mounts}

-------------------------------------------------------------------------------
(* NodeStageVolume and NodePublishVolume.                                  *)

\* Requests that are under way and that kubelet still waits for.
Pending(ops, P) ==
  \E r \in Rpcs : act[r].heard /\ act[r].op \in ops /\ act[r].path \in P

StageCall(r) ==
  /\ At(r, "idle")
  /\ ~Pending({"stage", "unstage"}, {None})
  /\ act' = [act EXCEPT ![r] = Request("stage", None)]
  /\ kst' = IF kst = "no" THEN "trying" ELSE kst
  /\ KeepMutex
  /\ UNCHANGED <<vol, world, disk, pub, adrift>>

PublishCall(r, p) ==
  /\ At(r, "idle")
  /\ kst = "staged"
  /\ ~Pending({"publish", "unpublish"}, {p}) /\ ~Pending({"unstage"}, {None})
  /\ act' = [act EXCEPT ![r] = Request("publish", p)]
  /\ disk' = disk \cup {p}
  /\ KeepMutex
  /\ UNCHANGED <<vol, world, kst, pub, adrift>>

Staging(r) == act[r].op \in {"stage", "publish"}

\* A tracked volume is ready only while its staging mount answers.
EnterTracked(r) ==
  /\ At(r, "enter") /\ Staging(r) /\ vol # None
  /\ \E h \in Health(staging) :
       CASE h = "ok" /\ act[r].op = "publish" ->
              /\ act' = [act EXCEPT ![r].pc = "bind", ![r].mine = TRUE]
              /\ UNCHANGED kubelet
         [] h = "ok" /\ act[r].op = "stage" -> Return(r) /\ Succeeds(r)
         [] OTHER -> Return(r) /\ UNCHANGED kubelet
  /\ KeepMutex
  /\ UNCHANGED <<vol, world>>

\* A healthy mount the plugin does not track is adopted, without an unmounter.
EnterAdopt(r) ==
  /\ At(r, "enter") /\ Staging(r) /\ vol = None
  /\ "ok" \in Health(staging)
  /\ LET v == [unm |-> FALSE, ctx |-> HasContext, paths |-> NoPaths]
     IN IF act[r].op = "publish"
        THEN Store(r, v, [act[r] EXCEPT !.pc = "bind", !.mine = TRUE]) /\ UNCHANGED kubelet
        ELSE Store(r, v, Idle) /\ Succeeds(r)
  /\ KeepMutex
  /\ UNCHANGED world

EnterClean(r) ==
  /\ At(r, "enter") /\ Staging(r) /\ vol = None
  /\ Health(staging) # {"ok"}
  /\ Goto(r, "clean")
  /\ KeepMutex
  /\ UNCHANGED <<vol, world, kubelet>>

\* cleanupStaleStagingPath: unmount, refuse if something is still mounted,
\* remove the directory unless files are in it.
Clean(r) ==
  /\ At(r, "clean")
  /\ staging' = None
  /\ Goto(r, "mount")
  /\ KeepMutex
  /\ UNCHANGED <<vol, bind, fuse, reg, owed, kubelet>>

CleanFails(r) ==
  /\ At(r, "clean")
  /\ staging' \in {staging, None}
  /\ Fails(r)
  /\ UNCHANGED <<bind, fuse, reg, owed>>

\* stageNewVolume up to the mount: Volume.Stage unmounts what it finds at the
\* path and asks the service for a mount.
Mount(a) ==
  /\ At(a, "mount")
  /\ ServiceMount
  /\ Goto(a, "quota")
  /\ KeepMutex
  /\ UNCHANGED <<vol, bind, owed, kubelet>>

\* ... which fails before or after the path was cleaned, or the client's
\* timeout ends the wait and the service goes on with the request.
MountFails(a) ==
  /\ At(a, "mount")
  /\ staging' \in {staging, None}
  /\ owed' \in {owed, "now"}
  /\ Fails(a)
  /\ UNCHANGED <<bind, fuse, reg>>

\* The quota is applied (or there is none): a request records the volume; a
\* recovery goes on to the publish paths.
Quota(a) ==
  /\ At(a, "quota")
  /\ LET v == [unm |-> TRUE, ctx |-> TRUE, paths |-> NoPaths]
     IN CASE act[a].op = "publish" ->
               Store(a, v, [act[a] EXCEPT !.pc = "bind", !.mine = TRUE]) /\ UNCHANGED kubelet
          [] act[a].op = "stage" -> Store(a, v, Idle) /\ Succeeds(a)
          [] OTHER -> Goto(a, "teardown") /\ UNCHANGED <<vol, kubelet>>
  /\ KeepMutex
  /\ UNCHANGED world

\* The quota is refused: the new volume is unstaged, as far as that works.
QuotaFails(a) ==
  /\ At(a, "quota")
  /\ ServiceUnmount \/ ServiceUnmountFails
  /\ Fails(a)
  /\ UNCHANGED <<bind, owed>>

\* Volume.Publish: a target that is already a mount point is taken as it is;
\* a corrupted one is unmounted first.  A bind of an unmounted staging path
\* binds the directory that is there.
Fresh(mode) == [src |-> IF staging = None THEN Bare ELSE staging, mode |-> mode]
Kept(p) == bind[p].src # None

Publish(r) ==
  /\ At(r, "bind")
  /\ LET p == act[r].path
     IN /\ \/ Kept(p) /\ UNCHANGED bind
           \/ "dead" \in Health(bind[p].src) /\ bind' = [bind EXCEPT ![p] = Fresh(Mode(p))]
        /\ vol' = IF act[r].mine THEN [vol EXCEPT !.paths[p] = Mode(p)] ELSE vol
  /\ Return(r)
  /\ Succeeds(r)
  /\ KeepMutex
  /\ UNCHANGED <<staging, fuse, reg, owed>>

PublishFails(r) ==
  /\ At(r, "bind")
  /\ Return(r)
  /\ KeepMutex
  /\ UNCHANGED <<vol, world, kubelet>>

-------------------------------------------------------------------------------
(* NodeUnpublishVolume and NodeUnstageVolume.                              *)

UnpublishCall(r, p) ==
  /\ At(r, "idle")
  /\ p \in disk
  /\ ~Pending({"publish", "unpublish"}, {p})
  /\ act' = [act EXCEPT ![r] = Request("unpublish", p)]
  /\ KeepMutex
  /\ UNCHANGED <<vol, world, kubelet>>

\* The path is withdrawn before anything can fail.
Unpublish(r) ==
  /\ At(r, "enter") /\ act[r].op = "unpublish"
  /\ LET p == act[r].path
     IN /\ vol' = IF vol = None THEN vol ELSE [vol EXCEPT !.paths[p] = "no"]
        /\ pub' = [pub EXCEPT ![p] = "gone"]
  /\ act' = [act EXCEPT ![r].pc = "unbind", ![r].mine = (vol # None)]
  /\ KeepMutex
  /\ UNCHANGED <<world, kst, disk, adrift>>

\* unpublishTarget: unmounted and removed, or moved into the quarantine.
Unbind(r) ==
  /\ At(r, "unbind")
  /\ bind' = [bind EXCEPT ![act[r].path] = NoBind]
  /\ Return(r)
  /\ Succeeds(r)
  /\ KeepMutex
  /\ UNCHANGED <<vol, staging, fuse, reg, owed>>

\* A failure is an error for a tracked volume and ignored for another one.
UnbindFails(r) ==
  /\ At(r, "unbind")
  /\ bind' \in {bind, [bind EXCEPT ![act[r].path] = NoBind]}
  /\ Return(r)
  /\ IF act[r].mine THEN UNCHANGED kubelet ELSE Succeeds(r)
  /\ KeepMutex
  /\ UNCHANGED <<vol, staging, fuse, reg, owed>>

UnstageCall(r) ==
  /\ At(r, "idle")
  /\ kst # "no" /\ disk = {}
  /\ ~\E q \in Rpcs : act[q].heard
  /\ act' = [act EXCEPT ![r] = Request("unstage", None)]
  /\ kst' = "trying"
  /\ KeepMutex
  /\ UNCHANGED <<vol, world, disk, pub, adrift>>

\* An untracked volume is cleaned up as far as that works; a tracked one is
\* unmounted through the service, or, without an unmounter, at the path only.
Unstage(r) ==
  /\ At(r, "enter") /\ act[r].op = "unstage"
  /\ \/ /\ vol = None
        /\ staging' \in {staging, None}
        /\ UNCHANGED <<fuse, reg>>
     \/ /\ vol # None /\ vol.unm
        /\ ServiceUnmount
        /\ staging' = None
     \/ /\ vol # None /\ ~vol.unm
        /\ staging' = None
        /\ UNCHANGED <<fuse, reg>>
  /\ Store(r, None, Idle)
  /\ RemoveMutex(r)
  /\ Succeeds(r)
  /\ UNCHANGED <<bind, owed>>

\* The service's unmount fails, or the directory cannot be removed because
\* it is still mounted or holds files.
UnstageFails(r) ==
  /\ At(r, "enter") /\ act[r].op = "unstage" /\ vol # None
  /\ \/ vol.unm /\ (ServiceUnmount \/ ServiceUnmountFails)
     \/ ~vol.unm /\ staging' \in {staging, None} /\ UNCHANGED <<fuse, reg>>
  /\ Return(r)
  /\ KeepMutex
  /\ UNCHANGED <<vol, bind, owed, kubelet>>

-------------------------------------------------------------------------------
(* The health monitor.                                                     *)

\* performVolumeHealthCheck, outside the mutex: a dead or hung staging mount
\* leads to a recovery, a dead publish bind under a live one to a retry.
HealthCheck ==
  /\ At(Hm, "idle") /\ vol # None
  /\ \E op \in {"recover", "retry"}, hung \in BOOLEAN :
       /\ \/ op = "recover" /\ ~hung /\ "dead" \in Health(staging)
          \/ op = "recover" /\ hung /\ Unanswered(staging)
          \/ op = "retry" /\ ~hung /\ "ok" \in Health(staging) /\ DeadPaths(vol.paths) # {}
       /\ act' = [act EXCEPT ![Hm] = [Idle EXCEPT !.pc = "lock", !.op = op,
                                                  !.lock = GetMutex, !.hung = hung]]
  /\ owed' = IF owed = "was" THEN "no" ELSE owed
  /\ KeepMutex
  /\ UNCHANGED <<vol, staging, bind, fuse, reg, kubelet>>

\* recheck: the mount is dead, or was hung and still does not answer.
Confirmed == "dead" \in Health(staging) \/ (act[Hm].hung /\ Unanswered(staging))

\* recoverVolumeAs and retryPublishPaths give up: the volume is gone or its
\* staging no longer in the state that called for them.
Abort ==
  /\ \/ At(Hm, "enter") /\ vol = None
     \/ At(Hm, "enter") /\ vol # None /\ act[Hm].op = "recover" /\ ~(Confirmed /\ vol.ctx)
     \/ At(Hm, "enter") /\ act[Hm].op = "retry" /\ "dead" \in Health(staging)
     \/ At(Hm, "recheck") /\ ~Confirmed
  /\ Return(Hm)
  /\ KeepMutex
  /\ UNCHANGED <<vol, world, kubelet>>

\* The publish paths of the volume are taken down for later.
Recover ==
  /\ At(Hm, "enter") /\ act[Hm].op = "recover"
  /\ vol # None /\ vol.ctx
  /\ Confirmed
  /\ act' = [act EXCEPT ![Hm].pc = "service", ![Hm].snap = vol.paths, ![Hm].unm = vol.unm]
  /\ KeepMutex
  /\ UNCHANGED <<vol, world, kubelet>>

\* Through the volume's unmounter, or, for a hung mount, by its volume id.
\* A volume without an unmounter whose mount is dead asks for nothing.
HasUnmounter == act[Hm].unm \/ act[Hm].hung

RecoverUnmount ==
  /\ At(Hm, "service")
  /\ IF HasUnmounter THEN ServiceUnmount ELSE UNCHANGED <<reg, fuse, staging>>
  /\ Goto(Hm, "recheck")
  /\ KeepMutex
  /\ UNCHANGED <<vol, bind, owed, kubelet>>

RecoverUnmountFails ==
  /\ At(Hm, "service") /\ HasUnmounter
  /\ ServiceUnmountFails
  /\ Return(Hm)
  /\ KeepMutex
  /\ UNCHANGED <<vol, bind, owed, kubelet>>

RecoverRecheck ==
  /\ At(Hm, "recheck")
  /\ Confirmed
  /\ Goto(Hm, "detach")
  /\ KeepMutex
  /\ UNCHANGED <<vol, world, kubelet>>

\* detachStagingFn and cleanupStagingFn.
Detach ==
  /\ At(Hm, "detach")
  /\ staging' = None
  /\ Goto(Hm, "mount")
  /\ KeepMutex
  /\ UNCHANGED <<vol, bind, fuse, reg, owed, kubelet>>

DetachFails ==
  /\ At(Hm, "detach")
  /\ staging' \in {staging, None}
  /\ Return(Hm)
  /\ KeepMutex
  /\ UNCHANGED <<vol, bind, fuse, reg, owed, kubelet>>

\* tearDownStalePublishBind for the paths of the recovery: D of them come down.
TearDown(D) ==
  /\ At(Hm, "teardown")
  /\ D \subseteq PathsOf(act[Hm].snap)
  /\ bind' = [p \in Paths |-> IF p \in D THEN NoBind ELSE bind[p]]
  /\ act' = [act EXCEPT ![Hm].pc = "rebind", ![Hm].down = D]
  /\ KeepMutex
  /\ UNCHANGED <<vol, staging, fuse, reg, owed, kubelet>>

\* ... and for the dead ones among the paths of a retry.
Retry(D) ==
  /\ At(Hm, "enter") /\ act[Hm].op = "retry"
  /\ vol # None
  /\ Health(staging) # {"dead"}
  /\ D \subseteq DeadPaths(vol.paths)
  /\ bind' = [p \in Paths |-> IF p \in D THEN NoBind ELSE bind[p]]
  /\ act' = [act EXCEPT ![Hm].pc = "rebind", ![Hm].snap = vol.paths, ![Hm].down = D]
  /\ KeepMutex
  /\ UNCHANGED <<vol, staging, fuse, reg, owed, kubelet>>

\* Volume.Publish for the paths that came down; it works for those in D.  A
\* recovery then replaces the volume by one that tracks all its paths.
Rebind(D) ==
  /\ At(Hm, "rebind")
  /\ D \subseteq act[Hm].down
  /\ bind' = [p \in Paths |-> IF p \in D /\ ~Kept(p) THEN Fresh(act[Hm].snap[p]) ELSE bind[p]]
  /\ IF act[Hm].op = "recover"
     THEN Store(Hm, [unm |-> TRUE, ctx |-> TRUE, paths |-> act[Hm].snap], Idle)
     ELSE Return(Hm) /\ UNCHANGED vol
  /\ KeepMutex
  /\ UNCHANGED <<staging, fuse, reg, owed, kubelet>>

-------------------------------------------------------------------------------
(* The environment: weed, the mount service, kubelet and restarts.         *)

WeedHangs(m) == fuse[m] = "ok" /\ fuse' = [fuse EXCEPT ![m] = "hung"]
WeedAnswers(m) == fuse[m] = "hung" /\ fuse' = [fuse EXCEPT ![m] = "ok"]
WeedDies(m) == Alive(m) /\ fuse' = [fuse EXCEPT ![m] = "dead"]

Weed(m) ==
  /\ WeedHangs(m) \/ WeedAnswers(m) \/ WeedDies(m)
  /\ KeepMutex
  /\ UNCHANGED <<act, vol, staging, bind, reg, owed, kubelet>>

\* The service notices that its weed ended: it unmounts the path, or fails
\* to, and forgets the entry.
ServiceReaps ==
  /\ reg # None /\ ~Alive(reg)
  /\ reg' = None
  /\ staging' \in {staging, None}
  /\ KeepMutex
  /\ UNCHANGED <<act, vol, bind, fuse, owed, kubelet>>

\* A mount request nobody waits for is carried out, or fails.
LateMount ==
  /\ owed = "now"
  /\ owed' = "was"
  /\ ServiceStarts \/ UNCHANGED <<staging, fuse, reg>>
  /\ KeepMutex
  /\ UNCHANGED <<act, vol, bind, kubelet>>

\* The service restarts: its weeds die with it, and its requests.
ServiceRestart ==
  /\ reg' = None
  /\ fuse' = [m \in Mounts |-> "dead"]
  /\ owed' = IF owed = "now" THEN "was" ELSE owed
  /\ KeepMutex
  /\ UNCHANGED <<act, vol, staging, bind, kubelet>>

\* The plugin restarts.  recoverStagedVolumesFromDisk tracks the volume if
\* kubelet has a record of it, with the publish paths kubelet has a record
\* of, none of them known to be read-only, and those that an unpublish has
\* withdrawn without success among them.  It finds less, or nothing, if it
\* is not told where to look or cannot read what is there.  A mount request
\* the plugin had sent goes on.
Found(P) == [unm |-> FALSE, ctx |-> TRUE,
             paths |-> [p \in Paths |-> IF p \in P THEN "rw" ELSE "no"]]

PluginRestart ==
  /\ act' = [a \in Actors |-> Idle]
  /\ vol' \in {None} \cup {Found(P) : P \in IF kst = "no" THEN {} ELSE SUBSET disk}
  /\ adrift' = (adrift \/ (kst # "no" /\ vol' # Found(disk)))
  /\ pub' = [p \in Paths |-> CASE pub[p] \in {"pub", "old"} -> "old"
                               [] pub[p] \in {"gone", "oldgone"} -> "oldgone"
                               [] OTHER -> "no"]
  /\ owed' \in {owed} \cup {"now" : a \in {b \in Actors : At(b, "mount")}}
  /\ UNCHANGED <<mutex, split, staging, bind, fuse, reg, kst, disk>>

\* kubelet's deadline passes; the handler goes on.
GiveUp(r) ==
  /\ act[r].heard
  /\ act' = [act EXCEPT ![r].heard = FALSE]
  /\ adrift' = TRUE
  /\ KeepMutex
  /\ UNCHANGED <<vol, world, kst, disk, pub>>

-------------------------------------------------------------------------------
\* Outcomes that are failures of something outside the plugin.
RpcFault(r) ==
  CleanFails(r) \/ MountFails(r) \/ QuotaFails(r) \/ PublishFails(r)
  \/ UnbindFails(r) \/ UnstageFails(r)

HmFault ==
  \/ RecoverUnmountFails \/ DetachFails \/ MountFails(Hm) \/ QuotaFails(Hm)
  \/ \E D \in SUBSET Paths : TearDown(D) /\ D # PathsOf(act[Hm].snap)
  \/ \E D \in SUBSET Paths : Retry(D) /\ D # DeadPaths(vol.paths)
  \/ \E D \in SUBSET Paths : Rebind(D) /\ D # act[Hm].down

\* What a goroutine does by itself once it holds the mutex.
RpcStep(r) ==
  \/ EnterTracked(r) \/ EnterAdopt(r) \/ EnterClean(r) \/ Clean(r) \/ Mount(r)
  \/ Quota(r) \/ Publish(r) \/ Unpublish(r) \/ Unbind(r) \/ Unstage(r)
  \/ RpcFault(r)

HmStep ==
  \/ Abort \/ Recover \/ RecoverUnmount \/ RecoverRecheck \/ Detach
  \/ Mount(Hm) \/ Quota(Hm)
  \/ \E D \in SUBSET Paths : TearDown(D) \/ Retry(D) \/ Rebind(D)
  \/ HmFault

Call(r) ==
  \/ StageCall(r) \/ UnstageCall(r) \/ GiveUp(r)
  \/ \E p \in Paths : PublishCall(r, p) \/ UnpublishCall(r, p)

Next ==
  \/ \E r \in Rpcs : Call(r) \/ RpcStep(r)
  \/ \E a \in Actors : Acquire(a)
  \/ HealthCheck \/ HmStep
  \/ \E m \in Mounts : Weed(m)
  \/ LateMount \/ ServiceReaps \/ ServiceRestart \/ PluginRestart

Spec == Init /\ [][Next]_vars

-------------------------------------------------------------------------------
(* Properties.                                                             *)

\* Type correctness.
TypeOK ==
  /\ mutex \in Locks
  /\ act \in [Actors -> Act]
  /\ vol \in Volume \cup {None}
  /\ staging \in Mounts \cup {None}
  /\ bind \in [Paths -> Bind]
  /\ fuse \in [Mounts -> {"ok", "hung", "dead"}]
  /\ reg \in Mounts \cup {None}
  /\ owed \in {"no", "now", "was"}
  /\ kst \in {"no", "trying", "staged"}
  /\ disk \subseteq Paths
  /\ pub \in [Paths -> {"no", "pub", "old", "gone", "oldgone"}]
  /\ split \in BOOLEAN
  /\ adrift \in BOOLEAN

\* retryPublishPaths and recoverVolumeAs never bind a path again once
\* NodeUnpublishVolume has withdrawn it, even if its unmount failed, until the
\* plugin restarts and tracks the path again from kubelet's record ...
Rebinds(p) ==
  /\ At(Hm, "rebind") /\ act'[Hm] # act[Hm]
  /\ ~Kept(p) /\ bind'[p].src # None
NoRebindStep == \A p \in Paths : Rebinds(p) => pub[p] # "gone"

\* ... as long as the mutex excludes them, ...
NoRebindUnlessSplit == [][~split => NoRebindStep]_vars

\* ... and, as the comment in NodeUnpublishVolume has it, always.
NoRebind == [][NoRebindStep]_vars

\* A recovery or retry never stops a weed that serves the staging path or a
\* publish path, nor takes its mount away: what it removes is confirmed dead.
\* The exceptions are the weed of a hung mount, which it stops before it
\* detaches the mount, the new weed whose quota was refused, and, at the
\* staging path, one that a late mount request starts while the recovery runs.
Untouched(x, y) == Alive(x) => y = x /\ fuse'[x] # "dead"
SparesLiveStep ==
  /\ act'[Hm] # act[Hm]
  /\ ~At(Hm, "quota") /\ ~(At(Hm, "service") /\ act[Hm].hung)
  => /\ owed = "no" => Untouched(staging, staging')
     /\ \A p \in Paths : Untouched(bind[p].src, bind'[p].src)
RecoverySparesLive == [][~split /\ ~adrift => SparesLiveStep]_vars

\* A path whose publish succeeded and that kubelet has not withdrawn stays
\* tracked, across recoveries that rebuild the volume, failed re-binds and
\* plugin restarts: an untracked path is never repaired.
PublishedStaysTracked ==
  ~split /\ ~adrift => \A p \in disk :
    pub[p] \in {"pub", "old"} => vol # None /\ vol.paths[p] # "no"

\* Whatever is bound at a publish path, by a request, a recovery or a retry, and
\* after a restart has tracked a withdrawn path again, kubelet has a record of
\* and will unpublish: no bind is left behind.  An unpublish that fails is
\* answered as if it had worked when the volume is not tracked.
BoundIsRecorded ==
  ~split /\ ~adrift => \A p \in Paths : bind[p].src # None => p \in disk

\* A volume kubelet holds staged is tracked, so that the health monitor sees
\* it: kubelet does not stage it again by itself.
StagedIsTracked == ~split /\ ~adrift => (kst = "staged" => vol # None)

\* A publish that succeeds has bound the volume, not the directory its
\* staging mount hides.
PublishBindsVolume ==
  [][\A p \in Paths : pub[p] # "pub" /\ pub'[p] = "pub" => bind'[p].src # Bare]_vars

\* A path that a recovery or retry binds again has the mode it was published
\* with, however many recoveries have rebuilt the volume since.  Not so after
\* a restart of the plugin (pub is "old"), which does not know the modes.
RebindKeepsMode ==
  [][~split => \A p \in Paths :
       Rebinds(p) /\ pub[p] = "pub" => bind'[p].mode = Mode(p)]_vars

-------------------------------------------------------------------------------
(* Liveness.  Goroutines run, a Go mutex does not starve a waiter, the     *)
(* health monitor ticks, and the service notices that a weed has ended.    *)

\* a is in a call without a deadline that a hung weed does not answer: a stat,
\* bind or unmount of its mount, or the Configure of Volume.Quota.
Blocked(a) ==
  LET r == act[a]
  IN \/ /\ \/ r.pc = "enter" /\ Staging(a) /\ vol = None
           \/ r.pc = "enter" /\ r.op = "unstage" /\ (vol # None => ~vol.unm)
           \/ r.pc \in {"clean", "mount", "detach", "bind", "rebind"}
        /\ Unanswered(staging)
     \/ r.pc = "quota" /\ Unanswered(reg)
     \/ r.pc \in {"bind", "unbind"} /\ Unanswered(bind[r.path].src)
     \/ r.pc \in {"teardown", "rebind"} /\ \E p \in PathsOf(r.snap) : Unanswered(bind[p].src)

\* A blocked call returns if the weed answers, again and again, or ends.
FairSpec ==
  /\ Spec
  /\ \A r \in Rpcs : SF_vars(RpcStep(r) /\ ~Blocked(r))
  /\ \A a \in Actors : SF_vars(Acquire(a))
  /\ WF_vars(HealthCheck) /\ SF_vars(HmStep /\ ~Blocked(Hm)) /\ WF_vars(ServiceReaps)

\* No weed leaves a call unanswered for ever.
CallsReturn == \A a \in Actors : []<>~Blocked(a)

Fault ==
  \/ \E r \in Rpcs : RpcFault(r) \/ GiveUp(r)
  \/ HmFault
  \/ \E m \in Mounts : Weed(m)
  \/ LateMount \/ ServiceRestart \/ PluginRestart

FaultsStop == <>[][~Fault]_vars

\* Every request returns: no handler waits for ever on the mutex, whatever a
\* recovery that holds it meets, unless the holder is in a call that a hung
\* weed never answers.
RequestsReturn ==
  CallsReturn => \A r \in Rpcs : act[r].pc # "idle" ~> act[r].pc = "idle"

\* Once the world outside stops failing, a tracked volume whose staging mount
\* is dead or hung gets a mount that answers, or is unstaged, unless it was
\* adopted by a request without a volume context, which a recovery refuses.
StagingRecovers ==
  CallsReturn /\ FaultsStop =>
    (vol # None /\ vol.ctx /\ ~("ok" \in Health(staging))
       ~> vol = None \/ "ok" \in Health(staging))

\* Likewise a tracked publish path whose bind is dead is bound again, or
\* withdrawn.  Without a volume context that takes a staging mount that
\* answers.
Refused == vol # None /\ ~vol.ctx /\ ~("ok" \in Health(staging))
BindsRepaired ==
  CallsReturn /\ FaultsStop => \A p \in Paths :
    (vol # None /\ vol.paths[p] # "no" /\ "dead" \in Health(bind[p].src)
       ~> \/ vol = None \/ vol.paths[p] = "no" \/ Refused
          \/ "ok" \in Health(bind[p].src))
===============================================================================
