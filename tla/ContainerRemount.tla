-------------------------- MODULE ContainerRemount --------------------------
(***************************************************************************)
(* The mounts inside the containers of one pod.  The container runtime     *)
(* binds a volume into a container with private propagation, so neither a  *)
(* recovery nor a new staging of the volume reaches that mount: the plugin *)
(* enters the container's mount namespace and replaces it                  *)
(* (container_remount_linux.go).  A recovery looks for the device of the   *)
(* mount it replaced; every sweep, retry and recovery then looks for older *)
(* mounts of the volume whose weed is gone.                                *)
(*                                                                         *)
(* A FUSE file system is named by its device number, which the kernel      *)
(* gives to another one as soon as no mount refers to it.  Recoveries of   *)
(* two volumes run concurrently, each under its volume's mutex.  The       *)
(* subPath and the read-only flag of a mount are left out.                 *)
(***************************************************************************)
CONSTANTS Vols,        \* the volumes published to the pod
          Containers,  \* its containers, each with its own mount namespace
          Devices,     \* FUSE device numbers
          None,        \* no mount: the directory of the container's own root
          Host         \* a bind of the bare directory under the staging mount

ASSUME RemountAssumption ==
  /\ None # Host /\ Devices \cap {None, Host} = {}
  /\ None \notin Vols \cup Containers

VARIABLES
  of,       \* of[d]: the volume the file system with device d shows
  alive,    \* the devices whose weed runs
  staging,  \* staging[v]: the mount at v's staging path
  bind,     \* bind[v]: the mount at v's publish path
  running,  \* the running containers
  cm,       \* cm[c][w]: the mount container c has where w was mounted
  gor,      \* gor[v]: the goroutine that holds v's mutex
  misled    \* ghost: a recovery looked for a device that was in use: the number
            \* had been given to a new mount, or came from a bind that still lived

vars == <<of, alive, staging, bind, running, cm, gor, misled>>
host == <<of, alive, staging, bind>>

-------------------------------------------------------------------------------
(* State.                                                                  *)

Mount == Devices \cup {None}
Passes == {"none", "device", "repair"}
Goroutine == [pc : {"idle", "detach", "stage", "bind", "scan", "entry", "swap"},
              old : Mount, pass : Passes, base : Mount, todo : SUBSET Containers,
              at : Containers \cup {None}, entries : SUBSET Vols,
              on : Vols \cup {None}, fd : Mount \cup {Host}]
Idle == [pc |-> "idle", old |-> None, pass |-> "none", base |-> None, todo |-> {},
         at |-> None, entries |-> {}, on |-> None, fd |-> None]

NoMounts == [w \in Vols |-> None]

\* Every volume is staged and published before the containers start.
Init ==
  /\ staging \in [Vols -> Devices]
  /\ \A v, w \in Vols : v # w => staging[v] # staging[w]
  /\ bind = staging
  /\ of = [d \in Devices |-> IF \E v \in Vols : staging[v] = d
                            THEN CHOOSE v \in Vols : staging[v] = d ELSE None]
  /\ alive = {staging[v] : v \in Vols}
  /\ running = {}
  /\ cm = [c \in Containers |-> NoMounts]
  /\ gor = [v \in Vols |-> Idle]
  /\ misled = FALSE

\* The goroutine is done with an entry.
EntryDone(v) ==
  gor' = [gor EXCEPT ![v].pc = "entry", ![v].entries = @ \ {gor[v].on}, ![v].on = None,
                     ![v].fd = None]

-------------------------------------------------------------------------------
(* Plausible bugs, used only to show that the properties can fail.         *)

\* Any older mount of the volume is taken for a dead one.
IsStaleMountBug(d) == d \in Devices

\* A repair that knows the volume only by the mount it replaced last.
OlderMountsBug(v, c) == {w \in Vols : cm[c][w] \in Devices /\ cm[c][w] = gor[v].old}

\* A remount that loses the mount point it replaces.
SwapBug(v) ==
  /\ gor[v].pc = "swap"
  /\ cm' = [cm EXCEPT ![gor[v].at] = [u \in Vols \ {gor[v].on} |-> @[u]]]
  /\ EntryDone(v)
  /\ UNCHANGED <<host, running, misled>>

-------------------------------------------------------------------------------
(* Mounts.                                                                 *)

Dead(d) == d \in Devices /\ d \notin alive

Referenced ==
  {staging[v] : v \in Vols} \cup {bind[v] : v \in Vols} \cup {gor[v].fd : v \in Vols}
    \cup UNION {{cm[c][w] : w \in Vols} : c \in Containers}

\* A new weed mounts v at its staging path on device d, which no mount has,
\* while the weeds in live go on.
Mounts(v, d, live) ==
  /\ staging' = [staging EXCEPT ![v] = d]
  /\ of' = [e \in Devices |-> IF e = d THEN v ELSE IF e \in Referenced THEN of[e] ELSE None]
  /\ alive' = (live \cap Referenced) \cup {d}
  /\ misled' = (misled \/ \E u \in Vols : gor[u].old = d)

-------------------------------------------------------------------------------
(* The passes over the containers.                                         *)

\* isStaleMount of what statfs says: the weed is gone.
IsStaleMount(d) == Dead(d)

\* findContainerMountsByDevice.
MountsByDevice(v, c) == {w \in Vols : cm[c][w] = gor[v].old}

\* The mounts repairStaleContainerMounts considers: the file system of the
\* staging mount it began with, on another device.
OlderMounts(v, c) ==
  {w \in Vols : cm[c][w] \in Devices \ {gor[v].base} /\ of[cm[c][w]] = v}

Begin(v, r, pass) ==
  [r EXCEPT !.pc = "scan", !.pass = pass, !.todo = running, !.base = staging[v]]

\* The next container of the pod: its mountinfo is read once.
Scan(v, c) ==
  /\ gor[v].pc = "scan" /\ c \in gor[v].todo
  /\ gor' = [gor EXCEPT ![v].pc = "entry", ![v].at = c, ![v].todo = @ \ {c},
                        ![v].entries = IF gor[v].pass = "device" THEN MountsByDevice(v, c)
                                       ELSE OlderMounts(v, c)]
  /\ UNCHANGED <<host, running, cm, misled>>

\* A pass ends: the device pass is followed by the repair pass, if there is
\* a staging mount.
EndPass(v) ==
  /\ gor[v].pc = "scan" /\ gor[v].todo = {}
  /\ gor' = [gor EXCEPT ![v] = IF @.pass = "device" /\ staging[v] # None
                               THEN Begin(v, @, "repair") ELSE Idle]
  /\ UNCHANGED <<host, running, cm, misled>>

\* The next entry.  The repair pass leaves one alone whose weed answers;
\* otherwise what is at the staging path now is cloned (open_tree).
Entry(v) ==
  /\ gor[v].pc = "entry"
  /\ \/ /\ gor[v].entries = {}
        /\ gor' = [gor EXCEPT ![v].pc = "scan", ![v].at = None]
     \/ \E w \in gor[v].entries :
          IF gor[v].pass = "device" \/ IsStaleMount(cm[gor[v].at][w])
          THEN gor' = [gor EXCEPT ![v].pc = "swap", ![v].on = w,
                                  ![v].fd = IF staging[v] = None THEN Host ELSE staging[v]]
          ELSE gor' = [gor EXCEPT ![v].entries = @ \ {w}]
  /\ UNCHANGED <<host, running, cm, misled>>

\* remountViaSetns in a container that still runs: whatever is at the mount
\* point is detached and the clone moved there.
Swap(v) ==
  /\ gor[v].pc = "swap"
  /\ cm' = IF gor[v].at \in running THEN [cm EXCEPT ![gor[v].at][gor[v].on] = gor[v].fd] ELSE cm
  /\ EntryDone(v)
  /\ UNCHANGED <<host, running, misled>>

\* It fails before the detach, or with the mount already detached.
SwapFails(v) ==
  /\ gor[v].pc = "swap"
  /\ \/ UNCHANGED cm
     \/ gor[v].at \in running /\ cm' = [cm EXCEPT ![gor[v].at][gor[v].on] = None]
  /\ EntryDone(v)
  /\ UNCHANGED <<host, running, misled>>

-------------------------------------------------------------------------------
(* Recovery, publish retry and the repair of every sweep.                  *)

\* The device of the mount a recovery replaces, or of the publish bind if the
\* staging mount is gone already.
OldDevice(v) == IF staging[v] # None THEN staging[v] ELSE bind[v]

Recover(v) ==
  /\ gor[v].pc = "idle" /\ staging[v] \notin alive
  /\ gor' = [gor EXCEPT ![v] = [Idle EXCEPT !.pc = "detach",
                                            !.old = OldDevice(v)]]
  /\ misled' = (misled \/ OldDevice(v) \in alive)
  /\ UNCHANGED <<host, running, cm>>

Detach(v) ==
  /\ gor[v].pc = "detach"
  /\ staging' = [staging EXCEPT ![v] = None]
  /\ gor' = [gor EXCEPT ![v].pc = "stage"]
  /\ UNCHANGED <<of, alive, bind, running, cm, misled>>

Stage(v) ==
  /\ gor[v].pc = "stage"
  /\ \E d \in Devices \ Referenced : Mounts(v, d, alive)
  /\ gor' = [gor EXCEPT ![v].pc = "bind"]
  /\ UNCHANGED <<bind, running, cm>>

\* The publish path is bound again, and the containers follow.
Rebind(v) ==
  /\ gor[v].pc = "bind"
  /\ bind' = [bind EXCEPT ![v] = staging[v]]
  /\ gor' = [gor EXCEPT ![v] = Begin(v, @, IF @.old # None THEN "device" ELSE "repair")]
  /\ UNCHANGED <<of, alive, staging, running, cm, misled>>

RecoverFails(v) ==
  /\ gor[v].pc \in {"detach", "stage", "bind"}
  /\ bind' \in IF gor[v].pc = "bind" THEN {bind, [bind EXCEPT ![v] = None]} ELSE {bind}
  /\ gor' = [gor EXCEPT ![v] = Idle]
  /\ UNCHANGED <<of, alive, staging, running, cm, misled>>

\* retryPublishPaths: a dead publish bind is made again, then the containers
\* are repaired.
Retry(v) ==
  /\ gor[v].pc = "idle" /\ staging[v] \in alive /\ bind[v] \notin alive
  /\ bind' = [bind EXCEPT ![v] = staging[v]]
  /\ gor' = [gor EXCEPT ![v] = Begin(v, Idle, "repair")]
  /\ UNCHANGED <<of, alive, staging, running, cm, misled>>

\* repairContainerMounts, at the end of every sweep of a healthy volume.
Repair(v) ==
  /\ gor[v].pc = "idle" /\ staging[v] \in alive
  /\ gor' = [gor EXCEPT ![v] = Begin(v, Idle, "repair")]
  /\ UNCHANGED <<host, running, cm, misled>>

-------------------------------------------------------------------------------
(* The environment.                                                        *)

WeedDies(d) ==
  /\ d \in alive \cap Referenced
  /\ alive' = alive \ {d}
  /\ UNCHANGED <<of, staging, bind, running, cm, gor, misled>>

\* The mount service removes the mount of a weed that ended.
ServiceReaps(v) ==
  /\ Dead(staging[v])
  /\ staging' = [staging EXCEPT ![v] = None]
  /\ UNCHANGED <<of, alive, bind, running, cm, gor, misled>>

\* kubelet unstages, stages and publishes the volume again under the running
\* pod.  The weed of the old mount ends, or, for a volume without an
\* unmounter, goes on; a publish path that is still a mount point is kept.
Restage(v) ==
  /\ gor[v].pc = "idle"
  /\ \E d \in Devices \ Referenced :
       /\ Mounts(v, d, alive) \/ Mounts(v, d, alive \ {staging[v]})
       /\ bind' = [bind EXCEPT ![v] = IF @ \in alive' THEN @ ELSE d]
  /\ UNCHANGED <<running, cm, gor>>

\* A container that starts is none a goroutine has seen before: process ids
\* are not reused while a pass is under way.
ContainerStarts(c) ==
  /\ c \notin running /\ \A v \in Vols : c \notin gor[v].todo \cup {gor[v].at}
  /\ \A w \in Vols : bind[w] \in alive
  /\ running' = running \cup {c}
  /\ cm' = [cm EXCEPT ![c] = bind]
  /\ UNCHANGED <<host, gor, misled>>

ContainerExits(c) ==
  /\ c \in running
  /\ running' = running \ {c}
  /\ cm' = [cm EXCEPT ![c] = NoMounts]
  /\ UNCHANGED <<host, gor, misled>>

-------------------------------------------------------------------------------
Step(v) ==
  \/ Detach(v) \/ Stage(v) \/ Rebind(v) \/ EndPass(v) \/ Entry(v) \/ Swap(v)
  \/ \E c \in Containers : Scan(v, c)

Fails(v) == SwapFails(v) \/ RecoverFails(v)

Next ==
  \/ \E v \in Vols : Step(v) \/ Fails(v) \/ Recover(v) \/ Retry(v) \/ Repair(v)
                     \/ ServiceReaps(v) \/ Restage(v)
  \/ \E d \in Devices : WeedDies(d)
  \/ \E c \in Containers : ContainerStarts(c) \/ ContainerExits(c)

Spec == Init /\ [][Next]_vars

-------------------------------------------------------------------------------
(* Properties.                                                             *)

\* Type correctness.
TypeOK ==
  /\ of \in [Devices -> Vols \cup {None}]
  /\ alive \subseteq Devices
  /\ staging \in [Vols -> Mount]
  /\ bind \in [Vols -> Mount]
  /\ running \subseteq Containers
  /\ cm \in [Containers -> [Vols -> Mount \cup {Host}]]
  /\ gor \in [Vols -> Goroutine]
  /\ misled \in BOOLEAN

\* A container's mount is replaced only when its weed is gone, so that "the
\* live mount, another volume's mounts and a mount that is merely slow are
\* never touched", as long as no recovery looks for a device that is in use.
Replaces(v, c, w) == gor[v].pc = "swap" /\ gor'[v].pc # "swap" /\ cm'[c][w] # cm[c][w]
RemountTakesOnlyDead ==
  [][~misled => \A v, w \in Vols, c \in Containers : Replaces(v, c, w) => Dead(cm[c][w])]_vars

\* A container is bound to "the live staging mount" of the volume: it never
\* finds another volume, or a directory of the node, where it had this one.
ContainersSeeVolume ==
  \A c \in running, w \in Vols : cm[c][w] # Host /\ (cm[c][w] \in Devices => of[cm[c][w]] = w)

-------------------------------------------------------------------------------
(* Liveness.  Goroutines run, and the health monitor sweeps.               *)

FairSpec ==
  /\ Spec
  /\ \A v \in Vols : WF_vars(Step(v)) /\ SF_vars(Recover(v)) /\ SF_vars(Repair(v))

FaultsStop ==
  <>[][~(\/ \E v \in Vols : Fails(v)
         \/ \E d \in Devices : WeedDies(d))]_vars

\* repairStaleContainerMounts "repairs a container no matter which event left
\* it on a dead mount", once weeds and mounts stop failing.
ContainersRepaired ==
  FaultsStop => \A c \in Containers, w \in Vols :
    (c \in running /\ Dead(cm[c][w]) ~> c \notin running \/ ~Dead(cm[c][w]))
===============================================================================
