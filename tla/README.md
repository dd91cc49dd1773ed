# A verification project for the SeaweedFS CSI driver

TLA+ models of the driver's core, TLC runs that check them on small instances,
and TLAPS proofs for every value of the constants. All line references are to
the repository's files. The models follow the Linux build.

## The system

| component | state | operations | interacts with |
|---|---|---|---|
| mount service (`cmd/seaweedfs-mount`, `pkg/mountmanager`) | `Manager.mounts`, one mutex per volume, one supervised `weed mount` process per volume | `Mount`, `Unmount` over a unix socket; goroutines `wait`, `watchProcessExit` | kernel mounts at the staging paths, cache directories, the node plugin |
| node plugin, CSI handlers (`nodeserver.go`, `volume.go`) | `volumes`, `volumeMutexes`, per volume: publish paths, context, unmounter | Stage, Publish, Unpublish, Unstage, Expand, stats | kubelet (calls, retries, deadlines), mount service, kernel mounts |
| health monitor (`health_monitor.go`, `mount_util*.go`) | failure counters on each volume, `healthProbes` and `statfsProbes` in flight per path | sweep, recovery, publish retry, container repair | the handlers, through the mutex and `volumes`; statistics, through the probes |
| container remount (`container_remount_linux.go`) | none | replaces dead mounts inside container namespaces | called by recovery, retry and sweep |
| cache sweep (`cache_sweep.go`, `utils.go`) | `cacheMu` | hourly and at start: moves orphaned cache directories aside and deletes them | stages, through `cacheMu` and `volumes` |
| restart recovery (`staging_recovery.go`) | none: reads kubelet's `vol_data.json` | rebuilds `volumes` once at start | kubelet's directories |
| controller (`controllerserver.go`) | none in memory | Create, Delete, Modify | the filer, the PersistentVolumes |
| attribute store (`vacstore.go`) | one entry per volume on the filer | Read, Write, Delete | controller (writes), node plugin (reads at every stage) |
| statistics, arguments, Windows, driver | see `PROJECT.json` | | |

What is hard here is that every actor works on the same mounts without a common
lock: the mount service unmounts by path when a process dies, the plugin
unmounts the same paths, kubelet retries while an earlier handler is still at
work, and each process may restart with its memory gone while the kernel's
mounts stay. The hazards, with the line each bites at, are in `PROJECT.json`.

What makes each component correct:

* mount service: requests for a volume are serialised; at most one weed runs for
  a volume and it is never forgotten; a serving weed keeps its cache; the entry
  of a dead weed goes away by itself; no request hangs.
* node plugin: a recovery touches only what is confirmed dead; a withdrawn path
  is not bound again; what kubelet holds staged or published stays tracked across
  partial failures and restarts, and nothing is bound that kubelet does not know
  of; dead mounts are repaired once faults stop.
* health monitor: a busy mount is not taken for a hung one, a hung one is torn
  down, and the reported condition follows the mount.
* container remount: only a dead mount is replaced, by the volume's own live
  mount, and every dead one is in the end.
* cache sweep: no mount in use loses its cache, stages are not held up, what is
  orphaned goes away.
* attributes: what a modification records, a stage accepts; an accepted class
  reaches every later mount.

## Modules

| module | content |
|---|---|
| `MountSlot` | what the mount service promises: one slot per volume, left only by a finished process |
| `MountManager` | the mount service |
| `MountManagerProofs` | its proofs |
| `MountSlotProofs` | the proof that it implements `MountSlot` |
| `MCMountManager` | its instance for TLC |
| `NodeServer` | node plugin handlers, health monitor, recovery, kubelet, for one volume |
| `NodeServerProofs` | its proofs |
| `MCNodeServer` | instances for TLC |
| `HealthMonitor` | probes, their ages, the counters and a recovery's rechecks, for one volume, in discrete time |
| `HealthMonitorProofs` | its proofs |
| `ContainerRemount` | the mounts inside a pod's containers and the passes that replace them |
| `ContainerRemountProofs` | its proofs |
| `CacheSweep` | the sweep of cache directories against stages, recoveries and restarts |
| `CacheSweepProofs` | its proofs |
| `VolumeAttributes` | controller, attribute store and staging, for one volume id |
| `VolumeAttributesProofs` | its proofs |
| `MCVolumeAttributes` | its instance for TLC |

Definitions named `...Bug` are plausible mistakes; `PROJECT.json` ("mutants")
says which definition each replaces and which property then fails.

### MountManager

`call[c]` is a request goroutine with its program counter; it holds the volume's
mutex from `Acquire` until it returns. `entries` is `Manager.mounts`, `locks`
the mutex object a volume id maps to, `watchers` the `watchProcessExit`
goroutines, `proc[p]` a weed process, `stack[t]` the FUSE mounts at a path,
topmost first, `instances` the cache directories per weed version. A process is
*starting*, *serving*, *dead* (it no longer runs), *exited* (`cmd.Wait` returned,
channel `exited` closed) and *done* (target cleaned up, channel `done` closed),
because `Mount`, `stop` and the watcher each wait for a different one of these.
Each blocking point of `Mount`, `startMount`, `stop` and `Unmount` is an action
boundary. Timeouts may fire at any time. Process identities are reused once
nothing refers to them, so behaviours are not bounded in length.

The refinement mapping to `MountSlot` takes the slot of a volume to be its
entry, or the process a request is starting for it.

### NodeServer

`act[a]` is a handler goroutine or the health monitor's goroutine of the volume,
`mutex` the object `KeyMutex` has for the volume id (a removed object keeps its
waiters), `vol` the tracked `Volume` (unmounter, context, publish paths),
`staging` and `bind` what is mounted, `fuse` whether a weed answers, hangs or is
dead, `reg` what the mount service has registered, `kst` and `disk` what kubelet
has on disk. `Bare` is a bind of the directory under an unmounted staging path.
Three ghosts: `pub` (what the last request made of a path, and whether the plugin
has restarted since), `split` (a mutex object was removed while someone waited on
it), `adrift` (kubelet has given up on a request and gone on, or a restarted
plugin has not found all that kubelet has a record of).

The mount service appears as its client sees it: one step per request, which
may fail before or after it took effect. A mount request goes on in the service
when its client has given up after 30 s (`client.go:40`) or was killed: `owed`
says that there is one, and `LateMount` starts its weed, or not, at any later
time. `PluginRestart` tracks what `recoverStagedVolumesFromDisk` finds in
kubelet's records: all of it, a part (a directory or file that cannot be read) or
nothing (no `StagingScanDir`), with the paths an unpublish has withdrawn but
could not unmount among them. The handlers of Stage and Publish share
their steps (`EnterTracked`, `EnterAdopt`, `EnterClean`, `Clean`, `Mount`,
`Quota`), as the code shares `stageNewVolume`. kubelet runs one operation per
volume and path at a time and unstages only after all paths are unpublished,
but it may give up on any call (`GiveUp`) and go on while the handler runs.

### VolumeAttributes

`pv` is the PersistentVolume with its immutable attributes, `entry` the filer's
entry, `mod` a modification past its checks and before its write, `vol` the
context the plugin keeps, `op` a stage or recovery past its read of the entry,
`mnt` what the running weed was given. Two parameters suffice, the two that
exclude each other; values are on, off and one that does not parse. `gen` counts
creations of the volume, so that an entry left by an earlier one can be told
apart. A write or a deletion that a filer has not answered in 10 s may be
carried out there later (`late`, one request at a time), after newer ones. `owed`
is a mount request that the plugin has given up on: `LateMount` gives it the
service's lock at any later time, also between a newer stage's read of the entry
and its mount, which is then answered "already mounted" (`manager.go:99-101`) and
leaves the weed as it is.

### HealthMonitor

NodeServer takes a probe as one step of unknown outcome. Here the probes are the
subject: `statfs` and `health` are the entries of `statfsProbes` and
`healthProbes` for the staging path, each with the mount its system call went to
and the time it has been unanswered; `resetStatfsProbe` removes both from the
maps while a check may still wait on the orphan. `vol` holds the counters of the
tracked `Volume` object, and a check goes on with the object it began with
(`mine`, `held`) when the volume is unstaged under it. `weed[m]` is quick, busy
(answers a `stat`, a namespace request, within `StatBound`, and any other within
`Bound`), hung or dead. A `Tick` waits for every timer that is
due and for every answer that is owed. `mutex = "rpc"` stands for handlers that
hold the mutex one after the other. The ghost `silent` records that the mount at
the path has left one request unanswered for longer than its bound since it was
last found healthy.

### ContainerRemount

A FUSE file system is a device number, which the kernel may give to another one
once nothing refers to it; `of[d]` is the volume it shows. `cm[c][w]` is what
container `c` has mounted where volume `w` was, `Host` a bind of a directory of
the node. `gor[v]` is the goroutine that holds `v`'s mutex, with the locals of
the pass it is in. A recovery searches by the device it replaced, then repairs;
a retry and every sweep repair. The ghost `misled` is set when a device number
searched for belongs to a live mount.

### CacheSweep

`task[v]` is the request of volume `v`, `cacheMu` the read-write lock, `sweep` the
sweeping goroutine with the copy of the map it took, the entries still to judge
and the victim it has judged and not yet moved. `lost` records a running weed
whose directory was moved or removed; `excused` are the weeds for which nothing
the sweep looks at could have shown it (see the known divergences).

## Runs

| run | bounds | shows |
|---|---|---|
| `mm` | 1 volume, 2 paths, 2 requests, 2 processes; 116,000 states | `Serialised`, `NoForgottenProcess`, `OneRunning`, `ServingKeepsCache`, that the service implements `MountSlot`, `RequestsReturn`, `StaleEntryDropped` |
| `mm_orphan` | 2 processes | finding: cleanup by path |
| `node_safety` | 1 publish path, read-only, 2 handlers and the monitor, 2 mounts, 2 mutex objects, requests without a volume context; 1,200,000 states | `NoRebindUnlessSplit`, `RecoverySparesLive`, `PublishedStaysTracked`, `StagedIsTracked`, `BoundIsRecorded`, `RebindKeepsMode` |
| `node_live` | 1 publish path, 1 handler and the monitor, 2 mounts, 2 mutex objects, requests without a volume context; 59,000 states up to names | `RequestsReturn`, `StagingRecovers`, `BindsRepaired` |
| `node_ready`, `node_split` | 1 publish path | findings |
| `health` | 2 mounts, time-outs of 1 tick, hung after 2, a `stat` answered within 1 and the rest within 2, threshold 3; 127,000 states | `RecoverySparesBusy`, `AbnormalEarned`, `HungTornDown`, `ConditionClears` |
| `containers` | 1 volume, 1 container, 4 devices; 137,000 states | `RemountTakesOnlyDead`, `ContainersRepaired` |
| `containers_host` | 2 volumes, 1 container, 4 devices | finding |
| `caches` | 2 volumes; 196,000 states | `KeepsCache`, `StagesProceed`, `OrphansRemoved` |
| `attrs` | 2 creations, on and off, 1 late request to a filer or to the mount service; 3,600,000 states | `RecordedStages`, `AcceptedClassApplies` |
| `attrs_recover` | 1 creation | finding: recovery with a stale context |

Why the bounds are enough: two requests, two processes and both channels of a
process cover a dying process, its replacement and a request that saw the old
one; `mm` has one weed version, the proofs have any number. Two handlers and the
monitor are needed for a removed mutex (one removes, one waits, one gets the new
object). Two mounts are a dead one that is still bound and the one that replaces
it; a mount that nothing refers to is used again. Two mutex objects suffice where
states after a split are cut off: the one removed and the next. A second creation
is needed for an entry that outlives its volume; in `attrs` a late mount request
and a late filer request do not occur together, nor a late mount request after
the volume was re-created (`OneLate`). In these modules volumes do not interact:
each has its own mutex, entry and paths. The proofs lift these bounds for the
safety properties, but not the one written into the modules: one late request of
each kind at a time. For the probes two mounts are the one a probe went to and
the one that replaced it; the ratio of the constants in `health` is the code's
(interval and time-out 30 s, hung after 60 s, 3 checks). In `containers` four
devices let a number be given to a new mount while a bind, a container and a
goroutine hold others. Volumes share `cacheMu`, so `caches` has two, one to hold
the lock while the other is judged.

The bounds on weed's answers in `health` are the documented ones, in ticks of
30 s: "namespace requests are answered within 25 s and every other FUSE request
within 60 s" (README.md:75-77 of the repository). The first rounds up to one
tick, and `HungAfter` is the 60 s of `health_monitor.go:31`.

`node_live` takes states for the same that differ only in ghosts that no guard
reads and in the names of mounts and mutex objects (`Behaviour`). With two mounts
and one path what a mount is to the rest of the state follows from `Role`, and
neither fairness nor a property speaks of one mount or mutex object. `node_safety`
likewise takes states for the same whose ghosts differ in nothing that a property
can tell (`Told`).

`node_safety` and `node_live` explore only states before a mutex is split
(`Unsplit`); what happens after is `node_split`. Its premise is written into the
properties as well. `RecoverySparesLive`, `PublishedStaysTracked`,
`StagedIsTracked` and `BoundIsRecorded` further assume `~adrift`: with a late
Unstage that ends after a new Stage, or with a restart that could not read
kubelet's records, they do not hold.

## Findings

Five runs end in a violation and each is a disagreement between the code and
what the repository says of it; `PROJECT.json` quotes the lines.

1. `mm_orphan`: a weed that survives the failed start and the failed stop is
   forgotten; when it ends, its cleanup unmounts the live mount of the weed that
   replaced it.
2. `node_ready`: Publish may bind the bare directory and report success.
3. `node_split`: `RemoveMutex` splits the mutex, and a recovery binds a path
   that was withdrawn.
4. `containers_host`: a repair looks at the staging mount and later clones what
   is at its path; if the weed died in between, the container gets a directory
   of the node and is not repaired again.
5. `attrs_recover`: a class accepted after a stage can make every recovery of
   the volume fail.

Known divergences that have no run of their own; the properties name them as
premises:

* After a plugin restart every publish path is tracked read-write
  (`staging_recovery.go:133`), so the next recovery binds a read-only path
  read-write. `RebindKeepsMode` is about paths published since the last restart.
* A publish path that `NodeUnpublishVolume` has withdrawn and could not unmount
  is tracked again by a restarted plugin (`staging_recovery.go:120-133`), and the
  next recovery binds it again, against the comment at `nodeserver.go:369-373`.
  `NoRebindUnlessSplit` speaks of the time up to the restart. What holds in
  general is `BoundIsRecorded`: kubelet still has its record of such a path and
  repeats the unpublish, so that no bind is left behind.
* Calls that nothing bounds are made under the volume's mutex: the `Configure` of
  `Volume.Quota` (`volume.go:124`, `context.Background()`), and `os.Stat` and
  mount point checks on a mount that may hang (`nodeserver.go:162, 175, 246`,
  `volume.go:61`), although the comment at `mount_util.go:11-14` gives this as
  the reason for bounding `statfs`. A weed that hangs just then blocks the
  handler and with it every request and recovery of the volume. `Blocked` names
  these calls; the liveness properties of the node plugin assume that each is
  answered in the end (`CallsReturn`).
* A volume adopted by a request without a volume context has a nil context
  (`nodeserver.go:167, 250`), and every recovery of it is refused
  (`health_monitor.go:492-495`). `node_live` has such requests, and
  `StagingRecovers` and `BindsRepaired` except such a volume while its staging
  mount does not answer.
* A mount request that was given up comes up late. A recovery that is under way
  then detaches the new mount; `RecoverySparesLive` excepts the staging path for
  such a recovery, not the publish paths. And a stage that has read a newer class
  meanwhile is answered "already mounted" and succeeds with the old one, although
  `controllerserver.go:570-574` has accepted values read back "on every
  (re)stage". `AcceptedClassApplies` is about the weeds a stage or recovery
  starts; without its premise `mnt = None` TLC shows this case in ten steps.
* The age of a health probe spans two FUSE requests, `stat` and `statfs`
  (`health_monitor.go:173`), and is compared with the 60 s that weed may take for
  one. The comment at `health_monitor.go:27-31` gives only those 60 s as the
  reason, which would not be enough: with `StatBound = 2` in `health.cfg` TLC
  tears down a busy mount in 26 steps. It is the 25 s for namespace requests,
  the `stat` among them, that keep busy and hung apart; at the documented bounds
  `RecoverySparesBusy` holds.
* `vacstore.go:24-25` says that a class entry "dies with the volume because
  DeleteVolume removes the per-volume entry". It need not: a failed deletion is
  only logged (`controllerserver.go:210`), and a modification under way may write
  the entry again. The model reaches these states; the properties are about
  entries of the present creation.
* `controllerserver.go:468-470` says that "a bad class fails at modify/create
  instead of breaking the next mount". `CreateVolume` checks the class by itself
  (`controllerserver.go:125`) and not together with the static parameters, so a
  volume can be created that no stage accepts. `RecordedStages` is about what
  modifications have written.
* A weed that the mount service does not know is not stopped by `Unmount`, which
  succeeds all the same (`manager.go:157-163`). The recovery then resets the
  probes, so that the age its second recheck sees is never past the bound and a
  hung mount of such a weed stays for ever. `HungTornDown` counts this among the
  faults that must stop.
* A recovery that takes its device number from a publish bind
  (`health_monitor.go:520`) may find one that is in use; `RemountTakesOnlyDead`
  excepts it (`misled`).
* A container that a failed move leaves without a mount is not looked for again
  (`container_remount_linux.go:519`); for `ContainersRepaired` it is not dead.
* `utils.go:55-58` says that the directory of a staged volume is kept. Without
  `StagingScanDir`, a weed still starting when its request or the plugin ended
  is invisible to a sweep, and so is one that a recovery starts during a sweep
  that read the map before `NodePublishVolume` adopted the volume without
  `cacheMu`. An unstage of an untracked volume whose unmount fails removes the
  cache under the running weed (`nodeserver.go:556-560`). These three
  are the weeds in `excused`; `KeepsCache` says that no other loses its
  directory.
* A late write may replace the class accepted last, or a late deletion remove
  it; `AcceptedClassApplies` then no longer speaks of it. `RecordedStages` holds
  all the same.

## Fairness

Weak fairness on a goroutine's own steps: it runs once it can, and its timers
fire. Strong fairness on taking a mutex: Go's `sync.Mutex` hands over to a
waiter that has waited for 1 ms. In the mount service, `cmd.Wait` returns within
`outputWaitDelay` of a death; nothing is assumed of weed, which may hang for
ever. In the node plugin the monitor ticks and the service notices deaths.
Nothing is assumed of a step that waits for a hung weed without a deadline
(`Blocked`): a goroutine's steps are strongly fair only while it is not blocked,
which says that it goes on if it is unblocked for ever or again and again. The
properties add `CallsReturn`, no goroutine is blocked for ever; for a hung weed
the code does not guarantee this (see the known divergences), while a dead one
ends the call with an error. `StagingRecovers` and `BindsRepaired` are for
behaviours in which faults eventually stop (`FaultsStop`), since each fault may
undo a repair.

`HealthMonitor`: system calls return when weed answers, the monitor's goroutine
and its ticker run, handlers release the mutex, and waiting for the mutex is
strongly fair. Its two liveness properties are for behaviours in which time
passes (`TimePasses`: finitely many steps between two ticks) and faults stop.
`ContainerRemount`: a goroutine finishes its pass; recovery and repair are
strongly fair, because sweeps come back as often as the volume calls for them.
`CacheSweep`: stages and the sweep run, and getting `cacheMu` for reading is
strongly fair, because `RWMutex.Unlock` admits the readers that wait. Nothing is
assumed of how long a deletion takes, except in `OrphansRemoved`.

## Proofs

`MountManagerProofs`, for any volumes, paths, requests, processes and versions,
assuming that two volumes have no path in common (kubelet derives the path from
the volume) and that `None` is nothing else:

* `SerialisedCorrect`, `NoForgottenCorrect`, `OneRunningCorrect`,
  `ServingKeepsCacheCorrect`, `TypeCorrect`.

None of these is inductive. The invariant `IInv` adds what each request may rely
on at its program counter (`CallInv`): a request that starts a process, or is
about to, has an empty entry, which needs `Serialised` and that mutexes are never
replaced (`OneMutex`); one that stops or replaces a process has its own process
or nothing in the entry, since only the watcher can have removed it; after the
kill the process no longer runs, which is why a failed stop does not forget a
running one. `OneRunning` then follows: both processes are supervised, and two
supervisors of one volume are the same. `CallStep` and its corollaries reduce
each step of a request to a fact about the request's new record.
`ServingKeepsCache` follows from `Cached`, the same for every process that
serves: a cache directory is removed only by the request of its volume, whose
process no longer runs by then, or as that of another weed version.

`MountSlotProofs`, from the same assumptions and the same invariant:

* `SlotsImplemented`: the service implements `MountSlot`.

The slot of a volume is read off its entry or, without one, off the request that
starts a process for it. That at most one request does is `Serialised`, and that
it does so only for an empty entry is `CallInv`, so a slot is a function of the
state; each action is then one step of `MountSlot` or leaves all slots as they
are.

`NodeServerProofs`, for any handlers, publish paths, mounts and mutex objects,
assuming that `None`, `Bare` and the rest of the constants are apart
(`NodeAssumption`) and that `None` is not a `Volume` object
(`VolumeAssumption`):

* `NoRebindCorrect`, `RebindKeepsModeCorrect`, `StagedIsTrackedCorrect`,
  `PublishedStaysTrackedCorrect`, `BoundIsRecordedCorrect`,
  `RecoverySparesLiveCorrect`, `NodeTypeCorrect`.

The invariant is built in layers, each inductive given those before it, because
the properties have different premises. `Base` holds always: where each goroutine
can be, and that only the registered weed runs. `Excl` holds until a mutex is
split: everyone waits for, or holds, the one object. `Guarded`, under the same
premise, is what the mutex protects from its taking on: a handler that stages
finds no volume until it stores one, a recovery's snapshot of the publish paths
is still that of the tracked volume, what it detaches is dead, and a withdrawn
path is not tracked until a restart. `Orderly` holds until kubelet gives up on a
call or a restart finds less than its records (`adrift`), and needs no mutex: kubelet has one request per path, keeps a record of what it has
published and unstages only without such records. `Sound` needs both premises:
the tracked and the bound paths are among kubelet's records, the published ones
are tracked, a publish path with a weed behind it shows the staging mount, and
none has one behind it while a recovery removes what is at the staging path
(`Removing`), whatever a late mount puts there.

`ContainerRemountProofs`, for any volumes, containers and devices, assuming that
`None` and `Host` are no devices and `None` is neither volume nor container
(`RemountAssumption`):

* `RemountTakesOnlyDeadCorrect`, `RemountTypeCorrect`.

A pass lists mounts, opens the staging mount and replaces much later. The
invariant says that in a container that still runs a listed mount is the one that
was listed (`Listed`): passes of other volumes replace only mounts of their own
volume (`OwnMounts`), and the device number is not given away while the mount
refers to it. What was found dead stays dead (`Doomed`), and so does the device a
recovery searches for (`OldIsDead`), the latter only while no recovery is misled.

`CacheSweepProofs`, for any finite set of volumes:

* `KeepsCacheCorrect`, `SweepTypeCorrect`.

`TypeOK` states the number of `cacheMu`'s readers as a cardinality, so that its
proof is that the lock is released as often as it is taken. For `KeepsCache` the
invariant says what shows a running weed to a sweep (`Shown`: kubelet's directory,
the lock or the map), and what is still true of a directory between the judgement
and the move (`Victim`): no stage can start a weed there without the lock, and no
recovery without a tracked volume.

`VolumeAttributesProofs`, for any values and any number of creations:

* `RecordedStagesCorrect`, `AcceptedClassCorrect`, `AttributesTypeCorrect`.

Here the invariant adds that a modification past its checks fits the volume it
was checked against (`ModFits`), as does a late write (`LateFits`), that nothing
is written for a creation that has not happened yet (`Counted`), that an accepted class is the one on the filer and
nothing that could replace it is under way (`AcceptedIsRecorded`), and that a
stage past its read carries it (`StageCarries`). The theorem is about the weeds
that a stage or recovery starts, with late mounts coming up at any time.

`HealthMonitorProofs`, for any mounts, interval, timeout, bounds and threshold
(all positive):

* `AbnormalEarnedCorrect`, `HealthTypeCorrect`;
* `RecoverySparesBusyCorrect`, if `Bound <= HungAfter`,
  `StatBound + Timeout <= HungAfter` and `2 * Timeout <= HungAfter`.

`AbnormalEarned` speaks of `streak`, while a dead mount is reported by `fails`:
the invariant adds that `fails` never exceeds `streak` (`Earned`), also on the
object that a check still counts on while an unstage or a recovery replaces it
(`Tracked`). A check that waits for the registered probe has one (`Waits`),
which the type of a check's result needs and which `resetStatfsProbe` could
break: within a recovery it cannot, since a recovery holds the mutex from its
first recheck on (`Locked`).

`RecoverySparesBusy` rests on a second invariant, `SInv`, and on `None` not being
a probe or a counter (`NoneAssumption`). While the mount at the path answers,
none of its probes gets old enough to count as hung (`Young`). A health probe's
age is that of its `stat`, at most `StatBound` or `Timeout`, and then that of its
`statfs`, given up after `Timeout`, which is why the hypothesis adds the two;
`Bound <= HungAfter` alone is not enough. That the ages are those of this mount
needs that probes are forgotten before a mount is replaced (`Forgotten`,
`ProbesOnPath`), that the ages of a health probe and of the `statfs` it waits for
go together (`Clocks`), and that a result that calls the mount dead is about it
(`Failing`). With the code's constants (time-out 30 s, hung after 60 s) the
hypothesis reads that weed answers a `stat` within 30 s and any request within
60 s, which the documented 25 s and 60 s meet.

Only model-checked are the liveness properties (`RequestsReturn`,
`StaleEntryDropped`, `StagingRecovers`, `BindsRepaired`, `HungTornDown`,
`ConditionClears`, `ContainersRepaired`, `StagesProceed`, `OrphansRemoved`):
fairness and `ENABLED` are outside the prover's reach. Every safety property of a
passing run is a theorem.

## Not modelled

* Container remount: the subPath of a mount, its read-only flag (a failed
  read-only remount is only logged, `container_remount_linux.go:530-534`), the
  reuse of a process id during a pass, and two volumes with the same filer path,
  which `sameFuseFilesystem` cannot tell apart.
* In the mount service SIGKILL ends a weed; `process_linux.go:50-52` only logs a
  `Kill` that fails. In the node plugin an unmount request that its client has
  given up takes effect at once or not at all.
* `NodeExpandVolume` (a quota call under the mutex), the numbers of the volume
  statistics, the file operations of the quarantine.
* The flag filter and the assembly of the weed command line, name sanitising,
  option parsing and capabilities: functions of text.
* The controller's other calls, which keep no state, and the driver's choice of
  a filer, which any value serves.
* The Windows build, with other mounts and other process supervision, and the
  deployment files.

## Plan

* More of the system: the handlers of the controller that keep no state of their
  own, as far as they meet the attribute store (the two hazards in
  `PROJECT.json` without a property).
* Safety lemmas under the liveness properties: that no reachable state of the
  mount service or of the node plugin has every goroutine waiting, as an
  invariant on the holders of the mutexes.
