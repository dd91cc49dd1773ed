--------------------------- MODULE VolumeAttributes ---------------------------
(***************************************************************************)
(* How mount parameters reach weed.  A volume's static parameters are      *)
(* fixed in its PersistentVolume when it is created.  A                    *)
(* VolumeAttributesClass changes them later, through                       *)
(* ControllerModifyVolume, which keeps the accepted values in an entry on  *)
(* the filer (vacstore); the node plugin reads the entry back each time it *)
(* stages or re-stages the volume and overlays it on the context it has.   *)
(*                                                                         *)
(* One volume id, one node.  Of the mutable parameters the two that        *)
(* exclude each other are modelled; an empty value acts like "off".  The   *)
(* controller, the filer, the node plugin's handlers and its health        *)
(* monitor interleave at every call that leaves the process.  A write or a *)
(* deletion the controller has stopped waiting for may reach the filer     *)
(* later, after newer ones; likewise a mount the plugin has stopped waiting *)
(* for may come up later, while a newer stage is under way; bound: one such *)
(* request to the filer and one to the mount service at a time.            *)
(***************************************************************************)
EXTENDS Naturals

CONSTANTS Values,  \* the values a parameter is given
          MaxGen,  \* bound: how often the volume is created
          None

ASSUME AttributesAssumption == Values \subseteq {"on", "off", "bad"} /\ MaxGen \in Nat

VARIABLES
  pv,      \* the PersistentVolume: its static attributes, and which creation it is
  gen,     \* how often the volume has been created
  entry,   \* the volume's entry in the filer's /.csi/vac, or None
  late,    \* the entry (None: a deletion) of a request still on its way to a filer
  mod,     \* the ControllerModifyVolume under way, past its checks, or None
  del,     \* DeleteVolume has removed the data and not yet the entry
  staged,  \* kubelet has a vol_data.json for the volume on the node
  vol,     \* the context of the Volume the plugin tracks, or None
  op,      \* the stage or recovery under way, past its read of the entry
  mnt,     \* the parameters that are on in the running weed, or None
  owed,    \* those of a mount request the plugin has given up on and the mount
           \* service still works on, or None
  acc      \* ghost: the class last accepted for this volume, None if unclear

vars == <<pv, gen, entry, late, mod, del, staged, vol, op, mnt, owed, acc>>
controller == <<pv, gen, entry, late, mod, del, acc>>
node == <<staged, vol, op, mnt, owed>>

-------------------------------------------------------------------------------
(* Parameters.                                                             *)

Keys == {"writebackCache", "dlm"}
Attrs == UNION {[K -> Values] : K \in SUBSET Keys}
NoAttrs == [k \in {} |-> "off"]
Class == Attrs \ {NoAttrs}

\* mergePersistedVolumeAttributes, and the merge of a class into the static
\* parameters: top wins where it has a value.
Overlay(base, top) ==
  [k \in DOMAIN base \cup DOMAIN top |-> IF k \in DOMAIN top THEN top[k] ELSE base[k]]

\* validateConstrainedParameterValues and validateWritebackDlmCombo.
On(a, k) == k \in DOMAIN a /\ a[k] = "on"
Valid(a) == \A k \in DOMAIN a : a[k] # "bad"
Compatible(a) == ~(On(a, "writebackCache") /\ On(a, "dlm"))
Mountable(a) == Valid(a) /\ Compatible(a)

\* filerVacStore.Read: no entry reads as no parameters.
Persisted == IF entry = None THEN NoAttrs ELSE entry.params

Init ==
  /\ pv = None /\ gen = 0
  /\ entry = None /\ late = {}
  /\ mod = None
  /\ del = FALSE
  /\ staged = FALSE
  /\ vol = None
  /\ op = None
  /\ mnt = None
  /\ owed = None
  /\ acc = None

-------------------------------------------------------------------------------
(* Plausible bugs, used only to show that the properties can fail.         *)

\* A modification that checks the class alone.
ModifyVolumeBug(c) ==
  /\ pv # None /\ mod = None
  /\ Mountable(c)
  /\ mod' = [gen |-> pv.gen, params |-> c]
  /\ acc' = None
  /\ UNCHANGED <<pv, gen, entry, late, del, node>>

\* A stage that goes on without the class when the filer does not answer.
ReadFailsBug(n) ==
  /\ op = None /\ n \in {"stage", "recover"}
  /\ staged /\ pv # None /\ mnt = None /\ (n = "stage" <=> vol = None)
  /\ op' = [params |-> IF n = "stage" THEN pv.attrs ELSE vol, acc |-> acc]
  /\ UNCHANGED <<controller, staged, vol, mnt, owed>>

\* An adopted volume that keeps the PersistentVolume for its attributes.
AdoptBug ==
  /\ op = None /\ staged /\ pv # None
  /\ vol = None /\ mnt # None
  /\ vol' = pv
  /\ UNCHANGED <<controller, staged, op, mnt, owed>>

-------------------------------------------------------------------------------
(* The controller.                                                         *)

\* CreateVolume with StorageClass parameters s and the initial class c, or an
\* administrator's static PersistentVolume: the merged set is not checked.
CreateVolume(s, c) ==
  /\ pv = None /\ gen < MaxGen
  /\ Mountable(c)
  /\ gen' = gen + 1
  /\ pv' = [gen |-> gen + 1, attrs |-> Overlay(s, c)]
  /\ UNCHANGED <<entry, late, mod, del, acc, node>>

\* ControllerModifyVolume up to the write: the class is checked alone and
\* together with the attributes of the PersistentVolume.  A refused class
\* changes nothing.
ModifyVolume(c) ==
  /\ pv # None /\ mod = None
  /\ Mountable(c)
  /\ Mountable(Overlay(pv.attrs, c))
  /\ mod' = [gen |-> pv.gen, params |-> c]
  /\ acc' = None
  /\ UNCHANGED <<pv, gen, entry, late, del, node>>

\* roundTrip: a request that a filer has not answered in time may be carried
\* out there after the next filer has answered or all have failed.
MayDelay(w) == late' = late \/ (late = {} /\ late' = {w})

\* The entry is replaced as a whole.
ModifyWrite ==
  /\ mod # None
  /\ entry' = mod
  /\ MayDelay(mod)
  /\ mod' = None
  /\ acc' = IF pv # None /\ pv.gen = mod.gen THEN mod.params ELSE acc
  /\ UNCHANGED <<pv, gen, del, node>>

\* No filer answers, or the answer to a write is lost: an error either way.
ModifyWriteFails ==
  /\ mod # None
  /\ entry' \in {entry, mod}
  /\ MayDelay(mod)
  /\ mod' = None
  /\ UNCHANGED <<pv, gen, del, acc, node>>

\* DeleteVolume: the children and the directory go first.
DeleteEntry ==
  /\ pv # None /\ ~staged /\ ~del
  /\ del' = TRUE
  /\ UNCHANGED <<pv, gen, entry, late, mod, acc, node>>

\* The entry goes next; a failure to delete it is only logged.
DeleteAttributes ==
  /\ del
  /\ entry' \in {None, entry}
  /\ MayDelay(None)
  /\ del' = FALSE
  /\ pv' = None
  /\ acc' = None
  /\ UNCHANGED <<gen, mod, node>>

\* The controller restarts; the sidecars call it again.
ControllerRestart ==
  /\ mod # None \/ del
  /\ entry' \in {entry} \cup ({mod} \ {None})
  /\ MayDelay(mod)
  /\ mod' = None
  /\ del' = FALSE
  /\ UNCHANGED <<pv, gen, acc, node>>

\* The filer carries out a late request.  Whether the class accepted last is
\* still in effect is then unclear.
LateRequest ==
  /\ \E w \in late : entry' = w
  /\ late' = {}
  /\ acc' = None
  /\ UNCHANGED <<pv, gen, mod, del, node>>

-------------------------------------------------------------------------------
(* The node plugin.                                                        *)

StageCall ==
  /\ pv # None /\ ~del /\ ~staged
  /\ staged' = TRUE
  /\ UNCHANGED <<controller, vol, op, mnt, owed>>

\* A mount that answers is adopted, with the context of the request.
Adopt ==
  /\ op = None /\ staged /\ pv # None
  /\ vol = None /\ mnt # None
  /\ vol' = pv.attrs
  /\ UNCHANGED <<controller, staged, op, mnt, owed>>

\* The base of a stage is the request's context, which is the
\* PersistentVolume's; that of a recovery is the one the volume was last
\* staged with.
May(n) ==
  /\ op = None /\ staged /\ pv # None /\ mnt = None
  /\ n = IF vol = None THEN "stage" ELSE "recover"
Base(n) == IF n = "stage" THEN pv.attrs ELSE vol

\* stageNewVolume up to the mount, with the check of the merged context.
Stage(n) ==
  /\ May(n)
  /\ Mountable(Overlay(Base(n), Persisted))
  /\ op' = [params |-> Overlay(Base(n), Persisted), acc |-> acc]
  /\ UNCHANGED <<controller, staged, vol, mnt, owed>>

\* The entry cannot be read, or the merged context is refused: nothing is
\* mounted.
ReadFails(n) ==
  /\ May(n)
  /\ UNCHANGED vars

\* What weed makes of the parameters.
Flags(params) == {k \in Keys : On(params, k)}

\* Manager.Mount starts a weed, or, if a request the plugin had given up on
\* has meanwhile started one, answers that the volume is mounted already.
Start(flags) == mnt' = IF mnt = None THEN flags ELSE mnt

\* The mount is made from the merged context, which the volume keeps.
Mount ==
  /\ op # None
  /\ Start(Flags(op.params))
  /\ vol' = op.params
  /\ op' = None
  /\ UNCHANGED <<controller, staged, owed>>

\* The mount fails, or the client's timeout ends the wait and the service
\* goes on with the request.
MountFails ==
  /\ op # None
  /\ owed' \in {owed, Flags(op.params)}
  /\ op' = None
  /\ UNCHANGED <<controller, staged, vol, mnt>>

\* The request nobody waits for gets the service's lock, or fails.
LateMount ==
  /\ owed # None
  /\ Start(owed) \/ UNCHANGED mnt
  /\ owed' = None
  /\ UNCHANGED <<controller, staged, vol, op>>

MountDies ==
  /\ mnt # None
  /\ mnt' = None
  /\ UNCHANGED <<controller, staged, vol, op, owed>>

Unstage ==
  /\ staged /\ op = None
  /\ staged' = FALSE
  /\ vol' = None
  /\ mnt' = None
  /\ UNCHANGED <<controller, op, owed>>

\* recoverStagedVolumesFromDisk gives a volume an empty context.  A mount
\* request the plugin had sent goes on.
PluginRestart ==
  /\ vol' = IF staged THEN NoAttrs ELSE None
  /\ owed' \in {owed} \cup {Flags(o.params) : o \in {op} \ {None}}
  /\ op' = None
  /\ UNCHANGED <<controller, staged, mnt>>

-------------------------------------------------------------------------------
Controller ==
  \/ \E s \in Attrs, c \in Attrs : CreateVolume(s, c)
  \/ \E c \in Class : ModifyVolume(c)
  \/ ModifyWrite \/ ModifyWriteFails
  \/ DeleteEntry \/ DeleteAttributes \/ ControllerRestart \/ LateRequest

Node ==
  \/ StageCall \/ Adopt \/ Mount \/ MountFails \/ LateMount \/ MountDies \/ Unstage
  \/ PluginRestart
  \/ \E n \in {"stage", "recover"} : Stage(n) \/ ReadFails(n)

Next == Controller \/ Node

Spec == Init /\ [][Next]_vars

-------------------------------------------------------------------------------
(* Properties.                                                             *)

Entry == [gen : Nat, params : Attrs]

\* Type correctness.
TypeOK ==
  /\ gen \in 0..MaxGen
  /\ pv \in [gen : 1..MaxGen, attrs : Attrs] \cup {None}
  /\ entry \in Entry \cup {None}
  /\ late \subseteq Entry \cup {None}
  /\ mod \in Entry \cup {None}
  /\ del \in BOOLEAN
  /\ staged \in BOOLEAN
  /\ vol \in Attrs \cup {None}
  /\ op \in [params : Attrs, acc : Attrs \cup {None}] \cup {None}
  /\ mnt \in (SUBSET Keys) \cup {None}
  /\ owed \in (SUBSET Keys) \cup {None}
  /\ acc \in Attrs \cup {None}

\* ControllerModifyVolume never records a combination that every later stage
\* rejects: what it has written for a volume, whether or not it reported
\* success and however late the filer has carried it out, a stage of that
\* volume accepts.
RecordedStages ==
  pv # None /\ entry # None /\ entry.gen = pv.gen
    => Mountable(Overlay(pv.attrs, entry.params))

\* A class whose modification had succeeded when a stage or a recovery read
\* the filer is in effect in the weed it starts, whatever context the node
\* still had, unless a late request has overtaken the class on the filer.  It
\* need not be in effect when the service had a weed already (mnt # None),
\* which an earlier request, given up on, has started meanwhile: the stage
\* then succeeds with the class of that time.
InEffect(c, m) == \A k \in DOMAIN c : k \in m <=> c[k] = "on"
AcceptedClassApplies ==
  [][Mount /\ op.acc # None /\ mnt = None => InEffect(op.acc, mnt')]_vars

\* What a stage of the volume accepts, its recovery accepts too.
RecoveryAccepts ==
  pv # None /\ vol # None /\ Mountable(Overlay(pv.attrs, Persisted))
    => Mountable(Overlay(vol, Persisted))
===============================================================================
