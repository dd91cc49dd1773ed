------------------------ MODULE VolumeAttributesProofs ------------------------
(***************************************************************************)
(* Proofs about VolumeAttributes, for any values and any number of         *)
(* creations of the volume: types, that ControllerModifyVolume never       *)
(* records what a stage of the volume rejects, and that an accepted class  *)
(* reaches every mount staged after it.  The inductive invariant adds what *)
(* a modification or late write has checked, that a creation is newer than *)
(* everything written for the ones before it, and that an accepted class   *)
(* is the one on the filer.                                                *)
(***************************************************************************)
EXTENDS VolumeAttributes, TLAPS

\* The modification under way, if the volume is still the one it was checked
\* against, fits the volume's static attributes.
ModFits ==
  pv # None /\ mod # None /\ mod.gen = pv.gen
    => Mountable(Overlay(pv.attrs, mod.params))

\* So does a late write.
LateFits ==
  \A w \in late : pv # None /\ w # None /\ w.gen = pv.gen
    => Mountable(Overlay(pv.attrs, w.params))

\* Nothing is written for a creation that has not happened yet.
Counted ==
  /\ pv # None => pv.gen <= gen
  /\ entry # None => entry.gen <= gen
  /\ mod # None => mod.gen <= gen
  /\ \A w \in late : w # None => w.gen <= gen

\* The class known to be accepted is the one on the filer, and no
\* modification that could replace it is under way.
AcceptedIsRecorded ==
  acc # None => mod = None /\ entry # None /\ entry.params = acc

\* A stage past its read mounts with the class that was accepted then.
Carries(o) == \A k \in DOMAIN o.acc : k \in DOMAIN o.params /\ o.params[k] = o.acc[k]
StageCarries == op # None /\ op.acc # None => Carries(op)

IInv ==
  /\ TypeOK /\ Counted /\ ModFits /\ LateFits /\ RecordedStages
  /\ AcceptedIsRecorded /\ StageCarries

-------------------------------------------------------------------------------
(* Lemmas.                                                                 *)

\* No parameters are parameters, and a merge of parameters has the keys of
\* both and values of either.
LEMMA NoAttrsType == NoAttrs \in Attrs
<1>1. NoAttrs \in [{} -> Values] /\ {} \in SUBSET Keys
  BY DEF NoAttrs
<1> QED
  BY <1>1 DEF Attrs

\* An overlay of attributes is an assignment of attributes.
LEMMA OverlayType ==
  ASSUME NEW a \in Attrs, NEW b \in Attrs
  PROVE  Overlay(a, b) \in Attrs
<1>1. PICK K \in SUBSET Keys : a \in [K -> Values]
  BY DEF Attrs
<1>2. PICK L \in SUBSET Keys : b \in [L -> Values]
  BY DEF Attrs
<1>3. Overlay(a, b) \in [K \cup L -> Values]
  BY <1>1, <1>2 DEF Overlay
<1>4. K \cup L \in SUBSET Keys
  OBVIOUS
<1> QED
  BY <1>3, <1>4 DEF Attrs

\* What is on top of a merge is in it.
LEMMA OverlayCarries ==
  ASSUME NEW a, NEW b, NEW k \in DOMAIN b
  PROVE  k \in DOMAIN Overlay(a, b) /\ Overlay(a, b)[k] = b[k]
  BY DEF Overlay

\* What the filer answers, and what a stage starts from, are parameters.
LEMMA PersistedType == TypeOK => Persisted \in Attrs
  BY NoAttrsType DEF TypeOK, Persisted, Entry

\* So is what a stage starts from.
LEMMA BaseType ==
  ASSUME TypeOK, NEW n, May(n)
  PROVE  Base(n) \in Attrs
  BY DEF TypeOK, May, Base

\* What weed makes of parameters are some of the keys.
LEMMA FlagsType == \A a : Flags(a) \in SUBSET Keys
  BY DEF Flags

-------------------------------------------------------------------------------
(* The initial state and the steps.                                        *)

\* The invariant holds initially.
LEMMA InitIInv == Init => IInv
<1> SUFFICES ASSUME Init PROVE IInv
  OBVIOUS
<1>1. gen \in 0..MaxGen
  BY AttributesAssumption DEF Init
<1>2. TypeOK
  BY <1>1 DEF Init, TypeOK
<1>3. Counted /\ ModFits /\ LateFits /\ RecordedStages /\ AcceptedIsRecorded /\ StageCarries
  BY DEF Init, Counted, ModFits, LateFits, RecordedStages, AcceptedIsRecorded, StageCarries
<1> QED
  BY <1>2, <1>3 DEF IInv

\* The controller's steps.
LEMMA ControllerKeeps ==
  ASSUME IInv, Controller
  PROVE  IInv'
<1> USE DEF IInv
<1>1. StageCarries'
  <2>1. op' = op
    BY DEF Controller, CreateVolume, ModifyVolume, ModifyWrite, ModifyWriteFails,
           DeleteEntry, DeleteAttributes, ControllerRestart, LateRequest, node
  <2> QED
    BY <2>1 DEF StageCarries, Carries
<1>2. ASSUME NEW s \in Attrs, NEW c \in Attrs, CreateVolume(s, c)
      PROVE  TypeOK' /\ Counted' /\ ModFits' /\ LateFits' /\ RecordedStages' /\ AcceptedIsRecorded'
  <2>1. Overlay(s, c) \in Attrs
    BY OverlayType
  <2>2. gen \in Nat /\ gen + 1 \in 1..MaxGen /\ gen' = gen + 1
    BY <1>2, AttributesAssumption DEF CreateVolume, TypeOK
  <2>3. TypeOK'
    BY <1>2, <2>1, <2>2 DEF CreateVolume, TypeOK, node
  <2>4. Counted'
    BY <1>2, <2>2 DEF CreateVolume, TypeOK, Counted, Entry
  <2>5. ModFits' /\ LateFits' /\ RecordedStages'
    <3>1. /\ pv'.gen = gen + 1 /\ entry' = entry /\ mod' = mod
          /\ entry # None => entry.gen \in Nat /\ entry.gen <= gen
          /\ mod # None => mod.gen \in Nat /\ mod.gen <= gen
          /\ late' = late
          /\ \A w \in late : w # None => w.gen \in Nat /\ w.gen <= gen
      BY <1>2 DEF CreateVolume, TypeOK, Counted, Entry
    <3>2. /\ entry # None => entry.gen # gen + 1
          /\ mod # None => mod.gen # gen + 1
          /\ \A w \in late : w # None => w.gen # gen + 1
      BY <2>2, <3>1
    <3> QED
      BY <3>1, <3>2 DEF ModFits, LateFits, RecordedStages
  <2>6. AcceptedIsRecorded'
    BY <1>2 DEF CreateVolume, AcceptedIsRecorded
  <2> QED
    BY <2>3, <2>4, <2>5, <2>6
<1>3. ASSUME NEW c \in Class, ModifyVolume(c)
      PROVE  TypeOK' /\ Counted' /\ ModFits' /\ LateFits' /\ RecordedStages' /\ AcceptedIsRecorded'
  <2>1. c \in Attrs /\ pv.gen \in Nat /\ pv.gen <= gen
    BY <1>3 DEF Class, ModifyVolume, TypeOK, Counted
  <2>2. TypeOK'
    BY <1>3, <2>1 DEF ModifyVolume, TypeOK, Entry, node
  <2>3. Counted'
    BY <1>3, <2>1 DEF ModifyVolume, Counted
  <2>4. ModFits' /\ LateFits'
    BY <1>3 DEF ModifyVolume, ModFits, LateFits
  <2>5. RecordedStages'
    BY <1>3 DEF ModifyVolume, RecordedStages
  <2>6. AcceptedIsRecorded'
    BY <1>3 DEF ModifyVolume, AcceptedIsRecorded
  <2> QED
    BY <2>2, <2>3, <2>4, <2>5, <2>6
<1>4. CASE ModifyWrite
  <2>1. TypeOK'
    BY <1>4 DEF ModifyWrite, MayDelay, TypeOK, Entry, node
  <2>2. Counted' /\ ModFits' /\ LateFits' /\ RecordedStages' /\ AcceptedIsRecorded'
    BY <1>4
    DEF ModifyWrite, MayDelay, Counted, ModFits, LateFits, RecordedStages, AcceptedIsRecorded
  <2> QED
    BY <1>1, <2>1, <2>2
<1>5. CASE ModifyWriteFails
  <2>1. TypeOK'
    BY <1>5 DEF ModifyWriteFails, MayDelay, TypeOK, Entry, node
  <2>2. Counted' /\ ModFits' /\ LateFits' /\ RecordedStages' /\ AcceptedIsRecorded'
    BY <1>5
    DEF ModifyWriteFails, MayDelay, Counted, ModFits, LateFits, RecordedStages, AcceptedIsRecorded
  <2> QED
    BY <1>1, <2>1, <2>2
<1>6. CASE DeleteEntry
  <2>1. TypeOK'
    BY <1>6 DEF DeleteEntry, TypeOK, node
  <2>2. Counted' /\ ModFits' /\ LateFits' /\ RecordedStages' /\ AcceptedIsRecorded'
    BY <1>6 DEF DeleteEntry, Counted, ModFits, LateFits, RecordedStages, AcceptedIsRecorded
  <2> QED
    BY <1>1, <2>1, <2>2
<1>7. CASE DeleteAttributes
  <2>1. TypeOK'
    BY <1>7 DEF DeleteAttributes, MayDelay, TypeOK, node
  <2>2. Counted' /\ ModFits' /\ LateFits' /\ RecordedStages' /\ AcceptedIsRecorded'
    BY <1>7
    DEF DeleteAttributes, MayDelay, Counted, ModFits, LateFits, RecordedStages, AcceptedIsRecorded
  <2> QED
    BY <1>1, <2>1, <2>2
<1>8. CASE ControllerRestart
  <2>1. TypeOK'
    BY <1>8 DEF ControllerRestart, MayDelay, TypeOK, node
  <2>2. Counted' /\ ModFits' /\ LateFits' /\ RecordedStages' /\ AcceptedIsRecorded'
    BY <1>8
    DEF ControllerRestart, MayDelay, Counted, ModFits, LateFits, RecordedStages, AcceptedIsRecorded
  <2> QED
    BY <1>1, <2>1, <2>2
<1>9. CASE LateRequest
  <2>1. PICK w \in late : entry' = w
    BY <1>9 DEF LateRequest
  <2>2. TypeOK'
    BY <1>9, <2>1 DEF LateRequest, TypeOK, node
  <2>3. Counted' /\ ModFits' /\ LateFits' /\ RecordedStages' /\ AcceptedIsRecorded'
    BY <1>9, <2>1
    DEF LateRequest, Counted, ModFits, LateFits, RecordedStages, AcceptedIsRecorded
  <2> QED
    BY <1>1, <2>2, <2>3
<1> QED
  BY <1>1, <1>2, <1>3, <1>4, <1>5, <1>6, <1>7, <1>8, <1>9 DEF Controller

\* The node's steps leave the controller's state alone.
LEMMA NodeKeeps ==
  ASSUME IInv, Node
  PROVE  IInv'
<1> USE DEF IInv
<1>1. UNCHANGED controller
  BY DEF Node, StageCall, Adopt, Mount, MountFails, LateMount, MountDies, Unstage,
         PluginRestart, Stage, ReadFails, vars, controller
<1>2. Counted' /\ ModFits' /\ LateFits' /\ RecordedStages' /\ AcceptedIsRecorded'
  BY <1>1 DEF controller, Counted, ModFits, LateFits, RecordedStages, AcceptedIsRecorded
<1>3. ASSUME NEW n \in {"stage", "recover"}, Stage(n)
      PROVE  TypeOK' /\ StageCarries'
  <2> DEFINE params == Overlay(Base(n), Persisted)
  <2>1. params \in Attrs
    BY <1>3, OverlayType, PersistedType, BaseType DEF Stage
  <2>2. op' = [params |-> params, acc |-> acc]
    BY <1>3 DEF Stage
  <2>3. TypeOK'
    BY <1>1, <1>3, <2>1, <2>2 DEF Stage, TypeOK, controller
  <2>4. acc # None => Persisted = acc
    BY DEF AcceptedIsRecorded, Persisted
  <2>5. StageCarries'
    <3>1. op'.params = params /\ op'.acc = acc
      BY <2>2
    <3>2. acc # None => \A k \in DOMAIN acc : k \in DOMAIN params /\ params[k] = acc[k]
      BY <2>4, OverlayCarries
    <3> HIDE DEF params
    <3> QED
      BY <3>1, <3>2 DEF StageCarries, Carries
  <2> QED
    BY <2>3, <2>5
<1>4. CASE StageCall \/ Adopt \/ MountDies \/ LateMount
  <2>1. TypeOK'
    BY <1>1, <1>4 DEF StageCall, Adopt, MountDies, LateMount, Start, TypeOK, controller
  <2>2. StageCarries'
    BY <1>4 DEF StageCall, Adopt, MountDies, LateMount, StageCarries, Carries
  <2> QED
    BY <1>2, <2>1, <2>2
<1>5. CASE Mount \/ MountFails \/ Unstage \/ PluginRestart
  <2>1. op' = None
    BY <1>5 DEF Mount, MountFails, Unstage, PluginRestart
  <2>2. op # None => op.params \in Attrs
    BY DEF TypeOK
  <2>3. TypeOK'
    BY <1>1, <1>5, <2>1, <2>2, NoAttrsType, FlagsType
    DEF Mount, MountFails, Start, Unstage, PluginRestart, TypeOK, controller
  <2>4. StageCarries'
    BY <2>1 DEF StageCarries
  <2> QED
    BY <1>2, <2>3, <2>4
<1>6. ASSUME NEW n \in {"stage", "recover"}, ReadFails(n)
      PROVE  TypeOK' /\ StageCarries'
  BY <1>6 DEF ReadFails, vars, TypeOK, StageCarries, Carries
<1> QED
  BY <1>2, <1>3, <1>4, <1>5, <1>6 DEF Node

\* Every step keeps the invariant.
LEMMA NextIInv == IInv /\ [Next]_vars => IInv'
<1> SUFFICES ASSUME IInv, [Next]_vars PROVE IInv'
  OBVIOUS
<1>1. CASE UNCHANGED vars
  BY <1>1 DEF vars, IInv, TypeOK, Counted, ModFits, LateFits, RecordedStages, AcceptedIsRecorded,
              StageCarries, Carries
<1> QED
  BY <1>1, ControllerKeeps, NodeKeeps DEF Next

-------------------------------------------------------------------------------
(* Theorems.                                                               *)

\* The invariant holds in every reachable state.
THEOREM AttributesInvariance == Spec => []IInv
  BY InitIInv, NextIInv, PTL DEF Spec

\* The state of controller, filer and node has its types.
THEOREM AttributesTypeCorrect == Spec => []TypeOK
<1>1. IInv => TypeOK
  BY DEF IInv
<1> QED
  BY <1>1, AttributesInvariance, PTL

\* What ControllerModifyVolume has written for a volume, a stage of that
\* volume accepts.
THEOREM RecordedStagesCorrect == Spec => []RecordedStages
<1>1. IInv => RecordedStages
  BY DEF IInv
<1> QED
  BY <1>1, AttributesInvariance, PTL

\* A class accepted before a stage or a recovery read the filer is in effect
\* in the mount with which it succeeds, unless the service had a mount already.
THEOREM AcceptedClassCorrect == Spec => AcceptedClassApplies
<1> DEFINE Applies == Mount /\ op.acc # None /\ mnt = None => InEffect(op.acc, mnt')
<1>1. IInv /\ [Next]_vars => [Applies]_vars
  <2> SUFFICES ASSUME IInv, Mount, op.acc # None, mnt = None,
                      NEW k \in DOMAIN op.acc
               PROVE  k \in mnt' <=> op.acc[k] = "on"
    BY DEF InEffect
  <2>1. k \in DOMAIN op.params /\ op.params[k] = op.acc[k]
    BY DEF IInv, StageCarries, Carries, Mount
  <2>2. mnt' = Flags(op.params)
    BY DEF Mount, Start
  <2>3. k \in Keys
    <3>1. op.acc \in Attrs
      BY DEF IInv, TypeOK, Mount
    <3>2. PICK K \in SUBSET Keys : op.acc \in [K -> Values]
      BY <3>1 DEF Attrs
    <3> QED
      BY <3>2
  <2> QED
    BY <2>1, <2>2, <2>3 DEF Flags, On
<1> QED
  BY <1>1, AttributesInvariance, PTL DEF Spec, AcceptedClassApplies
===============================================================================
