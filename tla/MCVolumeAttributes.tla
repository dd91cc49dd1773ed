-------------------------- MODULE MCVolumeAttributes --------------------------
(* A small instance of the volume attributes for TLC.                      *)
EXTENDS VolumeAttributes

\* Bounds: one request is left behind at a time, to a filer or to the mount
\* service, and none to the mount service once the volume has been re-created.
OneLate == owed = None \/ (late = {} /\ gen = 1)
===============================================================================
