---------------------------- MODULE MCMountManager ----------------------------
(* A small instance of the mount service for TLC.                          *)
EXTENDS MountManager, TLC

CONSTANTS v1, t1, t2

\* One volume that requests may ask for at two paths.
OneVolumeTwoTargets == v1 :> {t1, t2}
===============================================================================
