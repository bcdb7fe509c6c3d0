---------------------------- MODULE MCVeWildLive ----------------------------
(***************************************************************************)
(* Instances of VeWildLive for TLC.  Symmetry is not sound for liveness.   *)
(***************************************************************************)
EXTENDS VeWildLive, TLC
=============================================================================
