-------------------------- MODULE MCMavCommandQueue --------------------------
(* Small instances of MavCommandQueue for TLC.                             *)
EXTENDS MavCommandQueue
=============================================================================
