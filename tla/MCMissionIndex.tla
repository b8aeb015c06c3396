---------------------------- MODULE MCMissionIndex ----------------------------
(* Small instances of MissionIndex for TLC.                                *)
EXTENDS MissionIndex
=============================================================================
