---------------------------- MODULE MCFTPManager ----------------------------
(* Small instances of FTPManager for TLC.  A behaviour has one operation   *)
(* with up to two disturbances, or two operations with one between them.   *)
EXTENDS FTPManager
MCBounds == {<<1, 2>>, <<2, 1>>}
=============================================================================
