------------------------ MODULE MCSigningController ------------------------
(* Two vehicles and two links; the ground station has two keys and lacks   *)
(* the one a vehicle may come up with; two operations.                     *)
EXTENDS SigningController, TLC
SigningSymmetry == Permutations(Vehicles) \union Permutations(Links)
=============================================================================
