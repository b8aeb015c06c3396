----------------------- MODULE MCMultiVehicleManager -----------------------
(* Small instances of MultiVehicleManager for TLC: one vehicle on three    *)
(* links of different kinds, whose settings change; two vehicles that      *)
(* share two links; two whose activation the user changes on one link;     *)
(* and three vehicle objects on one link.                                  *)
EXTENDS MultiVehicleManager, TLC
CONSTANTS radio, usb, sat
B(v, l, c) == [vehicles |-> v, links |-> l, choices |-> c]
MCBounds == {B(1, {radio, usb, sat}, 2), B(2, {radio, sat}, 0), B(2, {radio}, 1), B(3, {radio}, 0)}
TwoLinks == {B(1, {radio, sat}, 0)}
IdSymmetry == Permutations(Ids)
=============================================================================
