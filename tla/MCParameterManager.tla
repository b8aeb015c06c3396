------------------------ MODULE MCParameterManager ------------------------
(* An autopilot with two parameters and two components with one each, of   *)
(* which a PX4 or ArduPilot vehicle has the first.                         *)
EXTENDS ParameterManager, TLC
TwoAndOthers == 1 :> 2 @@ 2 :> 1 @@ 3 :> 1
TwoOrThree == "px4" :> {1, 2} @@ "apm" :> {1, 2} @@ "other" :> {1, 2, 3}
RefreshApm == "px4" :> 1 @@ "apm" :> 2 @@ "other" :> 1
=============================================================================
