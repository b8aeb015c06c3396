---------------------------- MODULE MCPlanManager ----------------------------
(* Small instances of PlanManager for TLC.                                 *)
EXTENDS PlanManager

(* Two plans of equal length that differ in every item, a shorter one and  *)
(* the empty one.                                                          *)
CONSTANTS a, b
SomePlans == {<<>>, <<b>>, <<a, a>>, <<b, b>>}
TwoPlans == {<<a, a>>, <<b, b>>}
=============================================================================
