-------------------------- MODULE MCPlannerSpeeds --------------------------
(* Three lines in a ring of four slots, short and long for their feed rate, *)
(* with sharp, gentle and straight corners.                                 *)
EXTENDS PlannerSpeeds

=============================================================================
