----------------------------- MODULE MCPlanStore -----------------------------
(* One plan, saved by one request while two others write its secrets;
   requests that name other plans touch other directories. *)
EXTENDS PlanStore, TLC

CONSTANTS n1, s1, s2, a

MCPlanRequests == {n1}
MCSecretRequests == {s1, s2}
MCPlans == {a}
=============================================================================
