---------------------------- MODULE MCPlaneLive ----------------------------
(* The daemon under fairness: requests that meet each other, and after     *)
(* them bursts of container events.  PlaneSafety has both at once.         *)
EXTENDS MCControlPlane

\* A request is under way only while no container has changed.  What fairness
\* promises never leads out of this, so no fair behaviour is cut short.
RequestsFirst == inventory = 0 \/ \A r \in Requests : pc[r] = "idle"
============================================================================
