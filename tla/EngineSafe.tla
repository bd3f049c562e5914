----------------------------- MODULE EngineSafe -----------------------------
(***************************************************************************)
(* engine/zfw, command by command, implements SafeApply.                   *)
(***************************************************************************)
EXTENDS Engine

Firewall == IF raced THEN "raced" ELSE IF owner = "nobody" THEN "off" ELSE owner

DeadManOf == IF raced THEN "raced"
             ELSE IF Active(Deadman) THEN "reverting"
             ELSE IF timer = "armed" THEN "armed"
             ELSE IF \E p \in Callers : pc[p] = "arm_run" THEN "arming"
             ELSE "none"

Trial == INSTANCE SafeApply WITH fw <- Firewall, net <- DeadManOf

(***************************************************************************)
(* Every step of the engine, of systemd's timer, of a failure, a kill, an  *)
(* orphaned script or a reboot is a step of SafeApply or changes nothing   *)
(* there, and a dead-man that waits does revert in the end.                *)
(***************************************************************************)
ImplementsSafeApply == Trial!FairSpec
=============================================================================
