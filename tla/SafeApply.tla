----------------------------- MODULE SafeApply ------------------------------
(***************************************************************************)
(* What engine/zfw promises the operator who tries out rules: the firewall *)
(* as one value and the dead-man as another, with every command of the     *)
(* engine a single step.  The promise is void as soon as two engine        *)
(* processes overlap ("raced").                                            *)
(***************************************************************************)

VARIABLES
  fw,   \* "off", or who is responsible for the live rules
  net   \* what the dead-man does

vars == <<fw, net>>

States == {"off", "trial", "plain", "kept", "raced"}
Nets   == {"none", "arming", "armed", "reverting", "raced"}

Init == fw = "off" /\ net = "none"

\* apply --safe stops the old timer, then starts its own: the trial begins.
StartArming ==
  /\ net \in {"none", "armed"} /\ net' = "arming"
  /\ UNCHANGED fw

Arm ==
  /\ net = "arming" /\ net' = "armed"
  /\ fw' = "trial"

\* apply without --safe leaves the dead-man as it is.
ApplyPlain ==
  /\ net \in {"none", "armed"} /\ fw' = "plain"
  /\ UNCHANGED net

Confirm ==
  /\ net \in {"none", "armed"} /\ net' = "none"
  /\ fw' = IF fw = "off" THEN "off" ELSE "kept"

\* revert, or the end of an apply that failed.
TurnOff ==
  /\ fw \notin {"raced", "off"} /\ net # "arming"
  /\ fw' = "off"
  /\ UNCHANGED net

\* Only a firewall that is off may lose its dead-man without a confirmation.
Disarm ==
  /\ fw = "off" /\ net = "armed" /\ net' = "none"
  /\ UNCHANGED fw

Expire ==
  /\ net = "armed" /\ net' = "reverting"
  /\ UNCHANGED fw

AutoRevert ==
  /\ net = "reverting" /\ net' = "none"
  /\ fw' = "off"

Reboot ==
  /\ fw # "raced"
  /\ fw' \in {"off", "plain"} /\ net' = "none"

Race == fw' = "raced" /\ net' = "raced"

Next == StartArming \/ Arm \/ ApplyPlain \/ Confirm \/ TurnOff \/ Disarm
        \/ Expire \/ AutoRevert \/ Reboot \/ Race

Spec == Init /\ [][Next]_vars

FairSpec == Spec /\ WF_vars(Expire) /\ WF_vars(AutoRevert)
-----------------------------------------------------------------------------
(* Rules on trial have a dead-man; confirmed rules have none; the overlap  *)
(* of two engine processes is never forgotten.                             *)
Promise ==
  /\ fw \in States /\ net \in Nets
  /\ fw = "trial" => net # "none"
  /\ fw = "kept"  => net \in {"none", "arming"}
  /\ fw = "raced" <=> net = "raced"
=============================================================================
