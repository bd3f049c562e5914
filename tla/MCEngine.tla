------------------------------ MODULE MCEngine ------------------------------
(***************************************************************************)
(* Small instances of Engine.  Two rule sets at a time, out of three: an   *)
(* inbound-only one, one with an outbound rule, and one that iptables      *)
(* refuses in its IPv6 chain, after the IPv4 chains have been written.     *)
(***************************************************************************)
EXTENDS Engine, TLC

CONSTANTS inbound, outbound, broken, console

None     == {}
OneShell == {console}

JustInbound    == {inbound}
InboundRefused == inbound :> NoChain

WithOutbound    == {inbound, outbound}
OutboundOnly    == {outbound}
NothingRefused  == [r \in WithOutbound |-> NoChain]

WithBroken      == {outbound, broken}
BrokenRefused   == (outbound :> NoChain) @@ (broken :> "ZFW-IN6")

\* Bound: a run whose properties only speak of ~raced stops at the first race.
NoRace == ~raced
=============================================================================
