------------------------------ MODULE Gateway ------------------------------
(***************************************************************************)
(* RegisterWithRetry: the daemon keeps its route in the gateway, which     *)
(* forgets every route when it restarts.                                   *)
(*                                                                         *)
(* Time goes by in ticks; an attempt takes none.  The gateway counts as up *)
(* when management.url names it and it answers.                            *)
(***************************************************************************)
EXTENDS Integers

CONSTANTS
    First,      \* delay after the first failure: 2 s
    MaxDelay,   \* no delay from here on is doubled: 30 s
    Period      \* interval between registrations: 5 min

ASSUME GatewayAssumption ==
    /\ {First, MaxDelay, Period} \subseteq Nat
    /\ 0 < First /\ First < 2 * MaxDelay /\ 2 * MaxDelay <= Period

VARIABLES
    up,         \* the gateway answers
    upFor,      \* for how many ticks it has, counted as far as Period + 1
    routed,     \* it has the daemon's route
    phase,      \* the loop the daemon is in
    delay,      \* what it waits after the next failure
    timer       \* what is left of its present wait

routeVars == <<up, upFor, routed, phase, delay, timer>>

\* Type correctness; a delay may exceed MaxDelay, but not reach its double.
RouteTypeOK ==
    /\ up \in BOOLEAN /\ routed \in BOOLEAN
    /\ upFor \in 0..Period + 1
    /\ phase \in {"retry", "steady"}
    /\ delay \in 1..2 * MaxDelay - 1
    /\ timer \in 0..Period

RouteInit ==
    /\ up \in BOOLEAN /\ upFor = 0 /\ routed = FALSE
    /\ phase = "retry" /\ delay = First /\ timer = 0

----------------------------------------------------------------------------
\* Register: an upsert by path.  The route may be in place although the
\* answer is lost.
Register(ok) ==
    \/ up /\ routed' = TRUE /\ ok \in BOOLEAN
    \/ ~ok /\ ~up /\ UNCHANGED routed

\* Mutant: the delay is doubled however long it is.
NextDelayFreely == 2 * delay
NextDelay == IF delay < MaxDelay THEN 2 * delay ELSE delay

\* Until the first success: wait the delay, then double it.
Retry ==
    /\ phase = "retry" /\ timer = 0
    /\ \E ok \in BOOLEAN :
          /\ Register(ok)
          /\ phase' = IF ok THEN "steady" ELSE "retry"
          /\ timer' = IF ok THEN Period ELSE delay
          /\ delay' = IF ok THEN delay ELSE NextDelay
    /\ UNCHANGED <<up, upFor>>

\* Mutant: the daemon stops when it has registered once.
RefreshNever ==
    /\ phase = "steady" /\ timer = 0
    /\ timer' = Period
    /\ UNCHANGED <<up, upFor, routed, phase, delay>>

\* From then on: at every tick of the ticker, whatever the answer.
Refresh ==
    /\ phase = "steady" /\ timer = 0
    /\ \E ok \in BOOLEAN : Register(ok)
    /\ timer' = Period
    /\ UNCHANGED <<up, upFor, phase, delay>>

GatewayStops ==
    /\ up /\ up' = FALSE /\ upFor' = 0 /\ routed' = FALSE
    /\ UNCHANGED <<phase, delay, timer>>

GatewayStarts ==
    /\ ~up /\ up' = TRUE
    /\ UNCHANGED <<upFor, routed, phase, delay, timer>>

Second ==
    /\ timer > 0 /\ timer' = timer - 1
    /\ upFor' = IF up /\ upFor <= Period THEN upFor + 1 ELSE upFor
    /\ UNCHANGED <<up, routed, phase, delay>>

RouteNext == Retry \/ Refresh \/ GatewayStops \/ GatewayStarts \/ Second
RouteSpec == RouteInit /\ [][RouteNext]_routeVars

----------------------------------------------------------------------------
\* A gateway that has been up for longer than the period has the route again:
\* also when it came up while the daemon was in its longest wait
\* (gateway.go:122-124, "so the route survives a gateway restart").
RouteReturns == upFor > Period => routed
============================================================================
