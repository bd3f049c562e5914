------------------------------ MODULE MCAccess ------------------------------
(* What a request to the API passes: the gateway's route, the rate limiter *)
(* and the session check.  The three share no state: each is explored with *)
(* the others at rest.                                                     *)
EXTENDS Limiter, KeyCache, Gateway, TLC

VARIABLE scene

all == <<limitVars, keyVars, routeVars, scene>>

AccessInit ==
    /\ LimitInit /\ KeyInit /\ RouteInit
    /\ scene \in {"limiter", "keys", "route"}
    /\ scene # "keys" => published = Keys /\ token = [p \in Logins |-> CHOOSE k \in Keys : TRUE]
    /\ scene # "route" => up

AccessNext ==
    \/ scene = "limiter" /\ LimitNext /\ UNCHANGED <<keyVars, routeVars, scene>>
    \/ scene = "keys" /\ KeyNext /\ UNCHANGED <<limitVars, routeVars, scene>>
    \/ scene = "route" /\ RouteNext /\ UNCHANGED <<limitVars, keyVars, scene>>

AccessSpec == AccessInit /\ [][AccessNext]_all

\* Clients and limited requests are interchangeable.
Alike == Permutations(Clients) \cup Permutations(Procs)
=============================================================================
