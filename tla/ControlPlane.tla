---------------------------- MODULE ControlPlane ----------------------------
(***************************************************************************)
(* The daemon zfwd: its API requests, its start-up recompile and the       *)
(* Docker watcher, which all rewrite compiled.sh from rules.json and from  *)
(* the container inventory.  handlers.Server.mu serialises the writing;    *)
(* the inventory is read before it is taken, so what is compiled may be    *)
(* older than what is there.                                               *)
(*                                                                         *)
(* The engine is one step here; module Engine opens it up.                 *)
(***************************************************************************)
EXTENDS Naturals

CONSTANTS
  Requests,    \* API requests that can be served at the same time
  RuleSets,    \* the valid rule sets
  MaxChanges,  \* bound: how often a container starts or dies
  Mode,        \* ZFW_APPLY_MODE, "bash" or "restore"
  Faults,      \* the faults of FaultKinds that may happen
  Main, Watcher, Nobody, NoScript, Torn, Off, Unknown, NoBody

Procs  == Requests \cup {Main, Watcher}
Seen   == 0..MaxChanges \cup {Unknown}
Script == [rules : RuleSets, containers : Seen, ports : Seen]

FaultKinds ==
  { "crash",        \* zfwd dies and systemd starts it again
    "geo_fails",    \* a country's zone is neither cached nor to be had
    "write_fails",  \* a file cannot be written in full: the disk is full
    "docker_down",  \* docker ps or ss fails, and an empty list is returned
    "stream_ends" } \* docker events ends: Docker restarts

ASSUME ControlPlaneAssumption ==
  /\ Main # Watcher /\ {Main, Watcher} \cap Requests = {}
  /\ Nobody \notin Procs
  /\ MaxChanges \in Nat
  /\ NoBody \notin RuleSets /\ Off \notin RuleSets /\ Torn \notin RuleSets
  /\ NoScript \notin Script /\ Torn \notin Script /\ NoScript # Torn
  /\ Mode \in {"bash", "restore"}
  /\ Faults \subseteq FaultKinds

VARIABLES
  inventory,  \* Docker: how many times a container has started or died
  stream,     \* docker events: "up", "ending" (its output is read) or "down"
  signal,     \* consume: the one-place channel events holds a tick
  timer,      \* consume: the debounce timer runs
  missed,     \* history: some change was not seen, or could not be written
  rules,      \* rules.json
  compiled,   \* compiled.sh
  restore,    \* compiled.restore.sh
  live,       \* the rule set the kernel enforces
  ensured,    \* the rule sets whose country files are all there
  mu,         \* who holds Server.mu
  pc, job,    \* what each request, main and the watcher is doing
  body,       \* the rule set that was posted
  containers, ports  \* the inventory as prefetchForCompile saw it

docker == <<inventory, stream, signal, timer, missed>>
files  == <<rules, compiled, restore, ensured>>
local  == <<body, containers, ports>>
vars   == <<docker, files, live, mu, pc, job, local>>

Jobs   == {"none", "recompile", "save", "apply", "commit", "revert"}
Held   == {"save", "compile", "restore", "engine", "reply"}
PC     == {"idle", "containers", "ports", "geo", "lock"} \cup Held

(***************************************************************************)
(* main has seeded rules.json, or found it, and starts its recompile; the  *)
(* HTTP server and the watcher come after.                                 *)
(***************************************************************************)
Init ==
  /\ inventory = 0 /\ stream = "down" /\ signal = FALSE /\ timer = FALSE
  /\ missed = FALSE
  /\ rules \in RuleSets /\ ensured = {rules}
  /\ compiled = NoScript /\ restore = NoScript /\ live = Off
  /\ mu = Nobody
  /\ pc = [p \in Procs |-> IF p = Main THEN "containers" ELSE "idle"]
  /\ job = [p \in Procs |-> IF p = Main THEN "recompile" ELSE "none"]
  /\ body = [p \in Procs |-> NoBody]
  /\ containers = [p \in Procs |-> Unknown]
  /\ ports = [p \in Procs |-> Unknown]

Started == pc[Main] = "idle"

Goto(p, l) == pc' = [pc EXCEPT ![p] = l] /\ UNCHANGED job

\* Mutant of Return: s.mu is unlocked at the end, an early return forgets it.
ReturnLocked(p) ==
  /\ pc' = [pc EXCEPT ![p] = "idle"]
  /\ job' = [job EXCEPT ![p] = "none"]
  /\ mu' = IF pc[p] = "reply" THEN Nobody ELSE mu
  /\ body' = [body EXCEPT ![p] = NoBody]
  /\ containers' = [containers EXCEPT ![p] = Unknown]
  /\ ports' = [ports EXCEPT ![p] = Unknown]

\* p returns; its deferred s.mu.Unlock runs if it got as far as the lock.
Return(p) ==
  /\ pc' = [pc EXCEPT ![p] = "idle"]
  /\ job' = [job EXCEPT ![p] = "none"]
  /\ mu' = IF pc[p] \in Held THEN Nobody ELSE mu
  /\ body' = [body EXCEPT ![p] = NoBody]
  /\ containers' = [containers EXCEPT ![p] = Unknown]
  /\ ports' = [ports EXCEPT ![p] = Unknown]

Begin(p, j, l) ==
  /\ pc[p] = "idle"
  /\ pc' = [pc EXCEPT ![p] = l]
  /\ job' = [job EXCEPT ![p] = j]
  /\ UNCHANGED <<files, live, mu, containers, ports>>
-----------------------------------------------------------------------------
(* Requests.  One that is refused (method, JSON, rules.Validate) changes   *)
(* nothing and is left out.                                                *)

\* Mutant of PostRules: an empty body is taken for a rule set, as apply takes it.
PostNothing(r, rs) ==
  /\ Started /\ Begin(r, "save", "containers")
  /\ body' = [body EXCEPT ![r] = NoBody]
  /\ UNCHANGED docker

\* POST /api/rules, /api/rules/defaults and /api/peers/receive.
PostRules(r, rs) ==
  /\ Started /\ Begin(r, "save", "containers")
  /\ body' = [body EXCEPT ![r] = rs]
  /\ UNCHANGED docker

PostApply(r) ==
  /\ Started /\ Begin(r, "apply", "containers")
  /\ UNCHANGED <<docker, body>>

\* commit and revert need no inventory.
PostEngine(r, j) ==
  /\ Started /\ Begin(r, j, "lock")
  /\ UNCHANGED <<docker, body>>
-----------------------------------------------------------------------------
(* prefetchForCompile: outside s.mu, the containers before the ports.      *)

Look(v) == v = inventory \/ ("docker_down" \in Faults /\ v = Unknown)

ReadContainers(p) ==
  /\ pc[p] = "containers"
  /\ \E v \in Seen : Look(v) /\ containers' = [containers EXCEPT ![p] = v]
  /\ Goto(p, "ports")
  /\ UNCHANGED <<docker, files, live, mu, body, ports>>

ReadPorts(p) ==
  /\ pc[p] = "ports"
  /\ \E v \in Seen : Look(v) /\ ports' = [ports EXCEPT ![p] = v]
  /\ Goto(p, "geo")
  /\ UNCHANGED <<docker, files, live, mu, body, containers>>

\* Mutant of Plan: the hint is not passed on.
PlanFromDisk(p) == rules

\* rsHint, or rules.json as it is before the lock.
Plan(p) == IF job[p] = "save" THEN body[p] ELSE rules

\* geo.Manager.Ensure; a zone that is cached is enough.
EnsureGeo(p) ==
  /\ pc[p] = "geo"
  /\ \/ /\ ensured' = ensured \cup {Plan(p)}
        /\ Goto(p, "lock")
        /\ UNCHANGED <<mu, local>>
     \/ /\ "geo_fails" \in Faults /\ Plan(p) \notin ensured
        /\ Return(p)
        /\ UNCHANGED ensured
  /\ UNCHANGED <<docker, rules, compiled, restore, live>>
-----------------------------------------------------------------------------
(* Under s.mu.                                                             *)

AfterLock(p) == CASE job[p] = "save" -> "save"
                  [] job[p] \in {"apply", "recompile"} -> "compile"
                  [] OTHER -> "engine"

\* Mutant of Lock: apply does not wait for s.mu.
LockUnlessApply(p) ==
  /\ pc[p] = "lock" /\ (mu = Nobody \/ job[p] = "apply")
  /\ mu' = p
  /\ Goto(p, AfterLock(p))
  /\ UNCHANGED <<docker, files, live, local>>

Lock(p) ==
  /\ pc[p] = "lock" /\ mu = Nobody
  /\ mu' = p
  /\ Goto(p, AfterLock(p))
  /\ UNCHANGED <<docker, files, live, local>>

\* Mutant of Save: the handler answers without compiling what it has saved.
SaveOnly(p) ==
  /\ pc[p] = "save"
  /\ rules' = body[p]
  /\ Goto(p, "reply")
  /\ UNCHANGED <<docker, compiled, restore, ensured, live, mu, local>>

\* rules.Save renames a finished file, or leaves the old one.
Save(p) ==
  /\ pc[p] = "save"
  /\ \/ rules' = body[p] /\ Goto(p, "compile") /\ UNCHANGED <<mu, local>>
     \/ "write_fails" \in Faults /\ Return(p) /\ UNCHANGED rules
  /\ UNCHANGED <<docker, compiled, restore, ensured, live>>

\* recompileLocked: rules.json is read again, the inventory is not.
Compile(p) ==
  /\ pc[p] = "compile"
  /\ \/ /\ compiled' = [rules |-> rules, containers |-> containers[p],
                        ports |-> ports[p]]
        /\ Goto(p, "restore")
        /\ UNCHANGED <<mu, local, missed>>
     \/ /\ "write_fails" \in Faults
        /\ compiled' \in {compiled, Torn}
        /\ missed' = (missed \/ p \notin Requests)
        /\ Return(p)
  /\ UNCHANGED <<inventory, stream, signal, timer, rules, restore, ensured, live>>

\* The second script; that it could not be written is only logged.
CompileRestore(p) ==
  /\ pc[p] = "restore"
  /\ \/ restore' = compiled
     \/ "write_fails" \in Faults /\ restore' \in {restore, Torn}
  /\ Goto(p, IF job[p] = "apply" THEN "engine" ELSE "reply")
  /\ UNCHANGED <<docker, rules, compiled, ensured, live, mu, local>>

\* pick_compiled
Picked == IF Mode = "restore" /\ restore # NoScript THEN restore ELSE compiled

\* What the kernel enforces once the engine has run the script; Torn, a part.
Enforced == IF Picked = Torn THEN Torn ELSE Picked.rules

(***************************************************************************)
(* The engine succeeds; fails, and a failed apply may have reverted; or    *)
(* the request's 90 s are over and it is never started.                    *)
(***************************************************************************)
RunEngine(p) ==
  /\ pc[p] = "engine"
  /\ \/ /\ Picked # NoScript \/ job[p] = "revert"
        /\ live' = CASE job[p] = "apply"  -> Enforced
                     [] job[p] = "revert" -> Off
                     [] OTHER             -> live
        /\ Goto(p, "reply")
        /\ UNCHANGED <<mu, local>>
     \/ /\ live' \in (IF job[p] = "apply" THEN {live, Off} ELSE {live})
        /\ Return(p)
  /\ UNCHANGED <<docker, files>>

Reply(p) ==
  /\ pc[p] = "reply"
  /\ Return(p)
  /\ UNCHANGED <<docker, files, live>>

\* The dead-man, on its own: revert() without s.mu.
Expire ==
  /\ live # Off /\ live' = Off
  /\ UNCHANGED <<docker, files, mu, pc, job, local>>
-----------------------------------------------------------------------------
(* The watcher.  Its loop stands still while fire recompiles.              *)

InSelect == pc[Watcher] = "idle" /\ Started

Connect ==
  /\ InSelect /\ stream = "down" /\ stream' = "up"
  /\ UNCHANGED <<inventory, signal, timer, missed, files, live, mu, pc, job, local>>

\* Mutant of Change: the channel has no buffer, a busy loop misses the tick.
ChangeUnbuffered ==
  /\ inventory < MaxChanges /\ inventory' = inventory + 1
  /\ signal' = (signal \/ (stream = "up" /\ InSelect))
  /\ missed' = (missed \/ stream # "up")
  /\ UNCHANGED <<stream, timer, files, live, mu, pc, job, local>>

\* A container starts or dies; the scanner puts a tick, or finds one there.
Change ==
  /\ inventory < MaxChanges /\ inventory' = inventory + 1
  /\ signal' = (signal \/ stream = "up")
  /\ missed' = (missed \/ stream # "up")
  /\ UNCHANGED <<stream, timer, files, live, mu, pc, job, local>>

StreamEnds ==
  /\ "stream_ends" \in Faults /\ stream = "up" /\ stream' = "ending"
  /\ UNCHANGED <<inventory, signal, timer, missed, files, live, mu, pc, job, local>>

\* case <-events: the timer starts, or starts again.
TakeEvent ==
  /\ InSelect /\ stream # "down" /\ signal
  /\ signal' = FALSE /\ timer' = TRUE
  /\ UNCHANGED <<inventory, stream, missed, files, live, mu, pc, job, local>>

\* case <-timerC: fire
TimerFires ==
  /\ InSelect /\ timer /\ timer' = FALSE
  /\ Begin(Watcher, "recompile", "containers")
  /\ UNCHANGED <<inventory, stream, signal, missed, body>>

\* case <-done: select may take it while events holds a tick.
TakeDone ==
  /\ InSelect /\ stream = "ending" /\ stream' = "down"
  /\ signal' = FALSE /\ timer' = FALSE
  /\ missed' = (missed \/ (signal /\ ~timer))
  /\ IF timer THEN Begin(Watcher, "recompile", "containers")
              ELSE UNCHANGED <<files, live, mu, pc, job, containers, ports>>
  /\ UNCHANGED <<inventory, body>>
-----------------------------------------------------------------------------
(***************************************************************************)
(* zfwd dies, perhaps with compiled.sh or compiled.restore.sh truncated,   *)
(* and starts again.                                                       *)
(***************************************************************************)
Crash ==
  /\ "crash" \in Faults
  /\ stream' = "down" /\ signal' = FALSE /\ timer' = FALSE /\ missed' = TRUE
  /\ compiled' \in {compiled} \cup {Torn : p \in {q \in Procs : pc[q] = "compile"}}
  /\ restore' \in {restore} \cup {Torn : p \in {q \in Procs : pc[q] = "restore"}}
  /\ mu' = Nobody
  /\ pc' = [p \in Procs |-> IF p = Main THEN "containers" ELSE "idle"]
  /\ job' = [p \in Procs |-> IF p = Main THEN "recompile" ELSE "none"]
  /\ body' = [p \in Procs |-> NoBody]
  /\ containers' = [p \in Procs |-> Unknown]
  /\ ports' = [p \in Procs |-> Unknown]
  /\ UNCHANGED <<inventory, rules, ensured, live>>
-----------------------------------------------------------------------------
Request(r) ==
  \/ \E rs \in RuleSets : PostRules(r, rs)
  \/ PostApply(r)
  \/ \E j \in {"commit", "revert"} : PostEngine(r, j)

Work(p) == ReadContainers(p) \/ ReadPorts(p) \/ EnsureGeo(p) \/ Save(p)
           \/ Compile(p) \/ CompileRestore(p) \/ RunEngine(p) \/ Reply(p)

Select == Connect \/ TakeEvent \/ TimerFires \/ TakeDone

Next ==
  \/ \E r \in Requests : Request(r)
  \/ \E p \in Procs : Work(p) \/ Lock(p)
  \/ Select \/ Change \/ StreamEnds
  \/ Expire \/ Crash

Spec == Init /\ [][Next]_vars

(***************************************************************************)
(* Goroutines run; sync.Mutex hands itself to whoever has waited for 1 ms, *)
(* so a waiter is not overtaken for ever.  Nobody has to call, and no      *)
(* fault has to happen.                                                    *)
(***************************************************************************)
Fairness == WF_vars(Select) /\ \A p \in Procs : WF_vars(Work(p)) /\ SF_vars(Lock(p))

FairSpec == Spec /\ Fairness
-----------------------------------------------------------------------------
\* Every variable has its type: handlers.Server, its files and dockerwatch.
TypeOK ==
  /\ inventory \in 0..MaxChanges
  /\ stream \in {"up", "ending", "down"}
  /\ signal \in BOOLEAN /\ timer \in BOOLEAN /\ missed \in BOOLEAN
  /\ rules \in RuleSets
  /\ compiled \in Script \cup {NoScript, Torn}
  /\ restore \in Script \cup {NoScript, Torn}
  /\ live \in RuleSets \cup {Off, Torn}
  /\ ensured \subseteq RuleSets
  /\ mu \in Procs \cup {Nobody}
  /\ pc \in [Procs -> PC] /\ job \in [Procs -> Jobs]
  /\ body \in [Procs -> RuleSets \cup {NoBody}]
  /\ containers \in [Procs -> Seen] /\ ports \in [Procs -> Seen]

(***************************************************************************)
(* A request for apply that is answered with success has put rules.json,   *)
(* as it is at that moment, into the kernel, whatever other requests, the  *)
(* watcher, a full disk or a crash did before ("Recompile so the engine    *)
(* applies the current rule set", handlers.go:575).                        *)
(***************************************************************************)
AppliedIsCurrent ==
  \A p \in Procs : pc[p] = "reply" /\ job[p] = "apply" => live \in {rules, Off}

(***************************************************************************)
(* compiled.sh never names a country whose ipset file is not there: the    *)
(* line that matches on the set would fail, and the apply with it.         *)
(***************************************************************************)
GeoReady == compiled \in Script => compiled.rules \in ensured

Follows == compiled \in Script /\ compiled.rules = rules

(***************************************************************************)
(* Between two operations of a daemon that has started, compiled.sh is the *)
(* compilation of rules.json, also after a crash between the two writes.   *)
(***************************************************************************)
ScriptFollowsRules == mu = Nobody /\ Started => Follows

\* compiled.sh has been compiled from the containers as they are.
InSync == compiled \in Script
          /\ compiled.containers = inventory /\ compiled.ports = inventory

Quiet == stream = "up" /\ ~signal /\ ~timer /\ \A p \in Procs : pc[p] = "idle"

(***************************************************************************)
(* As long as no request comes in between, the watcher always comes to     *)
(* rest with compiled.sh in step with every change it was told of, in      *)
(* bursts and while it recompiles.                                         *)
(***************************************************************************)
WatcherSettles ==
  [](\A r \in Requests : pc[r] = "idle") => []<>(Quiet /\ (missed \/ InSync))

\* Every API request is answered, and main gets to serve requests.
Answered == \A p \in Procs : pc[p] # "idle" ~> pc[p] = "idle"
-----------------------------------------------------------------------------
(* Why these invariants hold.                                              *)

\* Whoever works under s.mu holds it; it is held by one who does.
LockOK ==
  /\ \A p \in Procs : pc[p] \in Held => mu = p
  /\ mu # Nobody => pc[mu] \in Held

JobOK == \A p \in Procs :
  /\ job[p] = "save" /\ pc[p] # "idle" => body[p] \in RuleSets
  /\ pc[p] = "save" => job[p] = "save"

GeoOK ==
  /\ GeoReady /\ rules \in ensured
  /\ \A p \in Procs : job[p] = "save" /\ pc[p] \in {"lock"} \cup Held => body[p] \in ensured

CurrentOK == \A p \in Procs :
  /\ pc[p] = "restore" => Follows
  /\ pc[p] = "engine" /\ job[p] = "apply" => Follows
  /\ pc[p] = "reply" /\ job[p] = "apply" => live \in {rules, Off}

\* Where no write fails, compile always follows a save.
FollowsOK ==
  /\ ScriptFollowsRules
  /\ \A p \in Procs : pc[p] \in {"restore", "engine", "reply"} => Follows
  /\ ~Started => \A p \in Procs \ {Main} : pc[p] = "idle"
  /\ \A p \in {Main, Watcher} : pc[p] # "idle" => job[p] = "recompile"

\* The strengthening that makes them inductive; its last part, in bash mode.
Serial == LockOK /\ JobOK /\ GeoOK /\ CurrentOK
=============================================================================
