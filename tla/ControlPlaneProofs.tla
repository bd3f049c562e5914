------------------------- MODULE ControlPlaneProofs -------------------------
(***************************************************************************)
(* Theorems about ControlPlane for every number of requests, every set of  *)
(* rule sets, every number of container changes and every set of faults.   *)
(***************************************************************************)
EXTENDS ControlPlane, TLAPS

LEMMA NamesDistinct ==
  /\ Main \in Procs /\ Watcher \in Procs /\ Requests \subseteq Procs
  /\ Main # Watcher /\ Main \notin Requests /\ Watcher \notin Requests
BY ControlPlaneAssumption DEF Procs

LEMMA BeginType ==
  ASSUME TypeOK, NEW p \in Procs, NEW j \in Jobs, NEW l \in PC, Begin(p, j, l)
  PROVE  /\ pc' \in [Procs -> PC] /\ job' \in [Procs -> Jobs]
         /\ mu' \in Procs \cup {Nobody}
         /\ containers' \in [Procs -> Seen] /\ ports' \in [Procs -> Seen]
         /\ rules' \in RuleSets /\ ensured' \subseteq RuleSets
         /\ compiled' \in Script \cup {NoScript, Torn}
         /\ restore' \in Script \cup {NoScript, Torn}
         /\ live' \in RuleSets \cup {Off, Torn}
BY DEF TypeOK, Begin, files

LEMMA GotoType ==
  ASSUME TypeOK, NEW p \in Procs, NEW l \in PC, Goto(p, l)
  PROVE  pc' \in [Procs -> PC] /\ job' \in [Procs -> Jobs]
BY DEF TypeOK, Goto

LEMMA ReturnType ==
  ASSUME TypeOK, NEW p \in Procs, Return(p)
  PROVE  /\ pc' \in [Procs -> PC] /\ job' \in [Procs -> Jobs]
         /\ mu' \in Procs \cup {Nobody}
         /\ body' \in [Procs -> RuleSets \cup {NoBody}]
         /\ containers' \in [Procs -> Seen] /\ ports' \in [Procs -> Seen]
BY DEF TypeOK, Return, PC, Jobs, Seen

LEMMA TypeInit == Init => TypeOK
<1> SUFFICES ASSUME Init PROVE TypeOK
  OBVIOUS
<1>1. Unknown \in Seen /\ 0 \in 0..MaxChanges
  BY ControlPlaneAssumption DEF Seen
<1>2. pc \in [Procs -> PC] /\ job \in [Procs -> Jobs]
  BY DEF Init, PC, Jobs
<1>3. QED BY <1>1, <1>2 DEF Init, TypeOK

LEMMA TypeRequest ==
  ASSUME TypeOK, NEW r \in Requests, Request(r)
  PROVE  TypeOK'
<1> USE NamesDistinct
<1>0. "containers" \in PC /\ "lock" \in PC /\ {"save", "apply", "commit", "revert"} \subseteq Jobs
  BY DEF PC, Jobs
<1>1. ASSUME NEW rs \in RuleSets, PostRules(r, rs) PROVE TypeOK'
  <2>1. Begin(r, "save", "containers")
    BY <1>1 DEF PostRules
  <2>2. QED BY <1>0, <1>1, <2>1, BeginType DEF PostRules, TypeOK, docker
<1>2. CASE PostApply(r)
  <2>1. Begin(r, "apply", "containers")
    BY <1>2 DEF PostApply
  <2>2. QED BY <1>0, <1>2, <2>1, BeginType DEF PostApply, TypeOK, docker
<1>3. ASSUME NEW j \in {"commit", "revert"}, PostEngine(r, j) PROVE TypeOK'
  <2>1. Begin(r, j, "lock")
    BY <1>3 DEF PostEngine
  <2>2. QED BY <1>0, <1>3, <2>1, BeginType DEF PostEngine, TypeOK, docker
<1>4. QED BY <1>1, <1>2, <1>3 DEF Request

\* What is posted, planned or seen has its type wherever it is used.
LEMMA TypeWork ==
  ASSUME TypeOK, JobOK, NEW p \in Procs, Work(p) \/ Lock(p)
  PROVE  TypeOK'
<1>0. {"ports", "geo", "lock", "compile", "restore", "engine", "reply", "save"} \subseteq PC
  BY DEF PC, Held
<1>1. CASE ReadContainers(p)
  BY <1>0, <1>1, GotoType DEF ReadContainers, TypeOK, docker, files
<1>2. CASE ReadPorts(p)
  BY <1>0, <1>2, GotoType DEF ReadPorts, TypeOK, docker, files
<1>3. CASE EnsureGeo(p)
  <2>1. Plan(p) \in RuleSets
    BY <1>3 DEF EnsureGeo, Plan, JobOK, TypeOK
  <2>2. QED BY <1>0, <1>3, <2>1, GotoType, ReturnType DEF EnsureGeo, TypeOK, docker, local
<1>4. CASE Lock(p)
  <2>1. AfterLock(p) \in PC
    BY <1>0 DEF AfterLock
  <2>2. QED BY <1>4, <2>1, GotoType DEF Lock, TypeOK, docker, files, local
<1>5. CASE Save(p)
  <2>1. pc[p] = "save" => body[p] \in RuleSets
    BY DEF JobOK
  <2>2. QED BY <1>0, <1>5, <2>1, GotoType, ReturnType DEF Save, TypeOK, docker, local
<1>6. CASE Compile(p)
  <2>1. [rules |-> rules, containers |-> containers[p], ports |-> ports[p]] \in Script
    BY DEF TypeOK, Script
  <2>2. QED BY <1>0, <1>6, <2>1, GotoType, ReturnType DEF Compile, TypeOK, docker, local
<1>7. CASE CompileRestore(p)
  BY <1>0, <1>7, GotoType DEF CompileRestore, TypeOK, docker, local
<1>8. CASE RunEngine(p)
  <2>1. live' \in RuleSets \cup {Off, Torn}
    BY <1>8 DEF RunEngine, Enforced, Picked, TypeOK, Script
  <2>2. QED BY <1>0, <1>8, <2>1, GotoType, ReturnType DEF RunEngine, TypeOK, docker, files, local
<1>9. CASE Reply(p)
  BY <1>9, ReturnType DEF Reply, TypeOK, docker, files
<1>10. QED BY <1>1, <1>2, <1>3, <1>4, <1>5, <1>6, <1>7, <1>8, <1>9 DEF Work

LEMMA TypeSelect ==
  ASSUME TypeOK, Select
  PROVE  TypeOK'
<1> USE NamesDistinct
<1>0. "containers" \in PC /\ "recompile" \in Jobs
  BY DEF PC, Jobs
<1>1. CASE Connect
  BY <1>1 DEF Connect, TypeOK, files, local
<1>2. CASE TakeEvent
  BY <1>2 DEF TakeEvent, TypeOK, files, local
<1>3. CASE TimerFires
  <2>1. Begin(Watcher, "recompile", "containers")
    BY <1>3 DEF TimerFires
  <2>2. QED BY <1>0, <1>3, <2>1, BeginType DEF TimerFires, TypeOK
<1>4. CASE TakeDone
  <2>1. CASE timer
    <3>1. Begin(Watcher, "recompile", "containers")
      BY <1>4, <2>1 DEF TakeDone
    <3>2. QED BY <1>0, <1>4, <3>1, BeginType DEF TakeDone, TypeOK
  <2>2. CASE ~timer
    BY <1>4, <2>2 DEF TakeDone, TypeOK, files
  <2>3. QED BY <2>1, <2>2
<1>5. QED BY <1>1, <1>2, <1>3, <1>4 DEF Select

LEMMA TypeOther ==
  ASSUME TypeOK, Change \/ StreamEnds \/ Expire \/ Crash \/ UNCHANGED vars
  PROVE  TypeOK'
<1>1. CASE Change
  BY <1>1, ControlPlaneAssumption DEF Change, TypeOK, files, local
<1>2. CASE StreamEnds
  BY <1>2 DEF StreamEnds, TypeOK, files, local
<1>3. CASE Expire
  BY <1>3 DEF Expire, TypeOK, docker, files, local
<1>4. CASE Crash
  BY <1>4 DEF Crash, TypeOK, PC, Jobs, Seen
<1>5. CASE UNCHANGED vars
  BY <1>5 DEF vars, TypeOK, docker, files, local
<1>6. QED BY <1>1, <1>2, <1>3, <1>4, <1>5

LEMMA TypeNext ==
  ASSUME TypeOK, JobOK, [Next]_vars
  PROVE  TypeOK'
BY TypeRequest, TypeWork, TypeSelect, TypeOther DEF Next

-----------------------------------------------------------------------------
(* s.mu.                                                                   *)

LEMMA BeginMoves ==
  ASSUME TypeOK, NEW p \in Procs, NEW j, NEW l, Begin(p, j, l)
  PROVE  /\ pc[p] = "idle" /\ pc' = [pc EXCEPT ![p] = l] /\ pc'[p] = l
         /\ job'[p] = j /\ mu' = mu /\ UNCHANGED <<files, live>>
         /\ \A q \in Procs \ {p} : pc'[q] = pc[q] /\ job'[q] = job[q]
BY DEF TypeOK, Begin

LEMMA GotoMoves ==
  ASSUME TypeOK, NEW p \in Procs, NEW l, Goto(p, l)
  PROVE  /\ pc'[p] = l /\ job' = job
         /\ \A q \in Procs \ {p} : pc'[q] = pc[q]
BY DEF TypeOK, Goto

LEMMA ReturnMoves ==
  ASSUME TypeOK, NEW p \in Procs, Return(p)
  PROVE  /\ pc'[p] = "idle" /\ job'[p] = "none"
         /\ mu' = IF pc[p] \in Held THEN Nobody ELSE mu
         /\ \A q \in Procs \ {p} :
              pc'[q] = pc[q] /\ job'[q] = job[q] /\ body'[q] = body[q]
BY DEF TypeOK, Return

\* Only the lock itself leads from outside s.mu to inside.
LEMMA WorkMoves ==
  ASSUME TypeOK, NEW p \in Procs, Work(p)
  PROVE  /\ pc[p] # "idle"
         /\ \A q \in Procs \ {p} :
              pc'[q] = pc[q] /\ job'[q] = job[q] /\ body'[q] = body[q]
         /\ \/ /\ mu' = mu /\ job'[p] = job[p] /\ body'[p] = body[p]
               /\ pc'[p] # "idle" /\ (pc'[p] \in Held <=> pc[p] \in Held)
            \/ /\ pc'[p] = "idle" /\ job'[p] = "none"
               /\ mu' = IF pc[p] \in Held THEN Nobody ELSE mu
<1>1. CASE ReadContainers(p)
  BY <1>1, GotoMoves DEF ReadContainers, Held
<1>2. CASE ReadPorts(p)
  BY <1>2, GotoMoves DEF ReadPorts, Held
<1>3. CASE EnsureGeo(p)
  BY <1>3, GotoMoves, ReturnMoves DEF EnsureGeo, Held, local
<1>4. CASE Save(p)
  BY <1>4, GotoMoves, ReturnMoves DEF Save, Held, local
<1>5. CASE Compile(p)
  BY <1>5, GotoMoves, ReturnMoves DEF Compile, Held, local
<1>6. CASE CompileRestore(p)
  BY <1>6, GotoMoves DEF CompileRestore, Held, local
<1>7. CASE RunEngine(p)
  BY <1>7, GotoMoves, ReturnMoves DEF RunEngine, Held, local
<1>8. CASE Reply(p)
  BY <1>8, ReturnMoves DEF Reply
<1>9. QED BY <1>1, <1>2, <1>3, <1>4, <1>5, <1>6, <1>7, <1>8 DEF Work

\* A request or the watcher begins, outside s.mu.
LEMMA RequestMoves ==
  ASSUME TypeOK, NEW r \in Requests, Request(r)
  PROVE  /\ Started /\ pc[r] = "idle" /\ pc'[r] \in {"containers", "lock"}
         /\ job'[r] \in {"save", "apply", "commit", "revert"}
         /\ job'[r] = "save" => body'[r] \in RuleSets /\ pc'[r] = "containers"
         /\ mu' = mu /\ UNCHANGED <<files, live>>
         /\ \A q \in Procs \ {r} :
              pc'[q] = pc[q] /\ job'[q] = job[q] /\ body'[q] = body[q]
<1> r \in Procs
  BY NamesDistinct
<1>1. ASSUME NEW rs \in RuleSets, PostRules(r, rs)
      PROVE  body'[r] = rs /\ \A q \in Procs \ {r} : body'[q] = body[q]
  BY <1>1 DEF PostRules, TypeOK
<1>2. CASE \E rs \in RuleSets : PostRules(r, rs)
  BY <1>1, <1>2, BeginMoves DEF PostRules
<1>3. CASE PostApply(r)
  BY <1>3, BeginMoves DEF PostApply
<1>4. CASE \E j \in {"commit", "revert"} : PostEngine(r, j)
  BY <1>4, BeginMoves DEF PostEngine
<1>5. QED BY <1>2, <1>3, <1>4 DEF Request

LEMMA SelectMoves ==
  ASSUME TypeOK, Select
  PROVE  /\ Started /\ pc[Watcher] = "idle"
         /\ mu' = mu /\ body' = body /\ UNCHANGED <<files, live>>
         /\ \A q \in Procs \ {Watcher} : pc'[q] = pc[q] /\ job'[q] = job[q]
         /\ \/ pc'[Watcher] = pc[Watcher] /\ job'[Watcher] = job[Watcher]
            \/ pc'[Watcher] = "containers" /\ job'[Watcher] = "recompile"
<1> Watcher \in Procs
  BY NamesDistinct
<1>1. CASE Connect \/ TakeEvent
  BY <1>1 DEF Connect, TakeEvent, InSelect, local
<1>2. CASE TimerFires
  BY <1>2, BeginMoves DEF TimerFires, InSelect
<1>3. CASE TakeDone
  BY <1>3, BeginMoves DEF TakeDone, InSelect
<1>4. QED BY <1>1, <1>2, <1>3 DEF Select

LEMMA CrashMoves ==
  ASSUME TypeOK, Crash
  PROVE  /\ mu' = Nobody /\ UNCHANGED <<rules, ensured, live>>
         /\ compiled' \in {compiled, Torn}
         /\ pc'[Main] = "containers" /\ job'[Main] = "recompile"
         /\ \A q \in Procs \ {Main} : pc'[q] = "idle" /\ job'[q] = "none"
BY NamesDistinct DEF Crash

LEMMA LockMoves ==
  ASSUME TypeOK, NEW p \in Procs, Lock(p)
  PROVE  /\ pc[p] = "lock" /\ mu = Nobody /\ mu' = p
         /\ pc'[p] = AfterLock(p) /\ job' = job /\ body' = body
         /\ UNCHANGED <<files, live>>
         /\ \A q \in Procs \ {p} : pc'[q] = pc[q]
BY GotoMoves DEF Lock, local

\* What leaves every process where it is.
Aside == Change \/ StreamEnds \/ Expire \/ UNCHANGED vars

LEMMA AsideMoves ==
  ASSUME Aside
  PROVE  /\ UNCHANGED <<pc, job, body, mu, files>>
         /\ live' = live \/ live' = Off
BY DEF Aside, Change, StreamEnds, Expire, vars, local

LEMMA NextCases ==
  ASSUME [Next]_vars
  PROVE  \/ \E r \in Requests : Request(r)
         \/ \E p \in Procs : Work(p)
         \/ \E p \in Procs : Lock(p)
         \/ Select \/ Crash \/ Aside
BY DEF Next, Aside

LEMMA LockStep ==
  ASSUME TypeOK, LockOK, [Next]_vars
  PROVE  LockOK'
<1> USE NamesDistinct, ControlPlaneAssumption
<1>1. ASSUME NEW r \in Requests, Request(r) PROVE LockOK'
  BY <1>1, RequestMoves DEF LockOK, Held, TypeOK
<1>2. ASSUME NEW p \in Procs, Work(p) PROVE LockOK'
  BY <1>2, WorkMoves DEF LockOK, Held, TypeOK
<1>3. ASSUME NEW p \in Procs, Lock(p) PROVE LockOK'
  <2>1. AfterLock(p) \in Held
    BY DEF AfterLock, Held
  <2>2. QED BY <1>3, <2>1, LockMoves DEF LockOK
<1>4. CASE Select
  BY <1>4, SelectMoves DEF LockOK, Held, TypeOK
<1>5. CASE Crash
  BY <1>5, CrashMoves DEF LockOK, Held
<1>6. CASE Aside
  BY <1>6, AsideMoves DEF LockOK
<1>7. QED BY <1>1, <1>2, <1>3, <1>4, <1>5, <1>6, NextCases

LEMMA JobStep ==
  ASSUME TypeOK, JobOK, [Next]_vars
  PROVE  JobOK'
<1> USE NamesDistinct
<1>1. ASSUME NEW r \in Requests, Request(r) PROVE JobOK'
  BY <1>1, RequestMoves DEF JobOK
<1>2. ASSUME NEW p \in Procs, Work(p) PROVE JobOK'
  <2>1. pc'[p] # "save"
    BY <1>2, GotoMoves, ReturnMoves
    DEF Work, ReadContainers, ReadPorts, EnsureGeo, Save, Compile, CompileRestore,
        RunEngine, Reply
  <2>2. QED BY <1>2, <2>1, WorkMoves DEF JobOK
<1>3. ASSUME NEW p \in Procs, Lock(p) PROVE JobOK'
  BY <1>3, LockMoves DEF JobOK, AfterLock
<1>4. CASE Select
  BY <1>4, SelectMoves DEF JobOK
<1>5. CASE Crash
  BY <1>5, CrashMoves DEF JobOK
<1>6. CASE Aside
  BY <1>6, AsideMoves DEF JobOK
<1>7. QED BY <1>1, <1>2, <1>3, <1>4, <1>5, <1>6, NextCases

-----------------------------------------------------------------------------
(* What the work does to the files.                                        *)

LEMMA WorkFiles ==
  ASSUME TypeOK, NEW p \in Procs, Work(p)
  PROVE  /\ ensured \subseteq ensured'
         /\ rules' = rules \/ (pc[p] = "save" /\ rules' = body[p])
         /\ \/ compiled' = compiled \/ compiled' = Torn
            \/ pc[p] = "compile" /\ compiled'.rules = rules /\ compiled' \in Script
         /\ pc[p] \notin Held => UNCHANGED <<rules, compiled, restore, live>>
         /\ pc[p] \in Held => ensured' = ensured
<1>1. CASE ReadContainers(p) \/ ReadPorts(p)
  BY <1>1 DEF ReadContainers, ReadPorts, files, Held
<1>2. CASE EnsureGeo(p)
  BY <1>2 DEF EnsureGeo, Held
<1>3. CASE Save(p)
  BY <1>3 DEF Save, Held
<1>4. CASE Compile(p)
  <2>1. [rules |-> rules, containers |-> containers[p], ports |-> ports[p]] \in Script
    BY DEF TypeOK, Script
  <2>2. QED BY <1>4, <2>1 DEF Compile, Held
<1>5. CASE CompileRestore(p) \/ RunEngine(p) \/ Reply(p)
  BY <1>5 DEF CompileRestore, RunEngine, Reply, files, Held
<1>6. QED BY <1>1, <1>2, <1>3, <1>4, <1>5 DEF Work

\* Only prefetchForCompile leads to the lock, and only a commit or a revert
\* comes there without it.
LEMMA WorkToLock ==
  ASSUME TypeOK, NEW p \in Procs, Work(p), pc'[p] = "lock"
  PROVE  /\ ensured' = ensured \cup {Plan(p)} /\ job' = job /\ body' = body
         /\ pc[p] = "geo"
<1>1. EnsureGeo(p)
  BY GotoMoves, ReturnMoves
  DEF Work, ReadContainers, ReadPorts, Save, Compile, CompileRestore, RunEngine, Reply
<1>2. QED BY <1>1, GotoMoves, ReturnMoves DEF EnsureGeo, local

LEMMA GeoStep ==
  ASSUME TypeOK, JobOK, GeoOK, [Next]_vars
  PROVE  GeoOK'
<1> USE NamesDistinct, ControlPlaneAssumption
<1>1. ASSUME NEW r \in Requests, Request(r) PROVE GeoOK'
  BY <1>1, RequestMoves DEF GeoOK, GeoReady, Held, files
<1>2. ASSUME NEW p \in Procs, Work(p) PROVE GeoOK'
  <2>1. rules' \in ensured'
    BY <1>2, WorkFiles DEF GeoOK, JobOK, Held
  <2>2. GeoReady'
    BY <1>2, WorkFiles DEF GeoOK, GeoReady
  <2>3. ASSUME NEW q \in Procs, job'[q] = "save", pc'[q] \in {"lock"} \cup Held
        PROVE  body'[q] \in ensured'
    <3>1. CASE q # p
      BY <1>2, <2>3, <3>1, WorkMoves, WorkFiles DEF GeoOK
    <3>2. CASE q = p /\ pc'[p] = "lock"
      BY <1>2, <2>3, <3>2, WorkToLock DEF Plan
    <3>3. CASE q = p /\ pc'[p] \in Held
      BY <1>2, <2>3, <3>3, WorkMoves, WorkFiles DEF GeoOK, Held
    <3>4. QED BY <2>3, <3>1, <3>2, <3>3
  <2>4. QED BY <2>1, <2>2, <2>3 DEF GeoOK
<1>3. ASSUME NEW p \in Procs, Lock(p) PROVE GeoOK'
  BY <1>3, LockMoves DEF GeoOK, GeoReady, files
<1>4. CASE Select
  BY <1>4, SelectMoves DEF GeoOK, GeoReady, Held, files
<1>5. CASE Crash
  BY <1>5, CrashMoves DEF GeoOK, GeoReady, Held
<1>6. CASE Aside
  BY <1>6, AsideMoves DEF GeoOK, GeoReady, files
<1>7. QED BY <1>1, <1>2, <1>3, <1>4, <1>5, <1>6, NextCases

-----------------------------------------------------------------------------
(* What is compiled and applied under the lock.                            *)

\* In bash mode the engine runs what compile has just written.
LEMMA WorkCurrent ==
  ASSUME TypeOK, Mode = "bash", NEW p \in Procs, CurrentOK, Work(p)
  PROVE  /\ pc'[p] = "restore" => Follows'
         /\ pc'[p] = "engine" /\ job'[p] = "apply" => Follows'
         /\ pc'[p] = "reply" /\ job'[p] = "apply" => live' \in {rules', Off}
<1> USE ControlPlaneAssumption
<1>1. CASE ReadContainers(p)
  BY <1>1, GotoMoves DEF ReadContainers
<1>2. CASE ReadPorts(p)
  BY <1>2, GotoMoves DEF ReadPorts
<1>3. CASE EnsureGeo(p)
  BY <1>3, GotoMoves, ReturnMoves DEF EnsureGeo
<1>4. CASE Save(p)
  BY <1>4, GotoMoves, ReturnMoves DEF Save
<1>5. CASE Compile(p)
  <2>1. [rules |-> rules, containers |-> containers[p], ports |-> ports[p]] \in Script
    BY DEF TypeOK, Script
  <2>2. QED BY <1>5, <2>1, GotoMoves, ReturnMoves DEF Compile, Follows
<1>6. CASE CompileRestore(p)
  BY <1>6, GotoMoves DEF CompileRestore, CurrentOK, Follows
<1>7. CASE RunEngine(p)
  <2>1. job[p] = "apply" => Enforced = rules
    BY <1>7 DEF RunEngine, CurrentOK, Follows, Enforced, Picked
  <2>2. QED BY <1>7, <2>1, GotoMoves, ReturnMoves DEF RunEngine, files
<1>8. CASE Reply(p)
  BY <1>8, ReturnMoves DEF Reply
<1>9. QED BY <1>1, <1>2, <1>3, <1>4, <1>5, <1>6, <1>7, <1>8 DEF Work

LEMMA CurrentStep ==
  ASSUME TypeOK, Mode = "bash", LockOK, CurrentOK, [Next]_vars
  PROVE  CurrentOK'
<1> USE NamesDistinct
<1>1. ASSUME NEW r \in Requests, Request(r) PROVE CurrentOK'
  BY <1>1, RequestMoves DEF CurrentOK, Follows, files
<1>2. ASSUME NEW p \in Procs, Work(p) PROVE CurrentOK'
  <2>1. ASSUME NEW q \in Procs \ {p}, pc'[q] \in {"restore", "engine", "reply"}
        PROVE  pc'[q] = pc[q] /\ job'[q] = job[q] /\ UNCHANGED <<rules, compiled, live>>
    <3>1. pc'[q] = pc[q] /\ job'[q] = job[q]
      BY <1>2, <2>1, WorkMoves
    <3>2. pc[p] \notin Held
      BY <2>1, <3>1 DEF LockOK, Held
    <3>3. QED BY <1>2, <3>1, <3>2, WorkFiles
  <2>2. QED BY <1>2, <2>1, WorkCurrent DEF CurrentOK, Follows
<1>3. ASSUME NEW p \in Procs, Lock(p) PROVE CurrentOK'
  <2>1. \A q \in Procs : pc[q] \notin Held
    BY <1>3, LockMoves, ControlPlaneAssumption DEF LockOK
  <2>2. pc'[p] = "engine" => job'[p] # "apply"
    BY <1>3, LockMoves DEF AfterLock
  <2>3. pc'[p] \notin {"restore", "reply"}
    BY <1>3, LockMoves DEF AfterLock
  <2>4. QED BY <1>3, <2>1, <2>2, <2>3, LockMoves DEF CurrentOK, Held
<1>4. CASE Select
  BY <1>4, SelectMoves DEF CurrentOK, Follows, files
<1>5. CASE Crash
  BY <1>5, CrashMoves DEF CurrentOK
<1>6. CASE Aside
  BY <1>6, AsideMoves DEF CurrentOK, Follows, files
<1>7. QED BY <1>1, <1>2, <1>3, <1>4, <1>5, <1>6, NextCases

-----------------------------------------------------------------------------
(* Where no write fails.                                                   *)

LEMMA WorkFollows ==
  ASSUME TypeOK, "write_fails" \notin Faults, NEW p \in Procs, FollowsOK, Work(p)
  PROVE  /\ pc'[p] \in {"restore", "engine", "reply"} => Follows'
         /\ pc[p] \in Held /\ pc'[p] = "idle" => Follows'
<1>1. CASE ReadContainers(p)
  BY <1>1, GotoMoves DEF ReadContainers
<1>2. CASE ReadPorts(p)
  BY <1>2, GotoMoves DEF ReadPorts
<1>3. CASE EnsureGeo(p)
  BY <1>3, GotoMoves, ReturnMoves DEF EnsureGeo, Held
<1>4. CASE Save(p)
  BY <1>4, GotoMoves DEF Save
<1>5. CASE Compile(p)
  <2>1. [rules |-> rules, containers |-> containers[p], ports |-> ports[p]] \in Script
    BY DEF TypeOK, Script
  <2>2. QED BY <1>5, <2>1, GotoMoves DEF Compile, Follows
<1>6. CASE CompileRestore(p)
  BY <1>6 DEF CompileRestore, FollowsOK, Follows
<1>7. CASE RunEngine(p)
  BY <1>7 DEF RunEngine, FollowsOK, Follows, files
<1>8. CASE Reply(p)
  BY <1>8 DEF Reply, FollowsOK, Follows, files
<1>9. QED BY <1>1, <1>2, <1>3, <1>4, <1>5, <1>6, <1>7, <1>8 DEF Work

\* main's own prefetch cannot fail: what rules.json names has been fetched.
LEMMA MainPrefetches ==
  ASSUME TypeOK, GeoOK, FollowsOK, Work(Main), pc[Main] \notin Held
  PROVE  pc'[Main] # "idle"
<1> USE NamesDistinct
<1>1. CASE ReadContainers(Main) \/ ReadPorts(Main)
  BY <1>1, GotoMoves DEF ReadContainers, ReadPorts
<1>2. CASE EnsureGeo(Main)
  <2>1. Plan(Main) \in ensured
    BY <1>2 DEF EnsureGeo, Plan, GeoOK, FollowsOK
  <2>2. QED BY <1>2, <2>1, GotoMoves DEF EnsureGeo
<1>3. QED BY <1>1, <1>2
  DEF Work, Save, Compile, CompileRestore, RunEngine, Reply, Held

LEMMA FollowsStep ==
  ASSUME TypeOK, "write_fails" \notin Faults, LockOK, GeoOK, FollowsOK, [Next]_vars
  PROVE  FollowsOK'
<1> USE NamesDistinct, ControlPlaneAssumption
<1>1. ASSUME NEW r \in Requests, Request(r) PROVE FollowsOK'
  BY <1>1, RequestMoves DEF FollowsOK, ScriptFollowsRules, Started, Follows, files
<1>2. ASSUME NEW p \in Procs, Work(p) PROVE FollowsOK'
  <2>1. pc[p] # "idle" /\ (Started <=> p # Main)
    BY <1>2, WorkMoves DEF FollowsOK, Started
  <2>2. ASSUME mu' = Nobody, Started' PROVE Follows'
    <3>1. CASE pc[p] \in Held
      BY <1>2, <2>2, <3>1, WorkMoves, WorkFollows DEF LockOK
    <3>2. CASE pc[p] \notin Held
      <4>1. mu = Nobody /\ UNCHANGED <<rules, compiled>>
        BY <1>2, <2>2, <3>2, WorkMoves, WorkFiles
      <4>2. Started
        BY <1>2, <2>1, <2>2, <3>2, MainPrefetches DEF Started
      <4>3. QED BY <4>1, <4>2 DEF FollowsOK, ScriptFollowsRules, Follows
    <3>3. QED BY <3>1, <3>2
  <2>3. ASSUME NEW q \in Procs, pc'[q] \in {"restore", "engine", "reply"} PROVE Follows'
    <3>1. CASE q = p
      BY <1>2, <2>3, <3>1, WorkFollows
    <3>2. CASE q # p
      <4>1. pc'[q] = pc[q]
        BY <1>2, <3>2, WorkMoves
      <4>2. pc[p] \notin Held
        BY <2>3, <3>2, <4>1 DEF LockOK, Held
      <4>3. QED BY <1>2, <2>3, <4>1, <4>2, WorkFiles DEF FollowsOK, Follows
    <3>3. QED BY <3>1, <3>2
  <2>4. ~Started' => \A q \in Procs \ {Main} : pc'[q] = "idle"
    BY <1>2, <2>1, WorkMoves DEF FollowsOK, Started
  <2>5. \A q \in {Main, Watcher} : pc'[q] # "idle" => job'[q] = "recompile"
    BY <1>2, <2>1, WorkMoves DEF FollowsOK
  <2>6. QED BY <2>2, <2>3, <2>4, <2>5 DEF FollowsOK, ScriptFollowsRules
<1>3. ASSUME NEW p \in Procs, Lock(p) PROVE FollowsOK'
  <2>1. \A q \in Procs : pc[q] \notin Held
    BY <1>3, LockMoves DEF LockOK
  <2>2. Started <=> p # Main
    BY <1>3, LockMoves DEF FollowsOK, Started
  <2>3. pc'[p] = "engine" => Follows
    <3>1. CASE p = Main
      BY <1>3, <3>1, LockMoves DEF FollowsOK, AfterLock
    <3>2. CASE p # Main
      BY <1>3, <2>2, <3>2, LockMoves DEF FollowsOK, ScriptFollowsRules
    <3>3. QED BY <3>1, <3>2
  <2>4. pc'[p] \in {"save", "compile", "engine"}
    BY <1>3, LockMoves DEF AfterLock
  <2>5. ~Started' => \A q \in Procs \ {Main} : pc'[q] = "idle"
    BY <1>3, <2>2, LockMoves DEF FollowsOK, Started
  <2>6. \A q \in Procs : pc'[q] \in {"restore", "engine", "reply"} => Follows'
    BY <1>3, <2>1, <2>3, <2>4, LockMoves DEF Held, Follows, files
  <2>7. mu' # Nobody
    BY <1>3, LockMoves
  <2>8. \A q \in {Main, Watcher} : pc'[q] # "idle" => job'[q] = "recompile"
    BY <1>3, LockMoves DEF FollowsOK
  <2>9. QED BY <2>5, <2>6, <2>7, <2>8 DEF FollowsOK, ScriptFollowsRules
<1>4. CASE Select
  BY <1>4, SelectMoves DEF FollowsOK, ScriptFollowsRules, Started, Follows, files
<1>5. CASE Crash
  BY <1>5, CrashMoves DEF FollowsOK, ScriptFollowsRules, Started
<1>6. CASE Aside
  BY <1>6, AsideMoves DEF FollowsOK, ScriptFollowsRules, Started, Follows, files
<1>7. QED BY <1>1, <1>2, <1>3, <1>4, <1>5, <1>6, NextCases

-----------------------------------------------------------------------------

PlaneInv == TypeOK /\ LockOK /\ JobOK /\ GeoOK

\* The inductive invariant that every theorem of this module rests on.
LEMMA PlaneInvariant == Spec => []PlaneInv
<1>1. Init => PlaneInv
  BY TypeInit, ControlPlaneAssumption
  DEF Init, PlaneInv, LockOK, JobOK, GeoOK, GeoReady, Held
<1>2. PlaneInv /\ [Next]_vars => PlaneInv'
  BY TypeNext, LockStep, JobStep, GeoStep DEF PlaneInv
<1>3. QED BY <1>1, <1>2, PTL DEF Spec

(***************************************************************************)
(* The variables of the daemon have their types, whatever is posted, seen, *)
(* written in part or interrupted.                                         *)
(***************************************************************************)
THEOREM PlaneTyping == Spec => []TypeOK
<1>1. PlaneInv => TypeOK
  BY DEF PlaneInv
<1>2. QED BY <1>1, PlaneInvariant, PTL

(***************************************************************************)
(* No script that zfwd writes names a country that has not been fetched,   *)
(* although the fetching is done before the lock and the rule set that is  *)
(* compiled is read after it.                                              *)
(***************************************************************************)
THEOREM CountriesAreThere == Spec => []GeoReady
<1>1. PlaneInv => GeoReady
  BY DEF PlaneInv, GeoOK
<1>2. QED BY <1>1, PlaneInvariant, PTL

(***************************************************************************)
(* In bash mode an apply that is answered with success has put the current *)
(* rules.json into the kernel, for any number of concurrent requests and   *)
(* with every fault.  In restore mode a failed write breaks it.            *)
(***************************************************************************)
THEOREM AppliesCurrentRules ==
  ASSUME Mode = "bash"
  PROVE  Spec => []AppliedIsCurrent
<1>1. Init => CurrentOK
  BY DEF Init, CurrentOK
<1>2. PlaneInv /\ CurrentOK /\ [Next]_vars => CurrentOK'
  BY CurrentStep DEF PlaneInv
<1>3. CurrentOK => AppliedIsCurrent
  BY DEF CurrentOK, AppliedIsCurrent
<1>4. QED BY <1>1, <1>2, <1>3, PlaneInvariant, PTL DEF Spec

(***************************************************************************)
(* Where no write fails, compiled.sh is the compilation of rules.json      *)
(* whenever s.mu is free, in both modes and whenever zfwd dies.            *)
(***************************************************************************)
THEOREM ScriptIsCurrent ==
  ASSUME "write_fails" \notin Faults
  PROVE  Spec => []ScriptFollowsRules
<1>1. Init => FollowsOK
  BY NamesDistinct DEF Init, FollowsOK, ScriptFollowsRules, Started
<1>2. PlaneInv /\ FollowsOK /\ [Next]_vars => FollowsOK'
  BY FollowsStep DEF PlaneInv
<1>3. FollowsOK => ScriptFollowsRules
  BY DEF FollowsOK
<1>4. QED BY <1>1, <1>2, <1>3, PlaneInvariant, PTL DEF Spec
=============================================================================
