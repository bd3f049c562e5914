---------------------------- MODULE EngineProofs ----------------------------
(***************************************************************************)
(* Theorems about Engine for every set of rule sets, of root shells and of *)
(* faults, and for both apply modes.                                       *)
(***************************************************************************)
EXTENDS Engine, TLAPS

\* The variables other than chain, one by one.
LEMMA NamesDistinct ==
  /\ Daemon \in Procs /\ Deadman \in Procs /\ Boot \in Procs
  /\ Callers \subseteq Procs /\ Shells \subseteq Callers /\ Daemon \in Callers
  /\ Deadman \notin Callers /\ Boot \notin Callers
  /\ Deadman # Daemon /\ Boot # Daemon /\ Deadman # Boot
BY EngineAssumption DEF Procs, Callers, Daemon, Deadman, Boot

\* Every call starts one idle process, at a command and with a job of the script.
LEMMA StartType ==
  ASSUME TypeOK, NEW p \in Procs, NEW j \in Jobs, NEW l \in PC, Start(p, j, l)
  PROVE  /\ pc' \in [Procs -> PC] /\ at' \in [Procs -> Chains]
         /\ job' \in [Procs -> Jobs] /\ raced' \in BOOLEAN
BY DEF TypeOK, Start, Chains

LEMMA GotoAtType ==
  ASSUME TypeOK, NEW p \in Procs, NEW l \in PC, NEW c \in Chains, GotoAt(p, l, c)
  PROVE  pc' \in [Procs -> PC] /\ at' \in [Procs -> Chains] /\ job' \in [Procs -> Jobs]
BY DEF TypeOK, GotoAt

LEMMA StopType ==
  ASSUME TypeOK, NEW p \in Procs, Stop(p)
  PROVE  pc' \in [Procs -> PC] /\ at' \in [Procs -> Chains] /\ job' \in [Procs -> Jobs]
BY DEF TypeOK, Stop, PC, Jobs, Chains

LEMMA GotoType ==
  ASSUME TypeOK, NEW p \in Procs, NEW l \in PC, Goto(p, l)
  PROVE  pc' \in [Procs -> PC] /\ at' \in [Procs -> Chains] /\ job' \in [Procs -> Jobs]
BY GotoAtType DEF Goto, Chains

-----------------------------------------------------------------------------
(* What a caller may ask for.                                              *)

LEMMA TypeCall ==
  ASSUME TypeOK, Call
  PROVE  TypeOK'
<1>1. ASSUME NEW j \in {"compile", "apply", "safe"}, Recompile(j) PROVE TypeOK'
  <2>1. Daemon \in Procs /\ j \in Jobs /\ "writing" \in PC
    BY NamesDistinct DEF Jobs, PC
  <2>2. QED BY <1>1, <2>1, StartType DEF Recompile, TypeOK, kernel, systemd
<1>2. ASSUME NEW p \in Shells, NEW j \in {"apply", "safe"}, ShellApply(p, j)
      PROVE  TypeOK'
  <2>1. p \in Procs /\ j \in Jobs
    BY NamesDistinct DEF Jobs
  <2>2. (IF j = "safe" THEN "arm_stop" ELSE ScriptStart) \in PC
    BY DEF ScriptStart, PC, ScriptPC
  <2>3. QED BY <1>2, <2>1, <2>2, StartType DEF ShellApply, TypeOK, Owners, kernel, systemd
<1>3. ASSUME NEW p \in Callers, Commit(p) PROVE TypeOK'
  <2>1. p \in Procs /\ "commit" \in Jobs /\ "c_stop" \in PC
    BY NamesDistinct DEF Jobs, PC
  <2>2. QED BY <1>3, <2>1, StartType DEF Commit, TypeOK, kernel, systemd
<1>4. ASSUME NEW p \in Callers, Revert(p) PROVE TypeOK'
  <2>1. p \in Procs /\ "revert" \in Jobs /\ "unhook" \in PC
    BY NamesDistinct DEF Jobs, PC, RevertPC
  <2>2. QED BY <1>4, <2>1, StartType DEF Revert, TypeOK, kernel, systemd
<1>5. QED BY <1>1, <1>2, <1>3, <1>4 DEF Call

LEMMA TypeFire ==
  ASSUME TypeOK, Fire
  PROVE  TypeOK'
<1>1. Deadman \in Procs /\ "_autorevert" \in Jobs /\ "unhook" \in PC
  BY NamesDistinct DEF Jobs, PC, RevertPC
<1>2. QED BY <1>1, StartType DEF Fire, TypeOK, kernel

LEMMA TypeFault ==
  ASSUME TypeOK, Fault
  PROVE  TypeOK'
<1>1. ASSUME NEW p \in Callers, Kill(p) PROVE TypeOK'
  BY <1>1, NamesDistinct, StopType DEF Kill, TypeOK, kernel, systemd, history
<1>2. CASE Timeout
  BY <1>2 DEF Timeout, TypeOK, kernel, systemd, history, Jobs
<1>3. CASE Reboot
  <2>1. chain' \in [Chains -> ChainState]
    BY <1>3 DEF Reboot, Stock, ChainState
  <2>2. ScriptStart \in PC /\ "idle" \in PC
    BY DEF ScriptStart, PC, ScriptPC
  <2>3. QED BY <1>3, <2>1, <2>2 DEF Reboot, TypeOK, Jobs, Chains, Owners
<1>4. QED BY <1>1, <1>2, <1>3 DEF Fault

-----------------------------------------------------------------------------
(* The commands of one engine process.                                     *)

LEMMA ScriptExitType ==
  ASSUME TypeOK, NEW p \in Procs, ScriptExit(p)
  PROVE  pc' \in [Procs -> PC] /\ at' \in [Procs -> Chains] /\ job' \in [Procs -> Jobs]
BY StopType, GotoType DEF ScriptExit, PC, ExitPC

LEMMA NextBlockType ==
  ASSUME TypeOK, NEW p \in Procs, NEW c, NEW l \in PC, NextBlock(p, c, l)
  PROVE  pc' \in [Procs -> PC] /\ at' \in [Procs -> Chains] /\ job' \in [Procs -> Jobs]
BY ScriptExitType, GotoAtType DEF NextBlock, HasBlock

LEMMA NextRevertType ==
  ASSUME TypeOK, NEW p \in Procs, NextRevert(p)
  PROVE  pc' \in [Procs -> PC] /\ at' \in [Procs -> Chains] /\ job' \in [Procs -> Jobs]
<1>1. {"fail_stop", "report_off", "r_disable", "clear", "unhook"} \subseteq PC
  BY DEF PC, ExitPC, RevertPC
<1>2. CASE AfterRevert(at[p]) = NoChain
  BY <1>1, <1>2, GotoType, StopType DEF NextRevert, AllReverted
<1>3. CASE AfterRevert(at[p]) # NoChain
  <2>1. AfterRevert(at[p]) \in Chains
    BY <1>3 DEF AfterRevert, Chains
  <2>2. QED BY <1>1, <1>3, <2>1, GotoAtType DEF NextRevert
<1>4. QED BY <1>2, <1>3

\* A chain that is written keeps the chains' type.
LEMMA ChainWritten ==
  ASSUME TypeOK, NEW c, NEW s \in ChainState, chain' = [chain EXCEPT ![c] = s]
  PROVE  chain' \in [Chains -> ChainState]
BY DEF TypeOK

\* What a command changes in a chain keeps its type.
LEMMA FieldWritten ==
  ASSUME NEW s \in ChainState, NEW b \in BOOLEAN, NEW lines \in SUBSET RuleSets
  PROVE  /\ [s EXCEPT !.closed = b] \in ChainState
         /\ [s EXCEPT !.hooked = b] \in ChainState
         /\ [s EXCEPT !.rules = lines] \in ChainState
         /\ [s EXCEPT !.rules = lines, !.closed = b] \in ChainState
         /\ [s EXCEPT !.present = TRUE, !.rules = lines, !.closed = b] \in ChainState
BY DEF ChainState

LEMMA TypeScript ==
  ASSUME TypeOK, NEW p \in Procs, Script(p)
  PROVE  TypeOK'
<1> USE DEF systemd, history, kernel
<1>1. /\ at[p] \in Chains /\ chain[at[p]] \in ChainState
      /\ ScriptPC \subseteq PC /\ RevertPC \subseteq PC
  BY DEF TypeOK, PC
<1>2. CASE Flush(p)
  <2>1. chain' \in [Chains -> ChainState]
    <3>1. [chain[at[p]] EXCEPT !.present = TRUE, !.rules = {}, !.closed = FALSE] \in ChainState
      BY <1>1, FieldWritten
    <3>2. QED BY <1>2, <3>1, ChainWritten DEF Flush
  <2>2. QED BY <1>1, <1>2, <2>1, GotoAtType DEF Flush, TypeOK, ScriptPC
<1>3. CASE Fill(p)
  <2>1. chain' \in [Chains -> ChainState]
    <3>1. DEFINE lines == IF chain[at[p]].closed THEN chain[at[p]].rules
                          ELSE chain[at[p]].rules \cup {compiled}
    <3>2. chain[at[p]] \in ChainState /\ lines \in SUBSET RuleSets
      BY <1>1, <1>3 DEF Fill, TypeOK, ChainState
    <3>3. [chain[at[p]] EXCEPT !.rules = lines] \in ChainState
      <4> HIDE DEF lines
      <4> QED BY <3>2, FieldWritten
    <3>4. QED BY <1>3, <3>3, ChainWritten DEF Fill
  <2>2. QED BY <1>1, <1>3, <2>1, GotoAtType DEF Fill, TypeOK, ScriptPC
<1>4. CASE Close(p)
  <2>1. chain' \in [Chains -> ChainState]
    <3>1. [chain[at[p]] EXCEPT !.closed = TRUE] \in ChainState
      BY <1>1, FieldWritten
    <3>2. QED BY <1>4, <3>1, ChainWritten DEF Close
  <2>2. pc' \in [Procs -> PC] /\ at' \in [Procs -> Chains] /\ job' \in [Procs -> Jobs]
    BY <1>1, <1>4, GotoAtType, NextBlockType DEF Close, ScriptPC
  <2>3. QED BY <1>4, <2>1, <2>2 DEF Close, TypeOK
<1>5. CASE Hook(p)
  <2>1. chain' \in [Chains -> ChainState]
    <3>1. [chain[at[p]] EXCEPT !.hooked = TRUE] \in ChainState
      BY <1>1, FieldWritten
    <3>2. QED BY <1>5, <3>1, ChainWritten DEF Hook
  <2>2. pc' \in [Procs -> PC] /\ at' \in [Procs -> Chains] /\ job' \in [Procs -> Jobs]
    BY <1>1, <1>5, NextBlockType DEF Hook, ScriptPC
  <2>3. QED BY <1>5, <2>1, <2>2 DEF Hook, TypeOK
<1>6. CASE Swap4(p)
  <2>1. chain' \in [Chains -> ChainState]
    BY <1>6 DEF Swap4, Restored, TypeOK, ChainState
  <2>2. QED BY <1>1, <1>6, <2>1, GotoType DEF Swap4, TypeOK, ScriptPC
<1>7. CASE Swap6(p)
  <2>1. chain' \in [Chains -> ChainState]
    BY <1>7 DEF Swap6, Restored, TypeOK, ChainState
  <2>2. QED BY <1>1, <1>7, <2>1, GotoType DEF Swap6, TypeOK, ScriptPC
<1>8. CASE EndOfFile(p)
  BY <1>8, ScriptExitType DEF EndOfFile, TypeOK
<1>9. CASE ScriptFails(p)
  <2>1. pc' \in [Procs -> PC] /\ at' \in [Procs -> Chains] /\ job' \in [Procs -> Jobs]
    BY <1>1, <1>9, StopType, GotoType DEF ScriptFails, RevertPC
  <2>2. QED BY <1>9, <2>1 DEF ScriptFails, TypeOK
<1>10. QED BY <1>2, <1>3, <1>4, <1>5, <1>6, <1>7, <1>8, <1>9 DEF Script

LEMMA TypeStep ==
  ASSUME TypeOK, NEW p \in Procs, Step(p)
  PROVE  TypeOK'
<1> USE DEF systemd, history, kernel
<1>1. /\ at[p] \in Chains /\ chain[at[p]] \in ChainState
      /\ ScriptPC \subseteq PC /\ RevertPC \subseteq PC /\ ExitPC \subseteq PC
  BY DEF TypeOK, PC
<1>2. ScriptStart \in PC /\ {"arm_stop", "arm_run", "c_write", "c_enable", "r_rm"} \subseteq PC
  BY DEF PC, ScriptPC, ScriptStart
<1>3. CASE p = Daemon /\ \E r \in RuleSets : Recompiled(r)
  <2>1. pc' \in [Procs -> PC] /\ at' \in [Procs -> Chains] /\ job' \in [Procs -> Jobs]
    BY <1>2, <1>3, GotoType, StopType DEF Recompiled
  <2>2. QED BY <1>3, <2>1 DEF Recompiled, TypeOK, Owners
<1>4. CASE ArmStop(p)
  BY <1>2, <1>4, GotoType DEF ArmStop, TypeOK
<1>5. CASE ArmRun(p)
  BY <1>2, <1>5, GotoType DEF ArmRun, TypeOK, Owners
<1>6. CASE Script(p)
  BY <1>6, TypeScript
<1>7. CASE Unhook(p)
  <2>1. chain' \in [Chains -> ChainState]
    <3>1. [chain[at[p]] EXCEPT !.hooked = FALSE] \in ChainState
      BY <1>1, FieldWritten
    <3>2. CASE Busy /\ UNCHANGED chain
      BY <3>2 DEF TypeOK
    <3>3. QED BY <1>7, <3>1, <3>2, ChainWritten DEF Unhook
  <2>2. QED BY <1>1, <1>7, <2>1, GotoAtType DEF Unhook, TypeOK, RevertPC
<1>8. CASE Clear(p)
  <2>1. chain' \in [Chains -> ChainState]
    <3>1. [chain[at[p]] EXCEPT !.rules = {}, !.closed = FALSE] \in ChainState
      BY <1>1, FieldWritten
    <3>2. CASE Busy /\ UNCHANGED chain
      BY <3>2 DEF TypeOK
    <3>3. QED BY <1>8, <3>1, <3>2, ChainWritten DEF Clear
  <2>2. pc' \in [Procs -> PC] /\ at' \in [Procs -> Chains] /\ job' \in [Procs -> Jobs]
    BY <1>1, <1>8, NextRevertType, GotoAtType DEF Clear, RevertPC
  <2>3. QED BY <1>8, <2>1, <2>2 DEF Clear, TypeOK
<1>9. CASE Delete(p)
  <2>1. chain' \in [Chains -> ChainState]
    <3>1. DEFINE left == chain[at[p]].present /\ ~Deletable(at[p])
    <3>2. left \in BOOLEAN
      BY <1>1 DEF TypeOK, ChainState, Deletable
    <3>3. [chain[at[p]] EXCEPT !.present = left] \in ChainState
      <4> HIDE DEF left
      <4> QED BY <1>1, <3>2 DEF TypeOK, ChainState
    <3>4. QED BY <1>9, <3>3 DEF Delete, TypeOK
  <2>2. owner' \in Owners
    BY <1>9 DEF Delete, TypeOK, Owners
  <2>3. QED BY <1>9, <2>1, <2>2, NextRevertType DEF Delete, TypeOK
<1>10. CASE FailStop(p)
  BY <1>1, <1>10, GotoType DEF FailStop, TypeOK, ExitPC
<1>11. CASE CommitStop(p)
  BY <1>2, <1>11, GotoType DEF CommitStop, TypeOK, Owners
<1>12. CASE CommitWrite(p)
  BY <1>2, <1>12, GotoType DEF CommitWrite, TypeOK
<1>13. CASE CommitEnable(p)
  <2>1. pc' \in [Procs -> PC] /\ at' \in [Procs -> Chains] /\ job' \in [Procs -> Jobs]
    BY <1>1, <1>13, GotoType, StopType DEF CommitEnable, ExitPC
  <2>2. QED BY <1>13, <2>1 DEF CommitEnable, TypeOK
<1>14. CASE RevertDisable(p)
  BY <1>2, <1>14, GotoType DEF RevertDisable, TypeOK
<1>15. CASE RevertRemove(p)
  BY <1>1, <1>15, GotoType DEF RevertRemove, TypeOK, ExitPC
<1>16. CASE Exit(p)
  BY <1>16, StopType DEF Exit, TypeOK
<1>17. QED BY <1>3, <1>4, <1>5, <1>6, <1>7, <1>8, <1>9, <1>10, <1>11, <1>12,
              <1>13, <1>14, <1>15, <1>16 DEF Step

LEMMA TypeInit == Init => TypeOK
<1>1. ASSUME Init PROVE chain \in [Chains -> ChainState]
  BY <1>1 DEF Init, Stock, ChainState
<1>2. QED BY <1>1 DEF Init, TypeOK, PC, Jobs, Chains, Owners

LEMMA TypeNext == TypeOK /\ [Next]_vars => TypeOK'
<1>1. ASSUME TypeOK, UNCHANGED vars PROVE TypeOK'
  BY <1>1 DEF TypeOK, vars, procs, history, systemd, kernel
<1>2. QED BY <1>1, TypeCall, TypeFire, TypeFault, TypeStep DEF Next

(***************************************************************************)
(* Every variable keeps its type: no command leaves a process at a place   *)
(* that engine/zfw does not have, or a chain in a state no packet meets.   *)
(***************************************************************************)
THEOREM Typing == Spec => []TypeOK
BY TypeInit, TypeNext, PTL DEF Spec
-----------------------------------------------------------------------------
(* The safety of engine/zfw that rests on the order of its commands.       *)

\* A step of p moves p alone, and p keeps its job until it stops.
Moved(p) ==
  /\ pc[p] # "idle" /\ raced' = raced
  /\ \A q \in Procs \ {p} : pc'[q] = pc[q] /\ at'[q] = at[q] /\ job'[q] = job[q]
  /\ \/ job'[p] = job[p] /\ pc'[p] # "idle"
     \/ job'[p] = "none" /\ pc'[p] = "idle"

LEMMA GotoMoves ==
  ASSUME TypeOK, NEW p \in Procs, pc[p] # "idle", raced' = raced,
         NEW l, NEW c, l # "idle", GotoAt(p, l, c)
  PROVE  Moved(p) /\ pc'[p] = l /\ at'[p] = c /\ job'[p] = job[p]
BY DEF TypeOK, GotoAt, Moved

LEMMA StopMoves ==
  ASSUME TypeOK, NEW p \in Procs, pc[p] # "idle", raced' = raced, Stop(p)
  PROVE  Moved(p) /\ pc'[p] = "idle" /\ job'[p] = "none"
BY DEF TypeOK, Stop, Moved

LEMMA ScriptExitMoves ==
  ASSUME TypeOK, NEW p \in Procs, pc[p] # "idle", raced' = raced, ScriptExit(p)
  PROVE  /\ Moved(p) /\ pc'[p] \in {"idle", "applied"}
         /\ pc'[p] = "applied" => job[p] # "orphan"
BY GotoMoves, StopMoves DEF ScriptExit, Goto

LEMMA NextBlockMoves ==
  ASSUME TypeOK, NEW p \in Procs, pc[p] # "idle", raced' = raced,
         NEW c, NEW l \in {"flush", "hook"}, NextBlock(p, c, l)
  PROVE  /\ Moved(p) /\ pc'[p] \in {"idle", "applied", l}
         /\ pc'[p] = "applied" => job[p] # "orphan"
BY GotoMoves, ScriptExitMoves DEF NextBlock

LEMMA NextRevertMoves ==
  ASSUME TypeOK, NEW p \in Procs, pc[p] # "idle", raced' = raced, NextRevert(p)
  PROVE  /\ Moved(p)
         /\ \/ /\ AfterRevert(at[p]) = NoChain
               /\ \/ job[p] = "safe" /\ pc'[p] = "fail_stop"
                  \/ job[p] = "apply" /\ pc'[p] = "report_off"
                  \/ job[p] = "revert" /\ pc'[p] = "r_disable"
                  \/ pc'[p] = "idle"
            \/ /\ AfterRevert(at[p]) # NoChain /\ at'[p] = AfterRevert(at[p])
               /\ pc'[p] = IF at'[p] = "DOCKER-USER" THEN "clear" ELSE "unhook"
<1>1. CASE AfterRevert(at[p]) = NoChain
  <2>1. AllReverted(p)
    BY <1>1 DEF NextRevert
  <2>2. CASE job[p] = "safe"
    BY <1>1, <2>1, <2>2, GotoMoves DEF AllReverted, Goto
  <2>3. CASE job[p] = "apply"
    BY <1>1, <2>1, <2>3, GotoMoves DEF AllReverted, Goto
  <2>4. CASE job[p] = "revert"
    BY <1>1, <2>1, <2>4, GotoMoves DEF AllReverted, Goto
  <2>5. CASE job[p] \notin {"safe", "apply", "revert"}
    BY <1>1, <2>1, <2>5, StopMoves DEF AllReverted
  <2>6. QED BY <2>2, <2>3, <2>4, <2>5
<1>2. CASE AfterRevert(at[p]) # NoChain
  <2> DEFINE c == AfterRevert(at[p])
             l == IF c = "DOCKER-USER" THEN "clear" ELSE "unhook"
  <2>1. GotoAt(p, l, c) /\ l # "idle"
    BY <1>2 DEF NextRevert
  <2>2. QED
    <3> HIDE DEF c, l
    <3>1. Moved(p) /\ pc'[p] = l /\ at'[p] = c
      BY <2>1, GotoMoves
    <3>2. QED BY <1>2, <3>1 DEF c, l
<1>3. QED BY <1>1, <1>2

-----------------------------------------------------------------------------
(* Every process is where its job may take it.                             *)

LEMMA ScriptMoves ==
  ASSUME TypeOK, NEW p \in Procs, JobAt(p), Script(p)
  PROVE  Moved(p) /\ JobAt(p)'
<1> USE DEF history
<1>1. pc[p] \in ScriptPC /\ pc[p] # "idle"
  BY DEF Script, Flush, Fill, Close, Hook, Swap4, Swap6, EndOfFile, ScriptFails, ScriptPC
<1>2. raced' = raced
  BY DEF Script, Flush, Fill, Close, Hook, Swap4, Swap6, EndOfFile, ScriptFails
<1>3. SUFFICES Moved(p) /\ \/ pc'[p] = "idle"
                           \/ pc'[p] \in ScriptPC
                           \/ pc'[p] \in {"applied", "unhook"} /\ job[p] # "orphan"
  <2>1. CASE pc'[p] = "idle"
    BY <1>1, <2>1 DEF JobAt, Moved, ScriptPC, RevertPC
  <2>2. CASE pc'[p] \in ScriptPC
    BY <1>1, <2>2 DEF JobAt, Moved, ScriptPC, RevertPC
  <2>3. CASE pc'[p] \in {"applied", "unhook"} /\ job[p] # "orphan"
    BY <1>1, <2>3 DEF JobAt, Moved, ScriptPC, RevertPC
  <2>4. QED BY <2>1, <2>2, <2>3
<1>4. CASE Flush(p)
  BY <1>1, <1>2, <1>4, GotoMoves DEF Flush, ScriptPC
<1>5. CASE Fill(p)
  BY <1>1, <1>2, <1>5, GotoMoves DEF Fill, ScriptPC
<1>6. CASE Close(p)
  BY <1>1, <1>2, <1>6, GotoMoves, NextBlockMoves DEF Close, ScriptPC
<1>7. CASE Hook(p)
  BY <1>1, <1>2, <1>7, NextBlockMoves DEF Hook, ScriptPC
<1>8. CASE Swap4(p)
  BY <1>1, <1>2, <1>8, GotoMoves DEF Swap4, ScriptPC, Goto
<1>9. CASE Swap6(p)
  BY <1>1, <1>2, <1>9, GotoMoves DEF Swap6, ScriptPC, Goto
<1>10. CASE EndOfFile(p)
  BY <1>1, <1>2, <1>10, ScriptExitMoves DEF EndOfFile
<1>11. CASE ScriptFails(p)
  BY <1>1, <1>2, <1>11, GotoMoves, StopMoves DEF ScriptFails, Goto
<1>12. QED BY <1>4, <1>5, <1>6, <1>7, <1>8, <1>9, <1>10, <1>11 DEF Script

LEMMA StepMoves ==
  ASSUME TypeOK, NEW p \in Procs, JobAt(p), Step(p)
  PROVE  Moved(p) /\ JobAt(p)'
<1> USE DEF history
<1>1. CASE p = Daemon /\ \E r \in RuleSets : Recompiled(r)
  <2>1. pc[p] = "writing" /\ raced' = raced /\ job[p] \in {"compile", "apply", "safe"}
    BY <1>1 DEF Recompiled, JobAt
  <2>2. CASE job[p] = "safe"
    <3>1. Goto(p, "arm_stop")
      BY <1>1, <2>2 DEF Recompiled
    <3>2. QED BY <2>1, <2>2, <3>1, GotoMoves DEF Goto, JobAt, ScriptPC, RevertPC
  <2>3. CASE job[p] = "apply"
    <3>1. Goto(p, ScriptStart) /\ ScriptStart \in {"flush", "swap4"}
      BY <1>1, <2>3 DEF Recompiled, ScriptStart
    <3>2. QED BY <2>1, <2>3, <3>1, GotoMoves DEF Goto, JobAt, ScriptPC, RevertPC
  <2>4. CASE job[p] = "compile"
    <3>1. Stop(p)
      BY <1>1, <2>4 DEF Recompiled
    <3>2. QED BY <2>1, <3>1, StopMoves DEF JobAt, ScriptPC, RevertPC
  <2>5. QED BY <2>1, <2>2, <2>3, <2>4
<1>2. CASE ArmStop(p)
  BY <1>2, GotoMoves DEF ArmStop, Goto, JobAt, ScriptPC, RevertPC
<1>3. CASE ArmRun(p)
  <2>1. ScriptStart \in {"flush", "swap4"}
    BY DEF ScriptStart
  <2>2. QED BY <1>3, <2>1, GotoMoves DEF ArmRun, Goto, JobAt, ScriptPC, RevertPC
<1>4. CASE Script(p)
  BY <1>4, ScriptMoves
<1>5. CASE Unhook(p)
  BY <1>5, GotoMoves DEF Unhook, JobAt, ScriptPC, RevertPC
<1>6. CASE Clear(p)
  <2>1. CASE at[p] = "DOCKER-USER"
    <3>1. NextRevert(p) /\ pc[p] = "clear" /\ raced' = raced
      BY <1>6, <2>1 DEF Clear
    <3>2. QED BY <3>1, NextRevertMoves DEF JobAt, Moved, ScriptPC, RevertPC
  <2>2. CASE at[p] # "DOCKER-USER"
    BY <1>6, <2>2, GotoMoves DEF Clear, JobAt, ScriptPC, RevertPC
  <2>3. QED BY <2>1, <2>2
<1>7. CASE Delete(p)
  <2>1. NextRevert(p) /\ pc[p] = "delete" /\ raced' = raced
    BY <1>7 DEF Delete
  <2>2. QED BY <2>1, NextRevertMoves DEF JobAt, Moved, ScriptPC, RevertPC
<1>8. CASE FailStop(p)
  BY <1>8, GotoMoves DEF FailStop, Goto, JobAt, ScriptPC, RevertPC
<1>9. CASE CommitStop(p)
  BY <1>9, GotoMoves DEF CommitStop, Goto, JobAt, ScriptPC, RevertPC
<1>10. CASE CommitWrite(p)
  BY <1>10, GotoMoves DEF CommitWrite, Goto, JobAt, ScriptPC, RevertPC
<1>11. CASE CommitEnable(p)
  BY <1>11, GotoMoves, StopMoves DEF CommitEnable, Goto, JobAt, ScriptPC, RevertPC
<1>12. CASE RevertDisable(p)
  BY <1>12, GotoMoves DEF RevertDisable, Goto, JobAt, ScriptPC, RevertPC
<1>13. CASE RevertRemove(p)
  BY <1>13, GotoMoves DEF RevertRemove, Goto, JobAt, ScriptPC, RevertPC
<1>14. CASE Exit(p)
  BY <1>14, StopMoves DEF Exit, ExitPC, JobAt, ScriptPC, RevertPC
<1>15. QED BY <1>1, <1>2, <1>3, <1>4, <1>5, <1>6, <1>7, <1>8, <1>9, <1>10,
              <1>11, <1>12, <1>13, <1>14 DEF Step

\* What is true of a call of p for the job j, at the command l.
LEMMA StartMoves ==
  ASSUME TypeOK, NEW p \in Procs, NEW j, NEW l, Start(p, j, l)
  PROVE  /\ pc[p] = "idle" /\ pc'[p] = l /\ job'[p] = j
         /\ \A q \in Procs \ {p} : pc'[q] = pc[q] /\ at'[q] = at[q] /\ job'[q] = job[q]
         /\ raced => raced'
         /\ ~raced' => \A q \in Procs : Active(q) => {j, job[q]} \subseteq Harmless
BY DEF TypeOK, Start, Active

\* The calls that Next can make, and where they start.
Called(p) ==
  \/ p = Daemon /\ \E j \in {"compile", "apply", "safe"} : Start(p, j, "writing")
  \/ p \in Shells /\ Start(p, "safe", "arm_stop")
  \/ p \in Shells /\ Start(p, "apply", ScriptStart)
  \/ p \in Callers /\ Start(p, "commit", "c_stop")
  \/ p \in Callers /\ Start(p, "revert", "unhook")
  \/ p = Deadman /\ Start(p, "_autorevert", "unhook")

LEMMA CallsStart ==
  ASSUME Call \/ Fire
  PROVE  \E p \in Procs : Called(p)
<1>1. ASSUME NEW j \in {"compile", "apply", "safe"}, Recompile(j)
      PROVE  Called(Daemon)
  BY <1>1 DEF Recompile, Called
<1>2. ASSUME NEW p \in Shells, NEW j \in {"apply", "safe"}, ShellApply(p, j)
      PROVE  Called(p)
  <2>1. CASE j = "safe"
    BY <1>2, <2>1 DEF ShellApply, Called
  <2>2. CASE j = "apply"
    BY <1>2, <2>2 DEF ShellApply, Called
  <2>3. QED BY <2>1, <2>2
<1>3. ASSUME NEW p \in Callers, Commit(p) \/ Revert(p)
      PROVE  Called(p)
  BY <1>3 DEF Commit, Revert, Called
<1>4. ASSUME Fire PROVE Called(Deadman)
  BY <1>4 DEF Fire, Called
<1>5. QED BY <1>1, <1>2, <1>3, <1>4, NamesDistinct DEF Call

LEMMA CalledJob ==
  ASSUME TypeOK, NEW p \in Procs, Called(p)
  PROVE  JobAt(p)'
<1> USE DEF JobAt, ScriptPC, RevertPC, ScriptStart
<1>1. ASSUME NEW j \in {"compile", "apply", "safe"}, p = Daemon, Start(p, j, "writing")
      PROVE  JobAt(p)'
  BY <1>1, StartMoves, NamesDistinct
<1>2. CASE p \in Shells /\ (Start(p, "safe", "arm_stop") \/ Start(p, "apply", ScriptStart))
  BY <1>2, StartMoves, NamesDistinct
<1>3. CASE p \in Callers /\ (Start(p, "commit", "c_stop") \/ Start(p, "revert", "unhook"))
  BY <1>3, StartMoves, NamesDistinct
<1>4. CASE p = Deadman /\ Start(p, "_autorevert", "unhook")
  BY <1>4, StartMoves, NamesDistinct
<1>5. QED BY <1>1, <1>2, <1>3, <1>4 DEF Called

LEMMA JobStep ==
  ASSUME TypeOK, JobOK, [Next]_vars
  PROVE  JobOK'
<1>1. ASSUME NEW p \in Procs, Called(p) PROVE JobOK'
  <2>1. ASSUME NEW q \in Procs, q # p PROVE JobAt(q)'
    <3>1. pc'[q] = pc[q] /\ job'[q] = job[q]
      BY <1>1, <2>1, StartMoves DEF Called
    <3>2. QED BY <3>1 DEF JobOK, JobAt
  <2>2. QED BY <1>1, <2>1, CalledJob DEF JobOK
<1>2. ASSUME NEW p \in Procs, Step(p) PROVE JobOK'
  <2>1. Moved(p) /\ JobAt(p)'
    BY <1>2, StepMoves DEF JobOK
  <2>2. ASSUME NEW q \in Procs, q # p PROVE JobAt(q)'
    BY <2>1, <2>2 DEF Moved, JobOK, JobAt
  <2>3. QED BY <2>1, <2>2 DEF JobOK
<1>3. ASSUME NEW p \in Callers, Kill(p) PROVE JobOK'
  BY <1>3, NamesDistinct DEF Kill, Stop, JobOK, JobAt, TypeOK, ScriptPC, RevertPC
<1>4. CASE Timeout
  BY <1>4, NamesDistinct DEF Timeout, JobOK, JobAt, TypeOK, ScriptPC, RevertPC
<1>5. CASE Reboot
  BY <1>5, NamesDistinct DEF Reboot, ScriptStart, JobOK, JobAt, TypeOK, ScriptPC, RevertPC
<1>6. CASE UNCHANGED vars
  BY <1>6 DEF vars, procs, JobOK, JobAt
<1>7. QED BY <1>1, <1>2, <1>3, <1>4, <1>5, <1>6, CallsStart DEF Next, Fault

-----------------------------------------------------------------------------
(* Until the first race, one process at a time does harm.                  *)

LEMMA ExclusiveStep ==
  ASSUME TypeOK, JobOK, Exclusive, [Next]_vars
  PROVE  Exclusive'
<1> USE DEF Active
<1>1. ASSUME NEW p \in Procs, NEW j, NEW l, Start(p, j, l) PROVE Exclusive'
  BY <1>1, StartMoves DEF Exclusive
<1>2. ASSUME NEW p \in Procs, Step(p) PROVE Exclusive'
  <2>1. Moved(p)
    BY <1>2, StepMoves DEF JobOK
  <2>2. QED BY <2>1 DEF Moved, Exclusive
<1>3. ASSUME NEW p \in Callers, Kill(p) PROVE Exclusive'
  BY <1>3, NamesDistinct DEF Kill, Stop, Exclusive, TypeOK, history
<1>4. CASE Timeout
  <2>1. pc[Daemon] \in ScriptPC /\ job[Daemon] \notin Harmless /\ Daemon \in Procs
    BY <1>4, NamesDistinct DEF Timeout, JobOK, JobAt, Harmless
  <2>2. Active(Daemon)
    BY <2>1 DEF ScriptPC
  <2>3. ~raced => \A q \in Procs \ {Daemon} : ~Active(q)
    BY <2>1, <2>2 DEF Exclusive
  <2>4. raced' = raced /\ pc' = pc
    BY <1>4 DEF Timeout, history
  <2>5. QED BY <2>3, <2>4 DEF Exclusive
<1>5. CASE Reboot
  BY <1>5, NamesDistinct DEF Reboot, Exclusive, TypeOK
<1>6. CASE UNCHANGED vars
  BY <1>6 DEF vars, procs, history, Exclusive
<1>7. ASSUME Call \/ Fire PROVE Exclusive'
  BY <1>7, CallsStart, <1>1 DEF Called
<1>8. QED BY <1>2, <1>3, <1>4, <1>5, <1>6, <1>7 DEF Next, Fault

-----------------------------------------------------------------------------
(* The policy line comes after the rules.                                  *)

\* Nobody else moves while a script is about to write its policy line.
LEMMA AloneAtClose ==
  ASSUME TypeOK, JobOK, Exclusive, ~raced,
         NEW p \in Procs, NEW q \in Procs, Active(p), pc[q] = "close"
  PROVE  p = q
<1>1. Active(q) /\ job[q] \notin Harmless
  BY DEF Active, JobOK, JobAt, ScriptPC, Harmless
<1>2. QED BY <1>1 DEF Exclusive

\* The chain a script is working on, as its next command finds it.
RulesAt(p) == pc[p] = "close" => chain[at[p]].rules # {}

Safe(c) == chain[c].closed => chain[c].rules # {}

LEMMA ScriptSafe ==
  ASSUME TypeOK, NEW p \in Procs, RulesAt(p), \A c \in Chains : Safe(c), Script(p)
  PROVE  RulesAt(p)' /\ \A c \in Chains : Safe(c)'
<1> USE DEF Safe, RulesAt, history
<1>1. at[p] \in Chains /\ raced' = raced /\ pc[p] # "idle"
  BY DEF TypeOK, Script, Flush, Fill, Close, Hook, Swap4, Swap6, EndOfFile, ScriptFails, ScriptPC
<1>2. CASE Flush(p)
  BY <1>1, <1>2, GotoMoves DEF Flush, TypeOK, ChainState
<1>3. CASE Fill(p)
  <2> DEFINE rs == IF chain[at[p]].closed THEN chain[at[p]].rules
                   ELSE chain[at[p]].rules \cup {compiled}
  <2>1. rs # {}
    BY <1>1
  <2>2. chain' = [chain EXCEPT ![at[p]] = [chain[at[p]] EXCEPT !.rules = rs]] /\ at' = at
    BY <1>1, <1>3 DEF Fill, GotoAt, TypeOK
  <2>3. QED
    <3> HIDE DEF rs
    <3> QED BY <1>1, <2>1, <2>2 DEF TypeOK, ChainState
<1>4. CASE Close(p)
  <2>1. chain' = [chain EXCEPT ![at[p]].closed = TRUE] /\ pc[p] = "close"
    BY <1>4 DEF Close
  <2>2. pc'[p] # "close"
    BY <1>1, <1>4, GotoMoves, NextBlockMoves DEF Close
  <2>3. \A c \in Chains : chain'[c].rules = chain[c].rules
    BY <2>1 DEF TypeOK, ChainState
  <2>4. \A c \in Chains : chain'[c].closed => c = at[p] \/ chain[c].closed
    BY <2>1 DEF TypeOK, ChainState
  <2>5. QED BY <1>1, <2>1, <2>2, <2>3, <2>4
<1>5. CASE Hook(p)
  <2>1. chain' = [chain EXCEPT ![at[p]].hooked = TRUE]
    BY <1>5 DEF Hook
  <2>2. pc'[p] # "close"
    BY <1>1, <1>5, NextBlockMoves DEF Hook
  <2>3. \A c \in Chains : chain'[c].rules = chain[c].rules
    BY <2>1 DEF TypeOK, ChainState
  <2>4. \A c \in Chains : chain'[c].closed = chain[c].closed
    BY <2>1 DEF TypeOK, ChainState
  <2>5. QED BY <2>2, <2>3, <2>4
<1>6. CASE Swap4(p)
  <2>1. chain' = Restored(V4Chains) /\ pc'[p] # "close"
    BY <1>1, <1>6, GotoMoves DEF Swap4, Goto
  <2>2. ASSUME NEW c \in Chains PROVE Safe(c)'
    BY <2>1 DEF Restored
  <2>3. QED BY <2>1, <2>2
<1>7. CASE Swap6(p)
  <2>1. chain' = Restored(V6Chains) /\ pc'[p] # "close"
    BY <1>1, <1>7, GotoMoves DEF Swap6, Goto
  <2>2. ASSUME NEW c \in Chains PROVE Safe(c)'
    BY <2>1 DEF Restored
  <2>3. QED BY <2>1, <2>2
<1>8. CASE EndOfFile(p)
  BY <1>1, <1>8, ScriptExitMoves DEF EndOfFile, kernel
<1>9. CASE ScriptFails(p)
  BY <1>1, <1>9, GotoMoves, StopMoves DEF ScriptFails, Goto, kernel
<1>10. QED BY <1>2, <1>3, <1>4, <1>5, <1>6, <1>7, <1>8, <1>9 DEF Script

LEMMA RevertSafe ==
  ASSUME TypeOK, NEW p \in Procs, \A c \in Chains : Safe(c),
         Unhook(p) \/ Clear(p) \/ Delete(p)
  PROVE  \A c \in Chains : Safe(c)'
<1> USE DEF Safe
<1>1. at[p] \in Chains
  BY DEF TypeOK
<1>2. CASE Unhook(p)
  BY <1>1, <1>2 DEF Unhook, TypeOK, ChainState
<1>3. CASE Clear(p)
  <2>1. \/ chain' = [chain EXCEPT ![at[p]] = [chain[at[p]] EXCEPT !.rules = {}, !.closed = FALSE]]
        \/ chain' = chain
    BY <1>3 DEF Clear
  <2>2. [chain[at[p]] EXCEPT !.rules = {}, !.closed = FALSE].closed = FALSE
    BY <1>1 DEF TypeOK, ChainState
  <2>3. ASSUME NEW c \in Chains, c # at[p] PROVE chain'[c] = chain[c]
    BY <2>1, <2>3 DEF TypeOK
  <2>4. chain'[at[p]].closed = FALSE \/ chain' = chain
    BY <1>1, <2>1, <2>2 DEF TypeOK
  <2>5. QED BY <2>3, <2>4
<1>4. CASE Delete(p)
  <2>1. \A c \in Chains : chain'[c].rules = chain[c].rules /\ chain'[c].closed = chain[c].closed
    <3> DEFINE left == chain[at[p]].present /\ ~Deletable(at[p])
    <3>1. \/ chain' = chain
          \/ chain' = [chain EXCEPT ![at[p]] = [chain[at[p]] EXCEPT !.present = left]]
      BY <1>4 DEF Delete
    <3>2. QED
      <4> HIDE DEF left
      <4> QED BY <1>1, <3>1 DEF TypeOK, ChainState
  <2>2. QED BY <2>1
<1>5. QED BY <1>2, <1>3, <1>4

\* The other commands of the engine leave the kernel alone.
LEMMA StepKernel ==
  ASSUME NEW p \in Procs, Step(p)
  PROVE  Script(p) \/ Unhook(p) \/ Clear(p) \/ Delete(p) \/ UNCHANGED chain
BY DEF Step, Recompiled, ArmStop, ArmRun, FailStop, CommitStop, CommitWrite,
       CommitEnable, RevertDisable, RevertRemove, Exit, kernel

LEMMA NotAtClose ==
  ASSUME TypeOK, JobOK, NEW p \in Procs, Step(p), ~Script(p)
  PROVE  pc'[p] # "close"
<1> USE DEF history, JobOK, JobAt
<1>1. CASE p = Daemon /\ \E r \in RuleSets : Recompiled(r)
  <2>1. pc[p] = "writing" /\ raced' = raced /\ job[p] \in {"compile", "apply", "safe"}
    BY <1>1 DEF Recompiled
  <2>2. \/ Goto(p, "arm_stop") \/ Goto(p, ScriptStart) \/ Stop(p)
    BY <1>1, <2>1 DEF Recompiled
  <2>3. ScriptStart \in {"flush", "swap4"}
    BY DEF ScriptStart
  <2>4. QED BY <2>1, <2>2, <2>3, GotoMoves, StopMoves DEF Goto
<1>2. CASE ArmRun(p)
  BY <1>2, GotoMoves DEF ArmRun, Goto, ScriptStart
<1>3. CASE Unhook(p)
  BY <1>3, GotoMoves DEF Unhook
<1>4. CASE Clear(p)
  BY <1>4, NextRevertMoves, GotoMoves DEF Clear
<1>5. CASE Delete(p)
  BY <1>5, NextRevertMoves DEF Delete
<1>6. CASE ArmStop(p) \/ FailStop(p) \/ CommitStop(p) \/ CommitWrite(p)
           \/ RevertDisable(p) \/ RevertRemove(p)
  BY <1>6, GotoMoves DEF ArmStop, FailStop, CommitStop, CommitWrite,
       RevertDisable, RevertRemove, Goto
<1>7. CASE CommitEnable(p)
  BY <1>7, GotoMoves, StopMoves DEF CommitEnable, Goto
<1>8. CASE Exit(p)
  BY <1>8, StopMoves DEF Exit, ExitPC
<1>9. QED BY <1>1, <1>2, <1>3, <1>4, <1>5, <1>6, <1>7, <1>8 DEF Step

LEMMA RulesStep ==
  ASSUME TypeOK, JobOK, Exclusive, RulesFirst, NoLockout, [Next]_vars
  PROVE  RulesFirst' /\ NoLockout'
<1> SUFFICES ASSUME ~raced'
             PROVE  (\A p \in Procs : RulesAt(p)') /\ (\A c \in Chains : Safe(c)')
  BY DEF RulesFirst, NoLockout, RulesAt, Safe
<1>1. ASSUME NEW p \in Procs, NEW j, NEW l, Start(p, j, l), l # "close", UNCHANGED chain
      PROVE  (\A q \in Procs : RulesAt(q)') /\ (\A c \in Chains : Safe(c)')
  BY <1>1, StartMoves DEF RulesFirst, NoLockout, RulesAt, Safe
<1>2. ASSUME NEW p \in Procs, Step(p)
      PROVE  (\A q \in Procs : RulesAt(q)') /\ (\A c \in Chains : Safe(c)')
  <2>1. Moved(p) /\ ~raced /\ Active(p)
    BY <1>2, StepMoves DEF JobOK, Moved, Active
  <2>2. \A q \in Procs : RulesAt(q)
    BY <2>1 DEF RulesFirst, RulesAt
  <2>3. \A c \in Chains : Safe(c)
    BY <2>1 DEF NoLockout, Safe
  <2>4. RulesAt(p)' /\ \A c \in Chains : Safe(c)'
    <3>1. CASE Script(p)
      BY <3>1, <2>2, <2>3, ScriptSafe
    <3>2. CASE ~Script(p)
      <4>1. RulesAt(p)'
        BY <3>2, <1>2, NotAtClose DEF RulesAt
      <4>2. CASE Unhook(p) \/ Clear(p) \/ Delete(p)
        BY <4>1, <4>2, <2>3, RevertSafe
      <4>3. CASE UNCHANGED chain
        BY <4>1, <4>3, <2>3 DEF Safe
      <4>4. QED BY <3>2, <4>2, <4>3, <1>2, StepKernel
    <3>3. QED BY <3>1, <3>2
  <2>5. ASSUME NEW q \in Procs, q # p PROVE RulesAt(q)'
    <3>1. pc[q] # "close"
      BY <2>1, <2>5, AloneAtClose
    <3>2. QED BY <2>1, <2>5, <3>1 DEF Moved, RulesAt
  <2>6. QED BY <2>4, <2>5
<1>3. ASSUME NEW p \in Callers, Kill(p)
      PROVE  (\A q \in Procs : RulesAt(q)') /\ (\A c \in Chains : Safe(c)')
  BY <1>3, NamesDistinct DEF Kill, Stop, RulesFirst, NoLockout, RulesAt, Safe, TypeOK, history, kernel
<1>4. CASE Timeout
  BY <1>4 DEF Timeout, RulesFirst, NoLockout, RulesAt, Safe, history, kernel
<1>5. CASE Reboot
  BY <1>5 DEF Reboot, RulesAt, Safe, Stock, ScriptStart
<1>6. CASE UNCHANGED vars
  BY <1>6 DEF vars, procs, history, kernel, RulesFirst, NoLockout, RulesAt, Safe
<1>7. ASSUME Call \/ Fire
      PROVE  (\A q \in Procs : RulesAt(q)') /\ (\A c \in Chains : Safe(c)')
  <2>1. UNCHANGED chain
    BY <1>7 DEF Call, Fire, Recompile, ShellApply, Commit, Revert, kernel
  <2>2. \E p \in Procs : Called(p)
    BY <1>7, CallsStart
  <2>3. QED BY <2>1, <2>2, <1>1 DEF Called, ScriptStart
<1>8. QED BY <1>2, <1>3, <1>4, <1>5, <1>6, <1>7 DEF Next, Fault

-----------------------------------------------------------------------------
(* Confirmed rules have no dead-man.                                       *)

LEMMA KeptStep ==
  ASSUME TypeOK, JobOK, Exclusive, KeptIsSpared, [Next]_vars
  PROVE  KeptIsSpared'
<1> USE DEF KeptIsSpared, history, systemd
<1>1. ASSUME NEW p \in Procs, Step(p) PROVE KeptIsSpared'
  <2>1. Moved(p)
    BY <1>1, StepMoves DEF JobOK
  <2>2. SUFFICES ASSUME owner' = "kept"
                 PROVE  timer' = "inactive" /\ (raced \/ ~Active(Deadman))
    BY <2>1, NamesDistinct DEF Moved, Active
  <2>3. CASE CommitStop(p)
    <3>1. timer' = "inactive" /\ Active(p) /\ job[p] = "commit" /\ p # Deadman
      BY <2>3 DEF CommitStop, Active, JobOK, JobAt
    <3>2. ~raced => ~Active(Deadman)
      BY <3>1, NamesDistinct DEF Exclusive, Harmless
    <3>3. QED BY <3>1, <3>2
  <2>4. CASE ~CommitStop(p)
    <3>1. owner = "kept"
      BY <1>1, <2>2, <2>4 DEF Step, Recompiled, ArmStop, ArmRun, Script, Flush, Fill, Close,
         Hook, Swap4, Swap6, EndOfFile, ScriptFails, Unhook, Clear, Delete, FailStop,
         CommitWrite, CommitEnable, RevertDisable, RevertRemove, Exit
    <3>2. timer' \in {timer, "inactive"}
      BY <1>1, <2>2, <2>4 DEF Step, Recompiled, ArmStop, ArmRun, Script, Flush, Fill, Close,
         Hook, Swap4, Swap6, EndOfFile, ScriptFails, Unhook, Clear, Delete, FailStop,
         CommitWrite, CommitEnable, RevertDisable, RevertRemove, Exit
    <3>3. QED BY <3>1, <3>2
  <2>5. QED BY <2>3, <2>4
<1>2. ASSUME NEW p \in Callers, Kill(p) PROVE KeptIsSpared'
  BY <1>2, NamesDistinct DEF Kill, Stop, TypeOK, Active
<1>3. CASE Timeout
  BY <1>3 DEF Timeout, Active
<1>4. CASE Reboot
  BY <1>4 DEF Reboot
<1>5. CASE UNCHANGED vars
  BY <1>5 DEF vars, procs, Active
<1>6. CASE Fire
  BY <1>6 DEF Fire
<1>7. CASE Call
  <2>1. timer' = timer /\ owner' \in {owner, "plain"}
    BY <1>7 DEF Call, Recompile, ShellApply, Commit, Revert
  <2>2. (raced => raced') /\ (Active(Deadman)' => Active(Deadman))
    <3>1. ASSUME NEW p \in Callers, NEW j, NEW l, Start(p, j, l)
          PROVE  (raced => raced') /\ (Active(Deadman)' => Active(Deadman))
      BY <3>1, StartMoves, NamesDistinct DEF Active
    <3>2. QED
      BY <1>7, <3>1, NamesDistinct DEF Call, Recompile, ShellApply, Commit, Revert
  <2>3. QED BY <2>1, <2>2
<1>8. QED BY <1>1, <1>2, <1>3, <1>4, <1>5, <1>6, <1>7 DEF Next, Fault

-----------------------------------------------------------------------------

OrderInv == TypeOK /\ JobOK /\ Exclusive /\ RulesFirst /\ NoLockout /\ KeptIsSpared

\* The inductive invariant of this module.
LEMMA OrderInvariant == Spec => []OrderInv
<1>1. Init => OrderInv
  <2> SUFFICES ASSUME Init PROVE OrderInv
    OBVIOUS
  <2>1. TypeOK
    BY TypeInit
  <2>2. JobOK
    BY NamesDistinct DEF Init, JobOK, JobAt, ScriptPC, RevertPC
  <2>3. Exclusive /\ RulesFirst /\ NoLockout /\ KeptIsSpared
    BY DEF Init, Exclusive, RulesFirst, NoLockout, KeptIsSpared, Stock, Active
  <2>4. QED BY <2>1, <2>2, <2>3 DEF OrderInv
<1>2. OrderInv /\ [Next]_vars => OrderInv'
  <2> SUFFICES ASSUME OrderInv, [Next]_vars PROVE OrderInv'
    OBVIOUS
  <2>1. TypeOK'
    BY TypeNext DEF OrderInv
  <2>2. JobOK' /\ Exclusive' /\ RulesFirst' /\ NoLockout' /\ KeptIsSpared'
    BY JobStep, ExclusiveStep, RulesStep, KeptStep DEF OrderInv
  <2>3. QED BY <2>1, <2>2 DEF OrderInv
<1>3. QED BY <1>1, <1>2, PTL DEF Spec

(***************************************************************************)
(* Whatever is killed, refused, retried or rebooted, and whenever: until   *)
(* two engine processes have overlapped, no chain closes with its policy   *)
(* line before the lines of a rule set stand in it.                        *)
(***************************************************************************)
THEOREM NeverClosedEmpty == Spec => []NoLockout
<1>1. OrderInv => NoLockout
  BY DEF OrderInv
<1>2. QED BY <1>1, OrderInvariant, PTL

(***************************************************************************)
(* Once commit has kept the live rules, no timer is left to revert them,   *)
(* in every interleaving of engine processes and with every fault.         *)
(***************************************************************************)
THEOREM KeptStays == Spec => []KeptIsSpared
<1>1. OrderInv => KeptIsSpared
  BY DEF OrderInv
<1>2. QED BY <1>1, OrderInvariant, PTL
=============================================================================
