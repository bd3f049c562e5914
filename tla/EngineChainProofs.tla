------------------------- MODULE EngineChainProofs --------------------------
(***************************************************************************)
(* What the commands of the engine make of the chains: what revert()       *)
(* leaves behind, and so what an apply that failed, a revert and an        *)
(* expired dead-man leave behind, when no iptables call of revert() finds  *)
(* the xtables lock taken; what the compiled script has written when it    *)
(* ends, with every fault; how the restore rendering replaces chains; and  *)
(* when the boot unit may be enabled.                                      *)
(***************************************************************************)
EXTENDS EngineProofs

LEMMA Alone ==
  ASSUME TypeOK, Exclusive, ~raced, NEW p \in Procs, Active(p), job[p] \notin Harmless
  PROVE  \A q \in Procs \ {p} : pc[q] = "idle"
BY DEF Exclusive, Active

\* The chains as revert() leaves them: what is stock stays stock, what is
\* unhooked stays unhooked, what -X would take stays so.
Shrinks ==
  \A c \in Chains : /\ chain[c] = Stock(c) => chain'[c] = Stock(c)
                    /\ ~chain[c].hooked => ~chain'[c].hooked
                    /\ Deletable(c) => Deletable(c)'

RevertStep(p) == Unhook(p) \/ Clear(p) \/ Delete(p)

\* Records are compared field by field.
LEMMA SameChain ==
  ASSUME NEW s \in ChainState, NEW t \in ChainState,
         s.present = t.present, s.rules = t.rules, s.closed = t.closed, s.hooked = t.hooked
  PROVE  s = t
BY DEF ChainState

LEMMA IsStock ==
  ASSUME NEW c \in Chains, NEW s \in ChainState
  PROVE  s = Stock(c) <=> /\ s.present = (c = "DOCKER-USER") /\ s.rules = {}
                          /\ s.closed = FALSE /\ s.hooked = (c = "DOCKER-USER")
<1>1. Stock(c) \in ChainState
  BY DEF Stock, ChainState
<1>2. /\ Stock(c).present = (c = "DOCKER-USER") /\ Stock(c).rules = {}
      /\ Stock(c).closed = FALSE /\ Stock(c).hooked = (c = "DOCKER-USER")
  BY DEF Stock
<1>3. QED BY <1>1, <1>2, SameChain

\* The effect of one command of revert(), unless it is refused.
Touches(p) ==
  /\ at[p] \in Chains /\ chain \in [Chains -> ChainState] /\ chain' \in [Chains -> ChainState]
  /\ \A c \in Chains \ {at[p]} : chain'[c] = chain[c]

LEMMA UnhookDoes ==
  ASSUME TypeOK, ~Busy \/ chain' # chain, NEW p \in Procs, Unhook(p)
  PROVE  /\ Touches(p)
         /\ chain'[at[p]].present = chain[at[p]].present
         /\ chain'[at[p]].rules = chain[at[p]].rules
         /\ chain'[at[p]].closed = chain[at[p]].closed
         /\ chain'[at[p]].hooked = FALSE
<1> DEFINE s == [chain[at[p]] EXCEPT !.hooked = FALSE]
<1>1. at[p] \in Chains /\ chain[at[p]] \in ChainState /\ chain \in [Chains -> ChainState]
  BY DEF TypeOK
<1>2. chain' = [chain EXCEPT ![at[p]] = s]
  BY DEF Unhook
<1>3. /\ s \in ChainState /\ s.present = chain[at[p]].present
      /\ s.rules = chain[at[p]].rules /\ s.closed = chain[at[p]].closed /\ s.hooked = FALSE
  BY <1>1 DEF ChainState
<1> HIDE DEF s
<1>4. QED BY <1>1, <1>2, <1>3 DEF Touches

LEMMA ClearDoes ==
  ASSUME TypeOK, ~Busy \/ chain' # chain, NEW p \in Procs, Clear(p)
  PROVE  /\ Touches(p)
         /\ chain'[at[p]].present = chain[at[p]].present
         /\ chain'[at[p]].rules = {}
         /\ chain'[at[p]].closed = FALSE
         /\ chain'[at[p]].hooked = chain[at[p]].hooked
<1> DEFINE s == [chain[at[p]] EXCEPT !.rules = {}, !.closed = FALSE]
<1>1. at[p] \in Chains /\ chain[at[p]] \in ChainState /\ chain \in [Chains -> ChainState]
  BY DEF TypeOK
<1>2. chain' = [chain EXCEPT ![at[p]] = s]
  BY DEF Clear
<1>3. /\ s \in ChainState /\ s.present = chain[at[p]].present
      /\ s.rules = {} /\ s.closed = FALSE /\ s.hooked = chain[at[p]].hooked
  BY <1>1 DEF ChainState
<1> HIDE DEF s
<1>4. QED BY <1>1, <1>2, <1>3 DEF Touches

LEMMA DeleteDoes ==
  ASSUME TypeOK, ~Busy \/ chain' # chain, NEW p \in Procs, Delete(p)
  PROVE  /\ Touches(p)
         /\ chain'[at[p]].present = (chain[at[p]].present /\ ~Deletable(at[p]))
         /\ chain'[at[p]].rules = chain[at[p]].rules
         /\ chain'[at[p]].closed = chain[at[p]].closed
         /\ chain'[at[p]].hooked = chain[at[p]].hooked
<1> DEFINE left == chain[at[p]].present /\ ~Deletable(at[p])
           s == [chain[at[p]] EXCEPT !.present = left]
<1>1. at[p] \in Chains /\ chain[at[p]] \in ChainState /\ chain \in [Chains -> ChainState]
  BY DEF TypeOK
<1>2. chain' = [chain EXCEPT ![at[p]] = s]
  BY DEF Delete
<1>3. left \in BOOLEAN
  BY <1>1 DEF ChainState, Deletable
<1>4. /\ s \in ChainState /\ s.present = left
      /\ s.rules = chain[at[p]].rules /\ s.closed = chain[at[p]].closed
      /\ s.hooked = chain[at[p]].hooked
  <2> HIDE DEF left
  <2> QED BY <1>1, <1>3 DEF ChainState
<1>5. QED
  <2> HIDE DEF s
  <2>1. Touches(p) /\ chain'[at[p]] = s
    BY <1>1, <1>2, <1>4 DEF Touches
  <2>2. QED BY <1>4, <2>1

LEMMA RevertShrinks ==
  ASSUME TypeOK, DockerUser, ~Busy, NEW p \in Procs, RevertStep(p)
  PROVE  Shrinks
<1> DEFINE c == at[p]
           Kept == /\ chain[c].rules = {} /\ chain[c].closed = FALSE
                      => chain'[c].rules = {} /\ chain'[c].closed = FALSE
                   /\ ~chain[c].hooked => ~chain'[c].hooked
<1>1. Touches(p) /\ Kept
  <2>1. c \in Chains /\ chain[c] \in ChainState
    BY DEF TypeOK
  <2>2. CASE Unhook(p)
    BY <2>1, <2>2, UnhookDoes DEF ChainState
  <2>3. CASE Clear(p)
    BY <2>1, <2>3, ClearDoes DEF ChainState
  <2>4. CASE Delete(p)
    BY <2>1, <2>4, DeleteDoes DEF ChainState
  <2>5. QED BY <2>2, <2>3, <2>4 DEF RevertStep
<1>2. c \in Chains /\ chain[c] \in ChainState /\ chain'[c] \in ChainState
  BY <1>1 DEF Touches
<1>3. chain[c] = Stock(c) => chain'[c] = Stock(c)
  <2> SUFFICES ASSUME chain[c] = Stock(c) PROVE chain'[c] = Stock(c)
    OBVIOUS
  <2>1. /\ chain[c].present = (c = "DOCKER-USER") /\ chain[c].rules = {}
        /\ chain[c].closed = FALSE /\ chain[c].hooked = (c = "DOCKER-USER")
    BY <1>2, IsStock
  <2>2. /\ chain'[c].present = (c = "DOCKER-USER") /\ chain'[c].hooked = (c = "DOCKER-USER")
    <3>1. CASE Unhook(p)
      <4>1. c # "DOCKER-USER"
        BY <3>1 DEF Unhook, DockerUser
      <4>2. QED BY <2>1, <3>1, <4>1, UnhookDoes
    <3>2. CASE Clear(p)
      BY <2>1, <3>2, ClearDoes
    <3>3. CASE Delete(p)
      <4>1. c # "DOCKER-USER"
        BY <3>3 DEF Delete, DockerUser
      <4>2. QED BY <2>1, <3>3, <4>1, DeleteDoes
    <3>4. QED BY <3>1, <3>2, <3>3 DEF RevertStep
  <2>3. QED BY <1>1, <1>2, <2>1, <2>2, IsStock
<1>4. \A d \in Chains \ {c} : chain'[d] = chain[d]
  BY <1>1 DEF Touches
<1>5. ASSUME chain[c].rules = {}, ~chain[c].closed, ~chain[c].hooked
      PROVE  chain'[c].rules = {} /\ ~chain'[c].closed /\ ~chain'[c].hooked
  BY <1>1, <1>2, <1>5 DEF ChainState
<1>6. ASSUME NEW d \in Chains
      PROVE  /\ chain[d] = Stock(d) => chain'[d] = Stock(d)
             /\ ~chain[d].hooked => ~chain'[d].hooked
             /\ Deletable(d) => Deletable(d)'
  <2>1. CASE d = c
    BY <1>1, <1>3, <1>5, <2>1 DEF Deletable
  <2>2. CASE d # c
    BY <1>4, <2>2 DEF Deletable
  <2>3. QED BY <2>1, <2>2
<1>7. QED BY <1>6 DEF Shrinks
-----------------------------------------------------------------------------
(* Where the commands lead.                                                *)

LEMMA ScriptGoes ==
  ASSUME TypeOK, NEW p \in Procs, Script(p)
  PROVE  \/ pc'[p] \in ScriptPC \cup {"idle", "applied"}
         \/ pc'[p] = "unhook" /\ at'[p] = "ZFW-IN"
<1> USE DEF history, ScriptPC
<1>1. raced' = raced /\ pc[p] # "idle"
  BY DEF Script, Flush, Fill, Close, Hook, Swap4, Swap6, EndOfFile, ScriptFails
<1>2. CASE Flush(p)
  BY <1>1, <1>2, GotoMoves DEF Flush
<1>3. CASE Fill(p)
  BY <1>1, <1>3, GotoMoves DEF Fill
<1>4. CASE Close(p)
  BY <1>1, <1>4, GotoMoves, NextBlockMoves DEF Close
<1>5. CASE Hook(p)
  BY <1>1, <1>5, NextBlockMoves DEF Hook
<1>6. CASE Swap4(p)
  BY <1>1, <1>6, GotoMoves DEF Swap4, Goto
<1>7. CASE Swap6(p)
  BY <1>1, <1>7, GotoMoves DEF Swap6, Goto
<1>8. CASE EndOfFile(p)
  BY <1>1, <1>8, ScriptExitMoves DEF EndOfFile
<1>9. CASE ScriptFails(p)
  BY <1>1, <1>9, GotoMoves, StopMoves DEF ScriptFails, Goto
<1>10. QED BY <1>2, <1>3, <1>4, <1>5, <1>6, <1>7, <1>8, <1>9 DEF Script

LEMMA RevertGoes ==
  ASSUME TypeOK, NEW p \in Procs, JobAt(p), RevertStep(p)
  PROVE  \/ Unhook(p) /\ pc'[p] = "clear" /\ at'[p] = at[p]
         \/ Clear(p) /\ at[p] # "DOCKER-USER" /\ pc'[p] = "delete" /\ at'[p] = at[p]
         \/ Clear(p) /\ at[p] = "DOCKER-USER" /\ pc'[p] = "unhook" /\ at'[p] = "ZFW-OUT"
         \/ Delete(p) /\ at[p] = "ZFW-IN" /\ pc'[p] = "clear" /\ at'[p] = "DOCKER-USER"
         \/ Delete(p) /\ at[p] = "DOCKER-USER"
         \/ Delete(p) /\ at[p] = "ZFW-OUT" /\ pc'[p] = "unhook" /\ at'[p] = "ZFW-IN6"
         \/ /\ Delete(p) /\ at[p] = "ZFW-IN6"
            /\ pc'[p] \in {"idle", "fail_stop", "report_off", "r_disable"}
<1> USE DEF history
<1>1. /\ AfterRevert("ZFW-IN") = "DOCKER-USER" /\ AfterRevert("DOCKER-USER") = "ZFW-OUT"
      /\ AfterRevert("ZFW-OUT") = "ZFW-IN6" /\ AfterRevert("ZFW-IN6") = NoChain
  BY DEF AfterRevert
<1>2. /\ NoChain \notin {"DOCKER-USER", "ZFW-OUT", "ZFW-IN6"}
      /\ at[p] \in {"ZFW-IN", "DOCKER-USER", "ZFW-IN6", "ZFW-OUT"}
  BY EngineAssumption DEF Chains, TypeOK
<1>3. CASE Unhook(p)
  BY <1>3, GotoMoves DEF Unhook
<1>4. CASE Clear(p)
  <2>1. CASE at[p] = "DOCKER-USER"
    <3>1. NextRevert(p) /\ pc[p] # "idle" /\ raced' = raced
      BY <1>4, <2>1 DEF Clear
    <3>2. QED BY <1>1, <1>2, <1>4, <2>1, <3>1, NextRevertMoves
  <2>2. CASE at[p] # "DOCKER-USER"
    BY <1>4, <2>2, GotoMoves DEF Clear
  <2>3. QED BY <2>1, <2>2
<1>5. CASE Delete(p)
  <2>1. NextRevert(p) /\ pc[p] # "idle" /\ raced' = raced
    BY <1>5 DEF Delete
  <2>2. QED BY <1>1, <1>2, <1>5, <2>1, NextRevertMoves
<1>6. QED BY <1>3, <1>4, <1>5 DEF RevertStep

\* The commands of arm_deadman, commit and the end of revert, and exits.
Others(p) ==
  \/ ArmStop(p) \/ ArmRun(p) \/ FailStop(p)
  \/ CommitStop(p) \/ CommitWrite(p) \/ CommitEnable(p)
  \/ RevertDisable(p) \/ RevertRemove(p) \/ Exit(p)
  \/ p = Daemon /\ \E r \in RuleSets : Recompiled(r)

LEMMA OthersGo ==
  ASSUME TypeOK, NEW p \in Procs, JobAt(p), Others(p)
  PROVE  /\ UNCHANGED chain /\ pc'[p] \notin RevertPC
         /\ pc'[p] \in SweptPC => \/ FailStop(p) /\ pc'[p] = "report_off"
                                  \/ RevertDisable(p) /\ pc'[p] = "r_rm"
                                  \/ RevertRemove(p) /\ pc'[p] = "reverted"
<1> USE DEF history, RevertPC, SweptPC, kernel
<1>1. CASE p = Daemon /\ \E r \in RuleSets : Recompiled(r)
  <2>1. pc[p] = "writing" /\ raced' = raced /\ UNCHANGED chain
    BY <1>1 DEF Recompiled
  <2>2. Goto(p, "arm_stop") \/ Goto(p, ScriptStart) \/ Stop(p)
    BY <1>1, <2>1 DEF Recompiled, JobAt
  <2>3. ScriptStart \in {"flush", "swap4"}
    BY DEF ScriptStart
  <2>4. QED BY <2>1, <2>2, <2>3, GotoMoves, StopMoves DEF Goto
<1>2. CASE ArmRun(p)
  BY <1>2, GotoMoves DEF ArmRun, Goto, ScriptStart
<1>3. CASE ArmStop(p) \/ CommitStop(p) \/ CommitWrite(p)
  BY <1>3, GotoMoves DEF ArmStop, CommitStop, CommitWrite, Goto
<1>4. CASE FailStop(p) \/ RevertDisable(p) \/ RevertRemove(p)
  BY <1>4, GotoMoves DEF FailStop, RevertDisable, RevertRemove, Goto
<1>5. CASE CommitEnable(p)
  BY <1>5, GotoMoves, StopMoves DEF CommitEnable, Goto
<1>6. CASE Exit(p)
  BY <1>6, StopMoves DEF Exit, ExitPC
<1>7. QED BY <1>1, <1>2, <1>3, <1>4, <1>5, <1>6 DEF Others
-----------------------------------------------------------------------------
(* Docker's own chain stays, hooked.                                       *)

DockerIn == chain["DOCKER-USER"].present /\ chain["DOCKER-USER"].hooked
DockerAt(p) == pc[p] \in {"unhook", "delete"} => at[p] # "DOCKER-USER"

LEMMA ScriptDocker ==
  ASSUME TypeOK, NEW p \in Procs, Script(p), DockerIn
  PROVE  DockerIn'
<1> DEFINE c == "DOCKER-USER"
<1>1. /\ at[p] \in Chains /\ c \in Chains /\ chain \in [Chains -> ChainState]
      /\ \A d \in Chains : chain[d] \in ChainState
  BY DEF TypeOK, Chains
<1> USE DEF DockerIn
<1>2. CASE Flush(p)
  <2>1. chain' = [chain EXCEPT ![at[p]] =
                    [chain[at[p]] EXCEPT !.present = TRUE, !.rules = {}, !.closed = FALSE]]
    BY <1>2 DEF Flush
  <2> DEFINE s == [chain[at[p]] EXCEPT !.present = TRUE, !.rules = {}, !.closed = FALSE]
  <2>2. s.present = TRUE /\ s.hooked = chain[at[p]].hooked
    BY <1>1 DEF ChainState
  <2>3. QED
    <3> HIDE DEF s
    <3>1. chain' = [chain EXCEPT ![at[p]] = s]
      BY <2>1 DEF s
    <3>2. QED BY <1>1, <2>2, <3>1
<1>3. CASE Fill(p)
  <2> DEFINE rs == IF chain[at[p]].closed THEN chain[at[p]].rules
                   ELSE chain[at[p]].rules \cup {compiled}
             s == [chain[at[p]] EXCEPT !.rules = rs]
  <2>1. chain' = [chain EXCEPT ![at[p]] = s]
    BY <1>3 DEF Fill
  <2>2. s.present = chain[at[p]].present /\ s.hooked = chain[at[p]].hooked
    <3> HIDE DEF rs
    <3> QED BY <1>1 DEF ChainState
  <2>3. QED
    <3> HIDE DEF s
    <3> QED BY <1>1, <2>1, <2>2
<1>4. CASE Close(p)
  BY <1>1, <1>4 DEF Close, ChainState
<1>5. CASE Hook(p)
  BY <1>1, <1>5 DEF Hook, ChainState
<1>6. CASE Swap4(p)
  BY <1>1, <1>6 DEF Swap4, Restored
<1>7. CASE Swap6(p)
  BY <1>1, <1>7 DEF Swap6, Restored
<1>8. CASE EndOfFile(p) \/ ScriptFails(p)
  BY <1>8 DEF EndOfFile, ScriptFails, kernel
<1>9. QED BY <1>2, <1>3, <1>4, <1>5, <1>6, <1>7, <1>8 DEF Script

LEMMA RevertDocker ==
  ASSUME TypeOK, NEW p \in Procs, JobAt(p), RevertStep(p), DockerIn, DockerAt(p)
  PROVE  DockerIn' /\ DockerAt(p)'
<1>1. DockerAt(p)'
  <2>1. CASE Unhook(p) \/ Clear(p)
    BY <2>1, RevertGoes DEF DockerAt, Unhook, Clear, Delete
  <2>2. CASE Delete(p)
    <3>1. at[p] # "DOCKER-USER"
      BY <2>2 DEF DockerAt, Delete
    <3>2. QED BY <2>2, <3>1, RevertGoes DEF DockerAt
  <2>3. QED BY <2>1, <2>2 DEF RevertStep
<1>2. CASE chain' = chain
  BY <1>1, <1>2 DEF DockerIn
<1>3. CASE chain' # chain
  <2>1. CASE Unhook(p)
    <3>1. at[p] # "DOCKER-USER" /\ "DOCKER-USER" \in Chains
      BY <2>1 DEF Unhook, DockerAt, Chains
    <3>2. QED BY <1>1, <1>3, <2>1, <3>1, UnhookDoes DEF Touches, DockerIn
  <2>2. CASE Clear(p)
    <3>1. "DOCKER-USER" \in Chains
      BY DEF Chains
    <3>2. QED BY <1>1, <1>3, <2>2, <3>1, ClearDoes DEF Touches, DockerIn
  <2>3. CASE Delete(p)
    <3>1. at[p] # "DOCKER-USER" /\ "DOCKER-USER" \in Chains
      BY <2>3 DEF Delete, DockerAt, Chains
    <3>2. QED BY <1>1, <1>3, <2>3, <3>1, DeleteDoes DEF Touches, DockerIn
  <2>4. QED BY <2>1, <2>2, <2>3 DEF RevertStep
<1>4. QED BY <1>2, <1>3

LEMMA StepKinds ==
  ASSUME NEW p \in Procs, Step(p)
  PROVE  Script(p) \/ RevertStep(p) \/ Others(p)
BY DEF Step, RevertStep, Others

LEMMA CallChain ==
  ASSUME Call \/ Fire
  PROVE  UNCHANGED chain
BY DEF Call, Fire, Recompile, ShellApply, Commit, Revert, kernel

\* A call begins at a command of the script, of arm_deadman or of commit,
\* or at the first command of revert().
LEMMA CalledAt ==
  ASSUME TypeOK, NEW p \in Procs, Called(p)
  PROVE  /\ pc[p] = "idle" /\ at'[p] = "ZFW-IN"
         /\ pc'[p] \in {"writing", "arm_stop", "flush", "swap4", "c_stop", "unhook"}
         /\ \A q \in Procs \ {p} : pc'[q] = pc[q] /\ at'[q] = at[q] /\ job'[q] = job[q]
BY DEF TypeOK, Called, Start, Active, ScriptStart

LEMMA DockerStep ==
  ASSUME TypeOK, JobOK, DockerUser, [Next]_vars
  PROVE  DockerUser'
<1>1. DockerIn /\ \A p \in Procs : DockerAt(p)
  BY DEF DockerUser, DockerIn, DockerAt
<1> SUFFICES DockerIn' /\ \A p \in Procs : DockerAt(p)'
  BY DEF DockerUser, DockerIn, DockerAt
<1>2. ASSUME NEW p \in Procs, Step(p)
      PROVE  DockerIn' /\ \A q \in Procs : DockerAt(q)'
  <2>1. Moved(p) /\ JobAt(p)
    BY <1>2, StepMoves DEF JobOK
  <2>2. DockerIn' /\ DockerAt(p)'
    <3>1. CASE Script(p)
      BY <3>1, <1>1, ScriptDocker, ScriptGoes DEF DockerAt, ScriptPC
    <3>2. CASE RevertStep(p)
      BY <3>2, <1>1, <2>1, RevertDocker
    <3>3. CASE Others(p)
      BY <3>3, <1>1, <2>1, OthersGo DEF DockerIn, DockerAt, RevertPC
    <3>4. QED BY <1>2, <3>1, <3>2, <3>3, StepKinds
  <2>3. QED BY <1>1, <2>1, <2>2 DEF Moved, DockerAt
<1>3. ASSUME Call \/ Fire
      PROVE  DockerIn' /\ \A q \in Procs : DockerAt(q)'
  BY <1>1, <1>3, CallChain, CallsStart, CalledAt DEF DockerIn, DockerAt
<1>4. ASSUME NEW p \in Callers, Kill(p)
      PROVE  DockerIn' /\ \A q \in Procs : DockerAt(q)'
  BY <1>1, <1>4, NamesDistinct DEF Kill, Stop, TypeOK, kernel, DockerIn, DockerAt
<1>5. CASE Timeout
  BY <1>1, <1>5 DEF Timeout, kernel, DockerIn, DockerAt
<1>6. CASE Reboot
  BY <1>6 DEF Reboot, Stock, ScriptStart, Chains, DockerIn, DockerAt
<1>7. CASE UNCHANGED vars
  BY <1>1, <1>7 DEF vars, procs, kernel, DockerIn, DockerAt
<1>8. QED BY <1>2, <1>3, <1>4, <1>5, <1>6, <1>7 DEF Next, Fault
-----------------------------------------------------------------------------
(* revert() sweeps chain after chain.                                      *)

SweepsAt(p) ==
  pc[p] \in RevertPC =>
    /\ \A c \in Earlier(at[p]) : chain[c] = Stock(c)
    /\ pc[p] = "clear" /\ at[p] # "DOCKER-USER" => ~chain[at[p]].hooked
    /\ pc[p] = "delete" => Deletable(at[p])

SweptAt(p) ==
  /\ pc[p] \in SweptPC => AllStock /\ owner = "nobody"
  /\ pc[p] \in {"r_rm", "reverted"} => ~enabled
  /\ pc[p] = "reverted" => ~unit

LEMMA EarlierChains ==
  /\ Earlier("ZFW-IN") = {} /\ Earlier("DOCKER-USER") = {"ZFW-IN"}
  /\ Earlier("ZFW-OUT") = {"ZFW-IN", "DOCKER-USER"}
  /\ Earlier("ZFW-IN6") = {"ZFW-IN", "DOCKER-USER", "ZFW-OUT"}
  /\ Chains = {"ZFW-IN", "DOCKER-USER", "ZFW-OUT", "ZFW-IN6"}
BY DEF Earlier, Chains

LEMMA DeletedIsStock ==
  ASSUME TypeOK, DockerUser, ~Busy, NEW p \in Procs, Delete(p), Deletable(at[p])
  PROVE  chain'[at[p]] = Stock(at[p])
<1>1. at[p] # "DOCKER-USER"
  BY DEF Delete, DockerUser
<1>2. at[p] \in Chains /\ chain'[at[p]] \in ChainState /\ chain[at[p]] \in ChainState
  BY DeleteDoes DEF Touches
<1>3. /\ chain'[at[p]].present = FALSE /\ chain'[at[p]].rules = {}
      /\ chain'[at[p]].closed = FALSE /\ chain'[at[p]].hooked = FALSE
  BY <1>2, DeleteDoes DEF Deletable, ChainState
<1>4. QED BY <1>1, <1>2, <1>3, IsStock

LEMMA RevertSweepsOn ==
  ASSUME TypeOK, DockerUser, ~Busy, NEW p \in Procs, JobAt(p), RevertStep(p), SweepsAt(p)
  PROVE  SweepsAt(p)' /\ SweptAt(p)' /\ (pc'[p] = "idle" => owner' = "nobody")
<1>1. Shrinks
  BY RevertShrinks
<1>2. /\ pc[p] \in RevertPC /\ at[p] \in Chains
      /\ \A c \in Earlier(at[p]) : c \in Chains /\ chain[c] = Stock(c)
  BY EarlierChains DEF SweepsAt, RevertStep, Unhook, Clear, Delete, RevertPC, TypeOK
<1>3. \A c \in Earlier(at[p]) : chain'[c] = Stock(c)
  BY <1>1, <1>2 DEF Shrinks
<1>4. CASE Unhook(p) /\ pc'[p] = "clear" /\ at'[p] = at[p]
  BY <1>3, <1>4, UnhookDoes DEF SweepsAt, SweptAt, SweptPC
<1>5. CASE Clear(p) /\ at[p] # "DOCKER-USER" /\ pc'[p] = "delete" /\ at'[p] = at[p]
  <2>1. ~chain[at[p]].hooked
    BY <1>2, <1>5 DEF SweepsAt, Clear
  <2>2. Deletable(at[p])'
    BY <1>5, <2>1, ClearDoes DEF Deletable
  <2>3. QED BY <1>3, <1>5, <2>2 DEF SweepsAt, SweptAt, SweptPC
<1>6. CASE Clear(p) /\ at[p] = "DOCKER-USER" /\ pc'[p] = "unhook" /\ at'[p] = "ZFW-OUT"
  <2>1. chain["DOCKER-USER"].present = TRUE /\ chain["DOCKER-USER"].hooked = TRUE
    BY <1>2, <1>6 DEF DockerUser, TypeOK, ChainState
  <2>2. chain'["DOCKER-USER"] = Stock("DOCKER-USER")
    <3> DEFINE s == chain'["DOCKER-USER"]
    <3>1. /\ s \in ChainState /\ s.present = TRUE /\ s.rules = {} /\ s.closed = FALSE
          /\ s.hooked = TRUE
      BY <1>6, <2>1, ClearDoes DEF Touches
    <3>2. "DOCKER-USER" \in Chains
      BY DEF Chains
    <3> HIDE DEF s
    <3>3. s = Stock("DOCKER-USER")
      BY <3>1, <3>2, IsStock
    <3>4. QED BY <3>3 DEF s
  <2>3. QED BY <1>3, <1>6, <2>2, EarlierChains DEF SweepsAt, SweptAt, SweptPC
<1>7. ASSUME Delete(p)
      PROVE  /\ at[p] # "DOCKER-USER" /\ chain'[at[p]] = Stock(at[p])
  BY <1>2, <1>7, DeletedIsStock DEF SweepsAt, Delete, DockerUser
<1>8. CASE Delete(p) /\ at[p] = "ZFW-IN" /\ pc'[p] = "clear" /\ at'[p] = "DOCKER-USER"
  BY <1>7, <1>8, EarlierChains DEF SweepsAt, SweptAt, SweptPC
<1>9. CASE Delete(p) /\ at[p] = "ZFW-OUT" /\ pc'[p] = "unhook" /\ at'[p] = "ZFW-IN6"
  BY <1>3, <1>7, <1>9, EarlierChains DEF SweepsAt, SweptAt, SweptPC
<1>10. CASE /\ Delete(p) /\ at[p] = "ZFW-IN6"
            /\ pc'[p] \in {"idle", "fail_stop", "report_off", "r_disable"}
  <2>1. \A c \in Chains : chain'[c] = Stock(c)
    BY <1>3, <1>7, <1>10, EarlierChains
  <2>2. chain' = [c \in Chains |-> Stock(c)]
    BY <1>10, <2>1, DeleteDoes DEF Touches
  <2>3. owner' = "nobody"
    BY <1>10, <2>2 DEF Delete
  <2>4. QED BY <1>10, <2>2, <2>3 DEF SweepsAt, SweptAt, RevertPC, AllStock
<1>11. QED BY <1>4, <1>5, <1>6, <1>7, <1>8, <1>9, <1>10, RevertGoes

\* A process that has swept, while another one moves.
LEMMA SweptBystander ==
  ASSUME TypeOK, NEW p \in Procs, NEW q \in Procs, Moved(p), q # p,
         SweepsAt(q), SweptAt(q),
         Shrinks, owner' \in {owner, "nobody"},
         enabled' => enabled, unit' => unit, AllStock => AllStock'
  PROVE  SweepsAt(q)' /\ SweptAt(q)'
<1>1. pc'[q] = pc[q] /\ at'[q] = at[q] /\ at[q] \in Chains
  BY DEF Moved, TypeOK
<1>2. \A c \in Earlier(at[q]) : c \in Chains
  BY <1>1, EarlierChains
<1>3. SweptAt(q)'
  BY <1>1 DEF SweptAt
<1>4. SweepsAt(q)'
  BY <1>1, <1>2 DEF SweepsAt, Shrinks
<1>5. QED BY <1>3, <1>4

\* A step of arm_deadman, commit or the end of revert: alone, or harmless.
LEMMA OthersHarm ==
  ASSUME TypeOK, NEW p \in Procs, JobAt(p), Others(p)
  PROVE  \/ job[p] \notin Harmless
         \/ UNCHANGED owner /\ (enabled' => enabled) /\ (unit' => unit)
<1> USE DEF history, systemd, Harmless, JobAt
<1>1. CASE p = Daemon /\ \E r \in RuleSets : Recompiled(r)
  BY <1>1 DEF Recompiled
<1>2. CASE ArmStop(p) \/ ArmRun(p) \/ FailStop(p)
  BY <1>2 DEF ArmStop, ArmRun, FailStop
<1>3. CASE CommitStop(p) \/ CommitWrite(p) \/ CommitEnable(p)
  BY <1>3 DEF CommitStop, CommitWrite, CommitEnable
<1>4. CASE RevertDisable(p) \/ RevertRemove(p) \/ Exit(p)
  BY <1>4 DEF RevertDisable, RevertRemove, Exit
<1>5. QED BY <1>1, <1>2, <1>3, <1>4 DEF Others

\* The last commands of revert and of a failed safe apply keep what revert() did.
LEMMA OthersSweptOn ==
  ASSUME TypeOK, NEW p \in Procs, JobAt(p), Others(p), SweptAt(p)
  PROVE  SweepsAt(p)' /\ SweptAt(p)'
<1>1. SweepsAt(p)'
  BY OthersGo DEF SweepsAt
<1>2. CASE pc'[p] \notin SweptPC
  BY <1>1, <1>2 DEF SweptAt, SweptPC
<1>3. CASE FailStop(p) /\ pc'[p] = "report_off"
  BY <1>1, <1>3 DEF FailStop, SweptAt, SweptPC, AllStock, kernel, history
<1>4. CASE RevertDisable(p) /\ pc'[p] = "r_rm"
  BY <1>1, <1>4 DEF RevertDisable, SweptAt, SweptPC, AllStock, kernel, history
<1>5. CASE RevertRemove(p) /\ pc'[p] = "reverted"
  BY <1>1, <1>5 DEF RevertRemove, SweptAt, SweptPC, AllStock, kernel, history
<1>6. QED BY <1>2, <1>3, <1>4, <1>5, OthersGo

LEMMA SweepStepOf ==
  ASSUME TypeOK, JobOK, Exclusive, DockerUser, ~Busy, ~raced,
         \A q \in Procs : SweepsAt(q) /\ SweptAt(q),
         NEW p \in Procs, Step(p)
  PROVE  \A q \in Procs : SweepsAt(q)' /\ SweptAt(q)'
<1>1. Moved(p) /\ JobAt(p) /\ Active(p)
  BY StepMoves DEF JobOK, Moved, Active
<1>2. ASSUME NEW q \in Procs, q # p, pc[q] = "idle"
      PROVE  SweepsAt(q)' /\ SweptAt(q)'
  BY <1>1, <1>2 DEF Moved, SweepsAt, SweptAt, RevertPC, SweptPC
<1>3. ASSUME job[p] \notin Harmless
      PROVE  \A q \in Procs \ {p} : SweepsAt(q)' /\ SweptAt(q)'
  BY <1>1, <1>2, <1>3, Alone
<1>4. CASE Script(p)
  <2>1. job[p] \notin Harmless
    BY <1>1, <1>4 DEF JobAt, Harmless, Script, Flush, Fill, Close, Hook, Swap4, Swap6,
       EndOfFile, ScriptFails, ScriptPC
  <2>2. SweepsAt(p)' /\ SweptAt(p)'
    BY <1>4, ScriptGoes, EarlierChains DEF SweepsAt, SweptAt, ScriptPC, RevertPC, SweptPC
  <2>3. QED BY <1>3, <2>1, <2>2
<1>5. CASE RevertStep(p)
  <2>1. SweepsAt(p)' /\ SweptAt(p)'
    BY <1>1, <1>5, RevertSweepsOn
  <2>2. Shrinks
    BY <1>5, RevertShrinks
  <2>3. owner' \in {owner, "nobody"} /\ UNCHANGED <<enabled, unit>>
    BY <1>5 DEF RevertStep, Unhook, Clear, Delete, history, systemd
  <2>4. AllStock => AllStock'
    <3>1. chain' \in [Chains -> ChainState]
      BY <1>5, UnhookDoes, ClearDoes, DeleteDoes DEF RevertStep, Touches
    <3>2. QED BY <2>2, <3>1 DEF Shrinks, AllStock
  <2>5. \A q \in Procs \ {p} : SweepsAt(q)' /\ SweptAt(q)'
    BY <1>1, <2>2, <2>3, <2>4, SweptBystander
  <2>6. QED BY <2>1, <2>5
<1>6. CASE Others(p)
  <2>1. SweepsAt(p)' /\ SweptAt(p)'
    BY <1>1, <1>6, OthersSweptOn
  <2>2. CASE job[p] \notin Harmless
    BY <1>3, <2>1, <2>2
  <2>3. CASE UNCHANGED owner /\ (enabled' => enabled) /\ (unit' => unit)
    <3>1. UNCHANGED chain
      BY <1>1, <1>6, OthersGo
    <3>2. Shrinks /\ (AllStock => AllStock')
      BY <3>1 DEF Shrinks, AllStock, Deletable
    <3>3. \A q \in Procs \ {p} : SweepsAt(q)' /\ SweptAt(q)'
      BY <1>1, <2>3, <3>2, SweptBystander
    <3>4. QED BY <2>1, <3>3
  <2>4. QED BY <1>1, <1>6, <2>2, <2>3, OthersHarm
<1>7. QED BY <1>4, <1>5, <1>6, StepKinds

LEMMA SweepStep ==
  ASSUME TypeOK, JobOK, Exclusive, DockerUser, ~Busy, Sweep, [Next]_vars
  PROVE  Sweep'
<1> SUFFICES ASSUME ~raced'
             PROVE  \A q \in Procs : SweepsAt(q)' /\ SweptAt(q)'
  BY DEF Sweep, RevertSweeps, RevertSwept, SweepsAt, SweptAt
<1>1. ASSUME ~raced
      PROVE  \A q \in Procs : SweepsAt(q) /\ SweptAt(q)
  BY <1>1 DEF Sweep, RevertSweeps, RevertSwept, SweepsAt, SweptAt
<1>2. ASSUME NEW p \in Procs, Step(p)
      PROVE  \A q \in Procs : SweepsAt(q)' /\ SweptAt(q)'
  <2>1. ~raced
    BY <1>2, StepMoves DEF Moved, JobOK
  <2>2. QED BY <1>1, <1>2, <2>1, SweepStepOf
<1>3. ASSUME Call \/ Fire
      PROVE  \A q \in Procs : SweepsAt(q)' /\ SweptAt(q)'
  <2>1. PICK p \in Procs : Called(p)
    BY <1>3, CallsStart
  <2>2. ~raced
    BY <2>1, StartMoves DEF Called
  <2>3. UNCHANGED <<chain, enabled, unit>>
    BY <1>3, CallChain DEF Call, Fire, Recompile, ShellApply, Commit, Revert, systemd
  <2>4. SweepsAt(p)' /\ SweptAt(p)'
    BY <2>1, CalledAt, EarlierChains DEF SweepsAt, SweptAt, RevertPC, SweptPC
  <2>5. owner' = owner \/ \A q \in Procs : ~Active(q)
    <3>1. ASSUME NEW q \in Shells, NEW j \in {"apply", "safe"}, ShellApply(q, j)
          PROVE  owner' = owner \/ \A r \in Procs : ~Active(r)
      <4>1. CASE j = "safe"
        BY <3>1, <4>1 DEF ShellApply
      <4>2. CASE j = "apply"
        <5>1. Start(q, "apply", ScriptStart)
          BY <3>1, <4>2 DEF ShellApply
        <5>2. QED BY <5>1, StartMoves, NamesDistinct DEF Harmless
      <4>3. QED BY <4>1, <4>2
    <3>2. QED BY <1>3, <3>1 DEF Call, Fire, Recompile, Commit, Revert
  <2>6. ASSUME NEW q \in Procs, q # p PROVE SweepsAt(q)' /\ SweptAt(q)'
    <3>1. pc'[q] = pc[q] /\ at'[q] = at[q]
      BY <2>1, <2>6, CalledAt
    <3>2. SweepsAt(q) /\ SweptAt(q)
      BY <1>1, <2>2
    <3>3. CASE ~Active(q)
      BY <3>1, <3>3 DEF Active, SweepsAt, SweptAt, RevertPC, SweptPC
    <3>4. CASE owner' = owner
      BY <2>3, <3>1, <3>2, <3>4 DEF SweepsAt, SweptAt, AllStock, Deletable
    <3>5. QED BY <2>5, <3>3, <3>4
  <2>7. QED BY <2>4, <2>6
<1>4. ASSUME NEW p \in Callers, Kill(p)
      PROVE  \A q \in Procs : SweepsAt(q)' /\ SweptAt(q)'
  <2>1. /\ ~raced /\ UNCHANGED <<chain, enabled, unit, owner>> /\ pc'[p] = "idle"
        /\ \A q \in Procs \ {p} : pc'[q] = pc[q] /\ at'[q] = at[q]
    BY <1>4, NamesDistinct DEF Kill, Stop, TypeOK, kernel, systemd, history
  <2>2. SweepsAt(p)' /\ SweptAt(p)'
    BY <2>1 DEF SweepsAt, SweptAt, RevertPC, SweptPC
  <2>3. ASSUME NEW q \in Procs, q # p PROVE SweepsAt(q)' /\ SweptAt(q)'
    <3>1. SweepsAt(q) /\ SweptAt(q)
      BY <1>1, <2>1
    <3>2. QED BY <2>1, <2>3, <3>1 DEF SweepsAt, SweptAt, AllStock, Deletable
  <2>4. QED BY <2>2, <2>3
<1>5. CASE Timeout \/ UNCHANGED vars
  <2>1. UNCHANGED <<chain, enabled, unit, owner, raced, pc, at>>
    BY <1>5 DEF Timeout, vars, procs, kernel, systemd, history
  <2>2. QED BY <1>1, <2>1 DEF SweepsAt, SweptAt, AllStock, Deletable
<1>6. CASE Reboot
  BY <1>6 DEF Reboot, ScriptStart, SweepsAt, SweptAt, RevertPC, SweptPC
<1>7. QED BY <1>2, <1>3, <1>4, <1>5, <1>6 DEF Next, Fault
-----------------------------------------------------------------------------
(* The dead-man of a trial.                                                *)

Net == \/ timer = "armed" \/ Active(Deadman)
       \/ \E p \in Callers : pc[p] = "arm_run"

LEMMA NetStepOf ==
  ASSUME TypeOK, JobOK, DockerUser, ~Busy, "arm_fails" \notin Faults, ~raced,
         \A q \in Procs : SweepsAt(q) /\ SweptAt(q),
         owner = "trial" => Net,
         NEW p \in Procs, Step(p), owner' = "trial"
  PROVE  Net'
<1> USE DEF history, systemd
<1>1. Moved(p) /\ JobAt(p)
  BY StepMoves DEF JobOK
<1>2. CASE ArmRun(p)
  <2>1. p # Deadman /\ timer \in {"armed", "inactive"}
    BY <1>1, <1>2 DEF ArmRun, JobAt, TypeOK
  <2>2. CASE timer' = "armed"
    BY <2>2 DEF Net
  <2>3. CASE ~NameFree /\ UNCHANGED timer
    BY <1>1, <2>1, <2>3, NamesDistinct DEF NameFree, Net, Moved, Active
  <2>4. QED BY <1>2, <2>2, <2>3 DEF ArmRun
<1>3. CASE ArmStop(p)
  <2>1. p \in Callers
    BY <1>1, <1>3 DEF ArmStop, JobAt, Procs
  <2>2. pc'[p] = "arm_run"
    BY <1>3, GotoMoves DEF ArmStop, Goto
  <2>3. QED BY <2>1, <2>2 DEF Net
<1>4. CASE RevertStep(p)
  <2>1. owner = "trial" /\ UNCHANGED timer
    BY <1>4 DEF RevertStep, Unhook, Clear, Delete
  <2>2. pc'[p] # "idle"
    BY <1>1, <1>4, RevertSweepsOn
  <2>3. pc[p] # "arm_run"
    BY <1>4 DEF RevertStep, Unhook, Clear, Delete
  <2>4. QED BY <1>1, <2>1, <2>2, <2>3, NamesDistinct DEF Net, Moved, Active
<1>5. CASE Step(p) /\ ~ArmRun(p) /\ ~ArmStop(p) /\ ~RevertStep(p)
  <2>1. owner = "trial" /\ pc[p] # "arm_run" /\ p # Deadman
    <3>1. owner = "trial"
      BY <1>5 DEF Step, Recompiled, Script, Flush, Fill, Close,
         Hook, Swap4, Swap6, EndOfFile, ScriptFails, FailStop, RevertStep, CommitStop,
         CommitWrite, CommitEnable, RevertDisable, RevertRemove, Exit, Owners
    <3>2. pc[p] # "arm_run"
      BY <1>5 DEF Step, Recompiled, Script, Flush, Fill, Close,
         Hook, Swap4, Swap6, EndOfFile, ScriptFails, FailStop, RevertStep, CommitStop,
         CommitWrite, CommitEnable, RevertDisable, RevertRemove, Exit, ScriptPC, ExitPC
    <3>3. p # Deadman
      <4>1. Script(p) => pc[p] \in ScriptPC
        BY DEF Script, Flush, Fill, Close, Hook, Swap4, Swap6, EndOfFile, ScriptFails, ScriptPC
      <4>2. ~Script(p) => pc[p] \in ExitPC \cup {"writing", "fail_stop", "c_stop", "c_write",
                                                 "c_enable", "r_disable", "r_rm"}
        BY <1>5 DEF Step, Recompiled, FailStop, RevertStep, CommitStop,
           CommitWrite, CommitEnable, RevertDisable, RevertRemove, Exit
      <4>3. QED BY <1>1, <4>1, <4>2, NamesDistinct DEF JobAt, ExitPC
    <3>4. QED BY <3>1, <3>2, <3>3
  <2>2. timer' = timer
    <3>1. ~FailStop(p)
      BY <2>1 DEF FailStop, SweptAt, SweptPC
    <3>2. ~CommitStop(p)
      BY <2>1 DEF CommitStop
    <3>3. QED
      BY <1>5, <3>1, <3>2 DEF Step, Recompiled, Script, Flush, Fill, Close,
         Hook, Swap4, Swap6, EndOfFile, ScriptFails, RevertStep,
         CommitWrite, CommitEnable, RevertDisable, RevertRemove, Exit
  <2>3. QED BY <1>1, <2>1, <2>2, NamesDistinct DEF Net, Moved, Active
<1>6. QED BY <1>2, <1>3, <1>4, <1>5

LEMMA NetStep ==
  ASSUME TypeOK, JobOK, DockerUser, Sweep, SafetyNet, ~Busy,
         Faults \cap {"arm_fails", "killed_arming"} = {}, [Next]_vars
  PROVE  SafetyNet'
<1> SUFFICES ASSUME owner' = "trial", ~raced' PROVE Net'
  BY DEF SafetyNet, Net
<1>1. ASSUME ~raced
      PROVE  (owner = "trial" => Net) /\ \A q \in Procs : SweepsAt(q) /\ SweptAt(q)
  BY <1>1 DEF Sweep, RevertSweeps, RevertSwept, SweepsAt, SweptAt, SafetyNet, Net
<1>2. ASSUME NEW p \in Procs, Step(p) PROVE Net'
  <2>1. ~raced
    BY <1>2, StepMoves DEF Moved, JobOK
  <2>2. QED BY <1>1, <1>2, <2>1, NetStepOf
<1>3. CASE Fire
  BY <1>3, NamesDistinct DEF Fire, Start, TypeOK, Net, Active
<1>4. CASE Call
  <2>1. PICK p \in Procs : Called(p)
    BY <1>4, CallsStart
  <2>2. ~raced /\ owner = "trial" /\ timer' = timer
    <3>1. ~raced
      BY <2>1, StartMoves DEF Called
    <3>2. owner = "trial" /\ timer' = timer
      BY <1>4 DEF Call, Recompile, ShellApply, Commit, Revert, systemd
    <3>3. QED BY <3>1, <3>2
  <2>3. /\ pc[p] = "idle" /\ pc'[p] # "idle"
        /\ \A q \in Procs \ {p} : pc'[q] = pc[q]
    BY <2>1, CalledAt
  <2>4. QED BY <1>1, <2>2, <2>3, NamesDistinct DEF Net, Active
<1>5. ASSUME NEW p \in Callers, Kill(p) PROVE Net'
  <2>1. /\ ~raced /\ owner = "trial" /\ timer' = timer /\ pc[p] # "arm_run"
        /\ \A q \in Procs \ {p} : pc'[q] = pc[q]
    BY <1>5, NamesDistinct DEF Kill, Stop, TypeOK, systemd, history
  <2>2. QED BY <1>1, <2>1, NamesDistinct DEF Net, Active
<1>6. CASE Timeout \/ UNCHANGED vars
  <2>1. UNCHANGED <<timer, owner, raced, pc>>
    BY <1>6 DEF Timeout, vars, procs, systemd, history
  <2>2. QED BY <1>1, <2>1 DEF Net, Active
<1>7. CASE Reboot
  BY <1>7 DEF Reboot
<1>8. QED BY <1>2, <1>3, <1>4, <1>5, <1>6, <1>7 DEF Next, Fault

-----------------------------------------------------------------------------

SweepInv == OrderInv /\ DockerUser /\ Sweep

LEMMA SweepInit == Init => DockerUser /\ Sweep
<1> SUFFICES ASSUME Init PROVE DockerUser /\ Sweep
  OBVIOUS
<1>1. \A p \in Procs : pc[p] = "idle"
  BY DEF Init
<1>2. DockerUser
  BY <1>1 DEF Init, Stock, DockerUser, Chains
<1>3. Sweep
  BY <1>1 DEF Sweep, RevertSweeps, RevertSwept, RevertPC, SweptPC
<1>4. QED BY <1>2, <1>3

\* The inductive invariant of this module.
LEMMA SweepInvariant ==
  ASSUME ~Busy
  PROVE  Spec => []SweepInv
<1>1. Init /\ OrderInv => SweepInv
  BY SweepInit DEF SweepInv
<1>2. SweepInv /\ [Next]_vars /\ OrderInv' => SweepInv'
  BY DockerStep, SweepStep DEF SweepInv, OrderInv
<1>3. QED BY <1>1, <1>2, OrderInvariant, PTL DEF Spec

(***************************************************************************)
(* Rules on trial have a dead-man, whatever is killed (but for the engine  *)
(* between stopping the old timer and starting the new one), timed out or  *)
(* rebooted, if systemd-run and the calls of revert() succeed.             *)
(***************************************************************************)
THEOREM TrialIsCovered ==
  ASSUME ~Busy, Faults \cap {"arm_fails", "killed_arming"} = {}
  PROVE  Spec => []SafetyNet
<1>1. Init => SafetyNet
  BY DEF Init, SafetyNet
<1>2. SweepInv /\ SafetyNet /\ [Next]_vars => SafetyNet'
  BY NetStep DEF SweepInv, OrderInv
<1>3. QED BY <1>1, <1>2, SweepInvariant, PTL DEF Spec

(***************************************************************************)
(* "firewall is OFF" is true when a failed apply says so.                  *)
(***************************************************************************)
THEOREM FailedIsOff ==
  ASSUME ~Busy
  PROVE  Spec => []FailedApplyIsOff
<1>1. SweepInv => FailedApplyIsOff
  BY DEF SweepInv, Sweep, RevertSwept, SweptPC, FailedApplyIsOff
<1>2. QED BY <1>1, SweepInvariant, PTL

(***************************************************************************)
(* revert leaves stock chains and no boot unit.                            *)
(***************************************************************************)
THEOREM RevertLeavesNothing ==
  ASSUME ~Busy
  PROVE  Spec => []RevertIsFinal
<1>1. SweepInv => RevertIsFinal
  BY DEF SweepInv, Sweep, RevertSwept, SweptPC, RevertIsFinal
<1>2. QED BY <1>1, SweepInvariant, PTL
-----------------------------------------------------------------------------
(* From here on nothing is assumed of the faults: a call that finds the    *)
(* xtables lock taken ends the script, and what revert() then leaves is    *)
(* not reported as applied.                                                *)


\* A process whose script runs, or has run to its end.
LivePC == ScriptPC \cup {"applied"}

LEMMA ChainNames ==
  /\ Chains = {"ZFW-IN", "DOCKER-USER", "ZFW-IN6", "ZFW-OUT"}
  /\ After("ZFW-IN") = "DOCKER-USER" /\ After("DOCKER-USER") = "ZFW-IN6"
  /\ After("ZFW-IN6") = "ZFW-OUT" /\ After("ZFW-OUT") = NoChain
  /\ NoChain \notin Chains
BY EngineAssumption DEF Chains, After

LEMMA BeforeChains ==
  /\ Before("ZFW-IN") = {} /\ Before("DOCKER-USER") = {"ZFW-IN"}
  /\ Before("ZFW-IN6") = {"ZFW-IN", "DOCKER-USER"}
  /\ Before("ZFW-OUT") = {"ZFW-IN", "DOCKER-USER", "ZFW-IN6"}
  /\ \A c \in Chains : Before(c) \subseteq Chains /\ c \notin Before(c)
BY ChainNames DEF Before

\* Nobody else's script is under way, or waits for its report, while p is at work.
LEMMA NoOtherScript ==
  ASSUME TypeOK, JobOK, Exclusive, ~raced,
         NEW p \in Procs, NEW q \in Procs, p # q, Active(p)
  PROVE  pc[q] \notin LivePC
<1> SUFFICES ASSUME pc[q] \in LivePC PROVE FALSE
  OBVIOUS
<1>1. Active(q) /\ job[q] \notin Harmless
  BY DEF LivePC, Active, JobOK, JobAt, ScriptPC, Harmless
<1>2. QED BY <1>1 DEF Exclusive

LEMMA ScriptAt ==
  ASSUME NEW p \in Procs, Script(p)
  PROVE  pc[p] \in ScriptPC /\ compiled' = compiled
BY DEF Script, Flush, Fill, Close, Hook, Swap4, Swap6, EndOfFile, ScriptFails, ScriptPC

\* A script begins with its first command, and only a script ends in "applied".
Begins(p) == pc'[p] \in LivePC => pc'[p] = ScriptStart /\ at'[p] = "ZFW-IN"

LEMMA OthersBegin ==
  ASSUME TypeOK, NEW p \in Procs, JobAt(p), Step(p), ~Script(p)
  PROVE  Begins(p)
<1> USE DEF history, JobAt, Begins, LivePC, ScriptPC
<1>1. CASE p = Daemon /\ \E r \in RuleSets : Recompiled(r)
  <2>1. pc[p] = "writing" /\ raced' = raced /\ job[p] \in {"compile", "apply", "safe"}
    BY <1>1 DEF Recompiled
  <2>2. \/ Goto(p, "arm_stop") \/ Goto(p, ScriptStart) \/ Stop(p)
    BY <1>1, <2>1 DEF Recompiled
  <2>3. ScriptStart # "idle"
    BY DEF ScriptStart
  <2>4. QED BY <2>1, <2>2, <2>3, GotoMoves, StopMoves DEF Goto
<1>2. CASE ArmRun(p)
  <2>1. ScriptStart # "idle"
    BY DEF ScriptStart
  <2>2. QED BY <1>2, <2>1, GotoMoves DEF ArmRun, Goto
<1>3. CASE Unhook(p)
  BY <1>3, GotoMoves DEF Unhook
<1>4. CASE Clear(p)
  BY <1>4, NextRevertMoves, GotoMoves DEF Clear
<1>5. CASE Delete(p)
  BY <1>5, NextRevertMoves DEF Delete
<1>6. CASE ArmStop(p) \/ FailStop(p) \/ CommitStop(p) \/ CommitWrite(p)
           \/ RevertDisable(p) \/ RevertRemove(p)
  BY <1>6, GotoMoves DEF ArmStop, FailStop, CommitStop, CommitWrite,
       RevertDisable, RevertRemove, Goto
<1>7. CASE CommitEnable(p)
  BY <1>7, GotoMoves, StopMoves DEF CommitEnable, Goto
<1>8. CASE Exit(p)
  BY <1>8, StopMoves DEF Exit, ExitPC
<1>9. QED BY <1>1, <1>2, <1>3, <1>4, <1>5, <1>6, <1>7, <1>8 DEF Step

LEMMA CallBegins ==
  ASSUME TypeOK, NEW p \in Procs, Called(p)
  PROVE  Begins(p)
<1>1. at'[p] = "ZFW-IN"
  BY CalledAt
<1>2. pc'[p] \in {"writing", "arm_stop", ScriptStart, "c_stop", "unhook"}
  BY DEF TypeOK, Called, Start
<1>3. QED BY <1>1, <1>2 DEF Begins, LivePC, ScriptPC

\* No call, and no dead-man, starts while another one's script is under way.
LEMMA CallFindsNoScript ==
  ASSUME TypeOK, JobOK, NEW p \in Procs, Called(p), ~raced',
         NEW q \in Procs, q # p
  PROVE  pc[q] \notin LivePC
<1> SUFFICES ASSUME pc[q] \in LivePC PROVE FALSE
  OBVIOUS
<1>1. Active(q) /\ job[q] \notin Harmless
  BY DEF LivePC, Active, JobOK, JobAt, ScriptPC, Harmless
<1>2. ASSUME NEW j, NEW l, Start(p, j, l) PROVE FALSE
  BY <1>1, <1>2, StartMoves
<1>3. QED BY <1>2 DEF Called

\* Where a block of the script leads.
LEMMA NextBlockLeads ==
  ASSUME TypeOK, NEW p \in Procs, pc[p] # "idle", raced' = raced,
         NEW c, NEW l \in {"flush", "hook"}, NextBlock(p, c, l)
  PROVE  \/ HasBlock(c) /\ pc'[p] = l /\ at'[p] = c
         \/ ~HasBlock(c) /\ pc'[p] \in {"idle", "applied"}
BY GotoMoves, ScriptExitMoves DEF NextBlock
-----------------------------------------------------------------------------
(* Each rendering of the script has its own commands.                      *)

Foreign == IF Mode = "bash" THEN {"swap4", "swap6"} ELSE {"flush", "fill", "close"}

LEMMA ForeignCommands ==
  /\ ScriptStart \notin Foreign /\ Foreign \subseteq ScriptPC
  /\ "idle" \notin Foreign /\ "hook" \notin Foreign /\ "applied" \notin Foreign
  /\ "unhook" \notin Foreign
BY DEF Foreign, ScriptStart, ScriptPC

LEMMA ScriptMode ==
  ASSUME TypeOK, NEW p \in Procs, pc[p] \notin Foreign, Script(p)
  PROVE  pc'[p] \notin Foreign
<1> USE DEF history
<1>1. raced' = raced /\ pc[p] # "idle"
  BY DEF Script, Flush, Fill, Close, Hook, Swap4, Swap6, EndOfFile, ScriptFails, ScriptPC
<1>2. CASE Flush(p)
  BY <1>1, <1>2, GotoMoves DEF Flush, Foreign
<1>3. CASE Fill(p)
  BY <1>1, <1>3, GotoMoves DEF Fill, Foreign
<1>4. CASE Close(p)
  BY <1>1, <1>4, GotoMoves, NextBlockMoves DEF Close, Foreign
<1>5. CASE Hook(p)
  <2> DEFINE l == IF Mode = "bash" THEN "flush" ELSE "hook"
  <2>1. NextBlock(p, AfterHook(at[p]), l) /\ l \in {"flush", "hook"} /\ l \notin Foreign
    BY <1>5 DEF Hook, Foreign
  <2> HIDE DEF l
  <2>2. pc'[p] \in {"idle", "applied", l}
    BY <1>1, <2>1, NextBlockMoves
  <2>3. QED BY <2>1, <2>2, ForeignCommands
<1>6. CASE Swap4(p)
  BY <1>1, <1>6, GotoMoves DEF Swap4, Goto, Foreign
<1>7. CASE Swap6(p)
  BY <1>1, <1>7, GotoMoves DEF Swap6, Goto, Foreign
<1>8. CASE EndOfFile(p)
  BY <1>1, <1>8, ScriptExitMoves, ForeignCommands DEF EndOfFile
<1>9. CASE ScriptFails(p)
  BY <1>1, <1>9, GotoMoves, StopMoves, ForeignCommands DEF ScriptFails, Goto
<1>10. QED BY <1>2, <1>3, <1>4, <1>5, <1>6, <1>7, <1>8, <1>9 DEF Script

LEMMA ModeStep ==
  ASSUME TypeOK, JobOK, ModeOK, [Next]_vars
  PROVE  ModeOK'
<1>1. \A q \in Procs : pc[q] \notin Foreign
  BY DEF ModeOK, Foreign
<1> SUFFICES \A q \in Procs : pc'[q] \notin Foreign
  BY DEF ModeOK, Foreign
<1>2. ASSUME NEW p \in Procs, Begins(p) PROVE pc'[p] \notin Foreign
  BY <1>2, ForeignCommands DEF Begins, LivePC
<1>3. ASSUME NEW p \in Procs, Step(p) PROVE \A q \in Procs : pc'[q] \notin Foreign
  <2>1. Moved(p) /\ JobAt(p)
    BY <1>3, StepMoves DEF JobOK
  <2>2. pc'[p] \notin Foreign
    BY <1>1, <1>2, <1>3, <2>1, ScriptMode, OthersBegin
  <2>3. QED BY <1>1, <2>1, <2>2 DEF Moved
<1>4. ASSUME Call \/ Fire PROVE \A q \in Procs : pc'[q] \notin Foreign
  <2>1. PICK p \in Procs : Called(p)
    BY <1>4, CallsStart
  <2>2. QED BY <1>1, <1>2, <2>1, CallBegins, CalledAt
<1>5. ASSUME NEW p \in Callers, Kill(p) PROVE \A q \in Procs : pc'[q] \notin Foreign
  BY <1>1, <1>5, NamesDistinct, ForeignCommands DEF Kill, Stop, TypeOK
<1>6. CASE Timeout \/ UNCHANGED vars
  BY <1>1, <1>6 DEF Timeout, vars, procs
<1>7. CASE Reboot
  BY <1>7, ForeignCommands DEF Reboot
<1>8. QED BY <1>3, <1>4, <1>5, <1>6, <1>7 DEF Next, Fault
-----------------------------------------------------------------------------
(* The boot unit.                                                          *)

\* The unit that an enabled boot unit needs, and the command that removes it.
UnitOf == (enabled => unit) /\ \A p \in Procs : pc[p] = "r_rm" => ~enabled

LEMMA UnitStepOf ==
  ASSUME TypeOK, JobOK, Exclusive, ~raced, UnitOf, NEW p \in Procs, Step(p)
  PROVE  UnitOf'
<1> USE DEF systemd, history
<1>1. Moved(p) /\ JobAt(p) /\ Active(p)
  BY StepMoves DEF JobOK, Moved, Active
<1>2. pc'[p] = "r_rm" => RevertDisable(p)
  <2>1. CASE Script(p)
    BY <2>1, ScriptGoes DEF ScriptPC
  <2>2. CASE RevertStep(p)
    <3>1. CASE Unhook(p)
      BY <3>1, GotoMoves DEF Unhook
    <3>2. CASE Clear(p)
      BY <3>2, GotoMoves, NextRevertMoves DEF Clear
    <3>3. CASE Delete(p)
      BY <3>3, NextRevertMoves DEF Delete
    <3>4. QED BY <2>2, <3>1, <3>2, <3>3 DEF RevertStep
  <2>3. CASE Others(p)
    BY <1>1, <2>3, OthersGo DEF SweptPC
  <2>4. QED BY <2>1, <2>2, <2>3, StepKinds
<1>3. CASE CommitWrite(p)
  BY <1>1, <1>2, <1>3 DEF CommitWrite, UnitOf, Moved, RevertDisable
<1>4. CASE CommitEnable(p)
  <2>1. job[p] = "commit"
    BY <1>1, <1>4 DEF CommitEnable, JobAt
  <2>2. \A q \in Procs \ {p} : pc[q] = "idle"
    BY <1>1, <2>1, Alone DEF Harmless
  <2>3. pc[p] = "c_enable"
    BY <1>4 DEF CommitEnable
  <2>4. \A q \in Procs : pc'[q] # "r_rm"
    BY <1>1, <1>2, <2>2, <2>3 DEF Moved, RevertDisable
  <2>5. enabled' => unit'
    BY <1>4 DEF CommitEnable, UnitOf
  <2>6. QED BY <2>4, <2>5 DEF UnitOf
<1>5. CASE RevertDisable(p)
  BY <1>5 DEF RevertDisable, UnitOf
<1>6. CASE RevertRemove(p)
  BY <1>1, <1>2, <1>6 DEF RevertRemove, UnitOf, Moved, RevertDisable
<1>7. CASE ~CommitWrite(p) /\ ~CommitEnable(p) /\ ~RevertDisable(p) /\ ~RevertRemove(p)
  <2>1. UNCHANGED <<unit, enabled>>
    BY <1>7 DEF Step, Recompiled, ArmStop, ArmRun, Script, Flush, Fill, Close,
       Hook, Swap4, Swap6, EndOfFile, ScriptFails, Unhook, Clear, Delete, FailStop,
       CommitStop, Exit
  <2>2. QED BY <1>1, <1>2, <1>7, <2>1 DEF UnitOf, Moved
<1>8. QED BY <1>3, <1>4, <1>5, <1>6, <1>7

LEMMA UnitStep ==
  ASSUME TypeOK, JobOK, Exclusive, UnitFirst, [Next]_vars
  PROVE  UnitFirst'
<1> SUFFICES ASSUME ~raced' PROVE UnitOf'
  BY DEF UnitFirst, UnitOf
<1> USE DEF systemd, history
<1>1. ASSUME ~raced PROVE UnitOf
  BY <1>1 DEF UnitFirst, UnitOf
<1>2. ASSUME NEW p \in Procs, Step(p) PROVE UnitOf'
  <2>1. ~raced
    BY <1>2, StepMoves DEF Moved, JobOK
  <2>2. QED BY <1>1, <1>2, <2>1, UnitStepOf
<1>3. ASSUME Call \/ Fire PROVE UnitOf'
  <2>1. PICK p \in Procs : Called(p)
    BY <1>3, CallsStart
  <2>2. ~raced
    BY <2>1, StartMoves DEF Called
  <2>3. UNCHANGED <<unit, enabled>>
    BY <1>3 DEF Call, Fire, Recompile, ShellApply, Commit, Revert
  <2>4. \A q \in Procs : pc'[q] = "r_rm" => pc[q] = "r_rm"
    BY <2>1, CalledAt
  <2>5. QED BY <1>1, <2>2, <2>3, <2>4 DEF UnitOf
<1>4. ASSUME NEW p \in Callers, Kill(p) PROVE UnitOf'
  BY <1>1, <1>4, NamesDistinct DEF Kill, Stop, TypeOK, UnitOf
<1>5. CASE Timeout \/ UNCHANGED vars
  <2>1. UNCHANGED <<unit, enabled, raced, pc>>
    BY <1>5 DEF Timeout, vars, procs
  <2>2. QED BY <1>1, <2>1 DEF UnitOf
<1>6. CASE Reboot
  BY <1>1, <1>6 DEF Reboot, ScriptStart, UnitOf
<1>7. QED BY <1>2, <1>3, <1>4, <1>5, <1>6 DEF Next, Fault
-----------------------------------------------------------------------------
(* What each command of the script does to its chain.                      *)

LEMMA FlushDoes ==
  ASSUME TypeOK, NEW p \in Procs, Flush(p)
  PROVE  /\ Touches(p)
         /\ chain'[at[p]].present = TRUE /\ chain'[at[p]].rules = {}
         /\ chain'[at[p]].closed = FALSE
         /\ chain'[at[p]].hooked = chain[at[p]].hooked
         /\ pc'[p] = "fill" /\ at'[p] = at[p]
<1> DEFINE s == [chain[at[p]] EXCEPT !.present = TRUE, !.rules = {}, !.closed = FALSE]
<1>1. at[p] \in Chains /\ chain[at[p]] \in ChainState /\ chain \in [Chains -> ChainState]
  BY DEF TypeOK
<1>2. chain' = [chain EXCEPT ![at[p]] = s]
  BY DEF Flush
<1>3. /\ s \in ChainState /\ s.present = TRUE /\ s.rules = {} /\ s.closed = FALSE
      /\ s.hooked = chain[at[p]].hooked
  BY <1>1 DEF ChainState
<1>4. pc'[p] = "fill" /\ at'[p] = at[p]
  BY GotoMoves DEF Flush, history
<1> HIDE DEF s
<1>5. QED BY <1>1, <1>2, <1>3, <1>4 DEF Touches

LEMMA FillDoes ==
  ASSUME TypeOK, NEW p \in Procs, Fill(p), Lines(at[p], {}, FALSE)
  PROVE  /\ Touches(p)
         /\ chain'[at[p]].present /\ chain'[at[p]].rules = {compiled}
         /\ chain'[at[p]].closed = FALSE
         /\ pc'[p] = "close" /\ at'[p] = at[p]
<1> DEFINE s == [chain[at[p]] EXCEPT !.rules = {compiled}]
<1>1. /\ at[p] \in Chains /\ chain[at[p]] \in ChainState /\ chain \in [Chains -> ChainState]
      /\ compiled \in RuleSets
  BY DEF TypeOK, Fill
<1>2. chain' = [chain EXCEPT ![at[p]] = s]
  BY <1>1 DEF Fill, Lines, ChainState
<1>3. /\ s \in ChainState /\ s.present /\ s.rules = {compiled} /\ s.closed = FALSE
  BY <1>1 DEF ChainState, Lines
<1>4. pc'[p] = "close" /\ at'[p] = at[p]
  BY GotoMoves DEF Fill, history
<1> HIDE DEF s
<1>5. QED BY <1>1, <1>2, <1>3, <1>4 DEF Touches

LEMMA CloseDoes ==
  ASSUME TypeOK, NEW p \in Procs, Close(p), Lines(at[p], {compiled}, FALSE)
  PROVE  Touches(p) /\ \A c \in Chains : c = at[p] => Filled(c)'
<1> DEFINE s == [chain[at[p]] EXCEPT !.closed = TRUE]
<1>1. at[p] \in Chains /\ chain[at[p]] \in ChainState /\ chain \in [Chains -> ChainState]
  BY DEF TypeOK
<1>2. chain' = [chain EXCEPT ![at[p]] = s] /\ compiled' = compiled
  BY DEF Close
<1>3. /\ s \in ChainState /\ s.present = chain[at[p]].present
      /\ s.rules = chain[at[p]].rules /\ s.closed = TRUE
  BY <1>1 DEF ChainState
<1> HIDE DEF s
<1>4. Touches(p) /\ chain'[at[p]] = s
  BY <1>1, <1>2, <1>3 DEF Touches
<1>5. QED BY <1>2, <1>3, <1>4 DEF Filled, Lines

LEMMA HookDoes ==
  ASSUME TypeOK, NEW p \in Procs, Hook(p)
  PROVE  /\ Touches(p) /\ compiled' = compiled
         /\ chain'[at[p]].present = chain[at[p]].present
         /\ chain'[at[p]].rules = chain[at[p]].rules
         /\ chain'[at[p]].closed = chain[at[p]].closed
         /\ chain'[at[p]].hooked = TRUE
<1> DEFINE s == [chain[at[p]] EXCEPT !.hooked = TRUE]
<1>1. at[p] \in Chains /\ chain[at[p]] \in ChainState /\ chain \in [Chains -> ChainState]
  BY DEF TypeOK
<1>2. chain' = [chain EXCEPT ![at[p]] = s] /\ compiled' = compiled
  BY DEF Hook
<1>3. /\ s \in ChainState /\ s.present = chain[at[p]].present
      /\ s.rules = chain[at[p]].rules /\ s.closed = chain[at[p]].closed /\ s.hooked = TRUE
  BY <1>1 DEF ChainState
<1> HIDE DEF s
<1>4. QED BY <1>1, <1>2, <1>3 DEF Touches

\* One call of iptables-restore fills the chains of its document, no others.
LEMMA RestoreDoes ==
  ASSUME NEW cs, chain' = Restored(cs), compiled' = compiled
  PROVE  /\ \A c \in Chains : chain'[c].hooked = chain[c].hooked \/ c \notin cs
         /\ \A c \in Chains \cap cs : Filled(c)'
         /\ \A c \in Chains \ cs : chain'[c] = chain[c]
BY DEF Restored, Filled, Lines

\* The chains that have a block are those of the two documents.
LEMMA BlocksAreSwapped ==
  \A c \in Chains : HasBlock(c) <=> c \in V4Chains \/ c \in V6Chains
BY ChainNames DEF HasBlock, V4Chains, V6Chains
-----------------------------------------------------------------------------
(* The script writes chain after chain.                                    *)

\* A command leaves the chains alone that it does not work on.
LEMMA OthersKept ==
  ASSUME NEW p \in Procs, Touches(p), compiled' = compiled, NEW c \in Chains, c # at[p]
  PROVE  (Whole(c) => Whole(c)') /\ (Filled(c) => Filled(c)')
<1>1. chain'[c] = chain[c]
  BY DEF Touches
<1>2. QED BY <1>1 DEF Whole, Filled, Lines

LEMMA FlushWrites ==
  ASSUME TypeOK, NEW p \in Procs, WrittenBy(p), Flush(p)
  PROVE  WrittenBy(p)'
<1>1. \A c \in Before(at[p]) : c \in Chains /\ c # at[p] /\ Whole(c)
  BY BeforeChains DEF TypeOK, WrittenBy, Flush
<1>2. compiled' = compiled
  BY DEF Flush
<1>3. Touches(p) /\ pc'[p] = "fill" /\ at'[p] = at[p]
  BY FlushDoes
<1>4. \A c \in Before(at[p]) : Whole(c)'
  BY <1>1, <1>2, <1>3, OthersKept
<1>5. Lines(at[p], {}, FALSE)'
  BY <1>3, FlushDoes DEF Lines
<1>6. QED BY <1>3, <1>4, <1>5 DEF WrittenBy

LEMMA FillWrites ==
  ASSUME TypeOK, NEW p \in Procs, WrittenBy(p), Fill(p)
  PROVE  WrittenBy(p)'
<1>1. /\ \A c \in Before(at[p]) : c \in Chains /\ c # at[p] /\ Whole(c)
      /\ Lines(at[p], {}, FALSE)
  BY BeforeChains DEF TypeOK, WrittenBy, Fill
<1>2. compiled' = compiled
  BY DEF Fill
<1>3. Touches(p)
  BY <1>1, FillDoes
<1>4. \A c \in Before(at[p]) : Whole(c)'
  BY <1>1, <1>2, <1>3, OthersKept
<1>5. Lines(at[p], {compiled}, FALSE)'
  BY <1>1, <1>2, FillDoes DEF Lines
<1>6. pc'[p] = "close" /\ at'[p] = at[p]
  BY <1>1, FillDoes
<1>7. QED BY <1>4, <1>5, <1>6 DEF WrittenBy

LEMMA CloseWrites ==
  ASSUME TypeOK, DockerUser, NEW p \in Procs, pc[p] \notin Foreign, WrittenBy(p), Close(p),
         DockerIn'
  PROVE  WrittenBy(p)'
<1>1. /\ \A c \in Before(at[p]) : c \in Chains /\ c # at[p] /\ Whole(c)
      /\ Lines(at[p], {compiled}, FALSE) /\ at[p] \in Chains
  BY BeforeChains DEF TypeOK, WrittenBy, Close
<1>2. compiled' = compiled /\ pc[p] = "close" /\ raced' = raced
  BY DEF Close, history
<1>3. Touches(p) /\ \A c \in Chains : c = at[p] => Filled(c)'
  BY <1>1, CloseDoes
<1>4. \A c \in Before(at[p]) : Whole(c)'
  BY <1>1, <1>2, <1>3, OthersKept
<1>5. Mode # "restore"
  BY <1>2 DEF Foreign
<1>6. CASE at[p] # "DOCKER-USER"
  <2>1. pc'[p] = "hook" /\ at'[p] = at[p]
    BY <1>2, <1>6, GotoMoves DEF Close
  <2>2. QED BY <1>1, <1>3, <1>4, <1>5, <2>1 DEF WrittenBy
<1>7. CASE at[p] = "DOCKER-USER"
  <2>1. NextBlock(p, "ZFW-IN6", "flush") /\ HasBlock("ZFW-IN6")
    BY <1>7, ChainNames DEF Close, HasBlock
  <2>2. pc'[p] = "flush" /\ at'[p] = "ZFW-IN6"
    BY <1>2, <2>1, NextBlockLeads
  <2>3. Whole("DOCKER-USER")'
    BY <1>1, <1>3, <1>7 DEF Whole, DockerIn
  <2>4. \A c \in Before("ZFW-IN6") : Whole(c)'
    BY <1>4, <1>7, <2>3, BeforeChains
  <2>5. QED BY <2>2, <2>4 DEF WrittenBy
<1>8. QED BY <1>6, <1>7

LEMMA HookWrites ==
  ASSUME TypeOK, NEW p \in Procs, pc[p] \notin Foreign, WrittenBy(p), Hook(p), DockerIn'
  PROVE  WrittenBy(p)'
<1> DEFINE next == AfterHook(at[p])
           l == IF Mode = "bash" THEN "flush" ELSE "hook"
<1>1. /\ \A c \in Before(at[p]) : c \in Chains /\ c # at[p] /\ Whole(c)
      /\ Filled(at[p]) /\ at[p] \in Chains
      /\ Mode = "restore" => \A c \in Chains : HasBlock(c) => Filled(c)
  BY BeforeChains DEF TypeOK, WrittenBy, Hook
<1>2. compiled' = compiled /\ pc[p] = "hook" /\ raced' = raced
  BY DEF Hook, history
<1>3. Touches(p)
  BY HookDoes
<1>4. \A c \in Chains : c = at[p] => Whole(c)'
  BY <1>1, <1>2, HookDoes DEF Whole, Filled, Lines
<1>5. \A c \in Before(at[p]) : Whole(c)'
  BY <1>1, <1>2, <1>3, OthersKept
<1>6. \A c \in Chains : Filled(c) => Filled(c)'
  BY <1>2, <1>3, <1>4, OthersKept DEF Whole
<1>7. \A c \in Chains : HasBlock(c)' <=> HasBlock(c)
  BY <1>2 DEF HasBlock
<1>8. \A c \in Chains : Mode = "restore" /\ HasBlock(c) => Filled(c)'
  BY <1>1, <1>6
<1>9. /\ l \in {"flush", "hook"} /\ NextBlock(p, next, l)
      /\ l = "hook" <=> Mode = "restore"
  BY EngineAssumption DEF Hook
<1>10. \/ HasBlock(next) /\ pc'[p] = l /\ at'[p] = next
       \/ ~HasBlock(next) /\ pc'[p] \in {"idle", "applied"}
  <2> HIDE DEF next, l
  <2> QED BY <1>2, <1>9, NextBlockLeads
<1>11. ASSUME HasBlock(next) PROVE \A c \in Before(next) : Whole(c)'
  <2>1. CASE at[p] = "ZFW-IN" /\ Mode = "restore"
    <3>1. next = "ZFW-IN6"
      BY <2>1 DEF AfterHook
    <3>2. Whole("DOCKER-USER")'
      BY <1>8, <2>1, ChainNames DEF DockerIn, Whole, HasBlock
    <3>3. QED BY <1>1, <1>4, <2>1, <3>1, <3>2, BeforeChains
  <2>2. CASE ~(at[p] = "ZFW-IN" /\ Mode = "restore")
    <3>1. next = After(at[p])
      BY <2>2 DEF AfterHook
    <3>2. CASE at[p] = "ZFW-IN"
      BY <1>4, <3>1, <3>2, ChainNames, BeforeChains
    <3>3. CASE at[p] = "DOCKER-USER"
      BY <1>4, <1>5, <3>1, <3>3, ChainNames, BeforeChains
    <3>4. CASE at[p] = "ZFW-IN6"
      BY <1>4, <1>5, <3>1, <3>4, ChainNames, BeforeChains
    <3>5. CASE at[p] = "ZFW-OUT"
      BY <1>11, <3>1, <3>5, ChainNames DEF HasBlock
    <3>6. QED BY <1>1, <3>2, <3>3, <3>4, <3>5, ChainNames
  <2>3. QED BY <2>1, <2>2
<1>12. ASSUME ~HasBlock(next) PROVE \A c \in Chains : HasBlock(c) => Whole(c)'
  <2>1. CASE at[p] = "ZFW-IN6"
    <3>1. next = "ZFW-OUT"
      BY <2>1, ChainNames DEF AfterHook
    <3>2. QED BY <1>4, <1>5, <1>12, <2>1, <3>1, ChainNames, BeforeChains
  <2>2. CASE at[p] = "ZFW-OUT"
    BY <1>4, <1>5, <2>2, ChainNames, BeforeChains
  <2>3. CASE at[p] \in {"ZFW-IN", "DOCKER-USER"}
    <3>1. next \in {"DOCKER-USER", "ZFW-IN6"}
      BY <2>3, ChainNames DEF AfterHook
    <3>2. QED BY <1>12, <3>1, ChainNames DEF HasBlock
  <2>4. QED BY <1>1, <2>1, <2>2, <2>3, ChainNames
<1>13. CASE HasBlock(next)
  <2>1. pc'[p] = l /\ at'[p] = next /\ next \in Chains
    BY <1>10, <1>13 DEF HasBlock
  <2>2. l = "hook" => \A c \in Chains : c = next => Filled(c)'
    BY <1>8, <1>9, <1>13, <2>1
  <2> HIDE DEF next, l
  <2>3. QED BY <1>7, <1>8, <1>9, <1>11, <1>13, <2>1, <2>2 DEF WrittenBy
<1>14. CASE ~HasBlock(next)
  <2>1. pc'[p] \in {"idle", "applied"}
    BY <1>10, <1>14
  <2>2. QED BY <1>7, <1>12, <1>14, <2>1 DEF WrittenBy
<1>15. QED BY <1>13, <1>14

LEMMA SwapWrites ==
  ASSUME TypeOK, NEW p \in Procs, WrittenBy(p), Swap4(p) \/ Swap6(p)
  PROVE  WrittenBy(p)'
<1>1. CASE Swap4(p)
  <2>1. chain' = Restored(V4Chains) /\ compiled' = compiled /\ pc'[p] = "swap6"
    BY <1>1, GotoMoves DEF Swap4, Goto, history
  <2>2. V4Chains \subseteq Chains /\ V4Chains' = V4Chains
    BY <2>1, ChainNames DEF V4Chains
  <2>3. \A c \in V4Chains : Filled(c)'
    BY <2>1, <2>2, RestoreDoes
  <2>4. QED BY <2>1, <2>2, <2>3 DEF WrittenBy
<1>2. CASE Swap6(p)
  <2>1. /\ chain' = Restored(V6Chains) /\ compiled' = compiled
        /\ pc'[p] = "hook" /\ at'[p] = "ZFW-IN"
    BY <1>2, GotoMoves DEF Swap6, Goto, history
  <2>2. \A c \in V4Chains : Filled(c)
    BY <1>2 DEF WrittenBy, Swap6
  <2>3. ASSUME NEW c \in Chains, HasBlock(c) PROVE Filled(c)'
    <3>1. CASE c \in V6Chains
      BY <2>1, <3>1, RestoreDoes
    <3>2. CASE c \notin V6Chains
      <4>1. c \in V4Chains /\ chain'[c] = chain[c]
        BY <2>1, <2>3, <3>2, RestoreDoes, BlocksAreSwapped
      <4>2. QED BY <2>1, <2>2, <4>1 DEF Filled, Lines
    <3>3. QED BY <3>1, <3>2
  <2>4. \A c \in Chains : HasBlock(c)' <=> HasBlock(c)
    BY <2>1 DEF HasBlock
  <2>5. "ZFW-IN" \in Chains /\ HasBlock("ZFW-IN")
    BY ChainNames DEF HasBlock
  <2>6. Filled("ZFW-IN")'
    BY <2>3, <2>5
  <2>7. QED BY <2>1, <2>3, <2>4, <2>6, BeforeChains DEF WrittenBy
<1>3. QED BY <1>1, <1>2

LEMMA ScriptWrites ==
  ASSUME TypeOK, DockerUser, NEW p \in Procs, pc[p] \notin Foreign, compiled \in RuleSets,
         WrittenBy(p), Script(p)
  PROVE  WrittenBy(p)'
<1>1. DockerIn'
  BY ScriptDocker DEF DockerUser, DockerIn
<1>2. CASE Flush(p)
  BY <1>2, FlushWrites
<1>3. CASE Fill(p)
  BY <1>3, FillWrites
<1>4. CASE Close(p)
  BY <1>1, <1>4, CloseWrites
<1>5. CASE Hook(p)
  BY <1>1, <1>5, HookWrites
<1>6. CASE Swap4(p) \/ Swap6(p)
  BY <1>6, SwapWrites
<1>7. CASE EndOfFile(p)
  BY <1>7, EngineAssumption DEF EndOfFile
<1>8. CASE ScriptFails(p)
  <2>1. pc'[p] \in {"idle", "unhook"}
    BY <1>8, GotoMoves, StopMoves DEF ScriptFails, Goto, ScriptPC, history
  <2>2. QED BY <2>1 DEF WrittenBy
<1>9. QED BY <1>2, <1>3, <1>4, <1>5, <1>6, <1>7, <1>8 DEF Script

\* A process that has just begun, or is not at a script, has nothing to show.
LEMMA NothingWritten ==
  ASSUME NEW p \in Procs, Begins(p)
  PROVE  WrittenBy(p)'
BY BeforeChains DEF Begins, LivePC, ScriptPC, ScriptStart, WrittenBy

LEMMA WrittenStep ==
  ASSUME TypeOK, JobOK, Exclusive, DockerUser, ModeOK, Written, [Next]_vars
  PROVE  Written'
<1> SUFFICES ASSUME ~raced', compiled' \in RuleSets
             PROVE  \A q \in Procs : WrittenBy(q)'
  BY DEF Written
<1> USE DEF history
<1>1. ASSUME NEW q \in Procs, pc[q] \notin LivePC, pc'[q] = pc[q]
      PROVE  WrittenBy(q)'
  BY <1>1, NothingWritten DEF Begins
<1>2. ASSUME NEW p \in Procs, Step(p)
      PROVE  \A q \in Procs : WrittenBy(q)'
  <2>1. Moved(p) /\ JobAt(p) /\ Active(p) /\ ~raced
    BY <1>2, StepMoves DEF JobOK, Moved, Active
  <2>2. CASE Script(p)
    <3>1. WrittenBy(p) /\ compiled \in RuleSets
      BY <2>1, <2>2, ScriptAt DEF Written
    <3>2. pc[p] \notin Foreign
      BY DEF ModeOK, Foreign
    <3>3. WrittenBy(p)'
      BY <2>2, <3>1, <3>2, ScriptWrites
    <3>4. QED BY <1>1, <2>1, <3>3, NoOtherScript DEF Moved
  <2>3. CASE ~Script(p)
    <3>1. WrittenBy(p)'
      BY <1>2, <2>1, <2>3, OthersBegin, NothingWritten
    <3>2. QED BY <1>1, <2>1, <3>1, NoOtherScript DEF Moved
  <2>4. QED BY <2>2, <2>3
<1>3. ASSUME Call \/ Fire PROVE \A q \in Procs : WrittenBy(q)'
  <2>1. PICK p \in Procs : Called(p)
    BY <1>3, CallsStart
  <2>2. WrittenBy(p)'
    BY <2>1, CallBegins, NothingWritten
  <2>3. ASSUME NEW q \in Procs, q # p PROVE WrittenBy(q)'
    BY <1>1, <2>1, <2>3, CallFindsNoScript, CalledAt
  <2>4. QED BY <2>2, <2>3
<1>4. ASSUME NEW p \in Callers, Kill(p) PROVE \A q \in Procs : WrittenBy(q)'
  <2>1. /\ p \in Procs /\ Active(p) /\ ~raced /\ pc'[p] = "idle"
        /\ \A q \in Procs \ {p} : pc'[q] = pc[q]
    BY <1>4, NamesDistinct DEF Kill, Stop, TypeOK
  <2>2. WrittenBy(p)'
    BY <2>1, NothingWritten DEF Begins, LivePC, ScriptPC
  <2>3. QED BY <1>1, <2>1, <2>2, NoOtherScript
<1>5. CASE Timeout \/ UNCHANGED vars
  <2>1. UNCHANGED <<chain, compiled, pc, at, raced>>
    BY <1>5 DEF Timeout, vars, procs, kernel
  <2>2. \A q \in Procs : WrittenBy(q)
    BY <2>1 DEF Written
  <2>3. QED BY <2>1, <2>2 DEF WrittenBy, Whole, Filled, Lines, V4Chains, HasBlock
<1>6. CASE Reboot
  <2>1. ASSUME NEW q \in Procs PROVE Begins(q)
    BY <1>6, <2>1 DEF Reboot, Begins, LivePC, ScriptPC
  <2>2. QED BY <2>1, NothingWritten
<1>7. QED BY <1>2, <1>3, <1>4, <1>5, <1>6 DEF Next, Fault
-----------------------------------------------------------------------------

ScriptInv == OrderInv /\ Order

\* The inductive invariant of this module.
LEMMA ScriptInvariant == Spec => []ScriptInv
<1>1. Init /\ OrderInv => ScriptInv
  <2> SUFFICES ASSUME Init, OrderInv PROVE Order
    BY DEF ScriptInv
  <2>1. \A p \in Procs : pc[p] = "idle"
    BY DEF Init
  <2>2. ModeOK
    BY <2>1 DEF ModeOK
  <2>3. UnitFirst
    BY <2>1 DEF UnitFirst, Init
  <2>4. Written
    BY <2>1 DEF Written, WrittenBy
  <2>5. QED BY <2>2, <2>3, <2>4, SweepInit DEF Order, OrderInv
<1>2. ScriptInv /\ [Next]_vars /\ OrderInv' => ScriptInv'
  BY DockerStep, ModeStep, UnitStep, WrittenStep DEF ScriptInv, Order, OrderInv
<1>3. QED BY <1>1, <1>2, OrderInvariant, PTL DEF Spec

(***************************************************************************)
(* When the engine reports an apply as done, every chain of the rule set   *)
(* holds its lines, no others, closes with its policy and is jumped to: in *)
(* both renderings, after every kill, retry, timeout and reboot, and       *)
(* whatever an earlier apply or revert left in the chains.                 *)
(***************************************************************************)
THEOREM AppliedMeansWhole == Spec => []AppliedIsComplete
<1>1. ScriptInv => AppliedIsComplete
  <2> SUFFICES ASSUME ScriptInv, ~raced, NEW p \in Procs,
                      pc[p] = "applied", compiled \in RuleSets,
                      NEW c \in Chains, HasBlock(c)
               PROVE  Enforced(c, compiled)
    BY DEF AppliedIsComplete
  <2>1. Whole(c)
    BY DEF ScriptInv, Order, Written, WrittenBy
  <2>2. chain[c] \in ChainState
    BY DEF ScriptInv, OrderInv, TypeOK
  <2> DEFINE t == [present |-> TRUE, rules |-> {compiled}, closed |-> TRUE, hooked |-> TRUE]
  <2>3. /\ t \in ChainState /\ t.present = TRUE /\ t.rules = {compiled}
        /\ t.closed = TRUE /\ t.hooked = TRUE
    BY DEF ChainState
  <2>4. /\ chain[c].present = TRUE /\ chain[c].rules = {compiled}
        /\ chain[c].closed = TRUE /\ chain[c].hooked = TRUE
    BY <2>1, <2>2 DEF Whole, Filled, Lines, ChainState
  <2> HIDE DEF t
  <2>5. chain[c] = t
    BY <2>2, <2>3, <2>4, SameChain
  <2>6. QED BY <2>5 DEF Enforced, t
<1>2. QED BY <1>1, ScriptInvariant, PTL

(***************************************************************************)
(* The boot unit is never enabled without its file, although commit makes  *)
(* both in two commands, revert takes both away in two, and either can be  *)
(* killed between them.                                                    *)
(***************************************************************************)
THEOREM EnabledUnitExists == Spec => []EnabledHasUnit
<1>1. ScriptInv => EnabledHasUnit
  BY DEF ScriptInv, Order, UnitFirst, EnabledHasUnit
<1>2. QED BY <1>1, ScriptInvariant, PTL

LEMMA SwapsAtOnce ==
  ASSUME Mode = "restore", TypeOK, ModeOK
  PROVE  SwapStep
<1> DEFINE Swaps == /\ \A c \in Chains : Filters(c) => Filters(c)'
                    /\ chain["ZFW-IN"].rules # chain["ZFW-IN"].rules'
                         => chain["DOCKER-USER"].rules' = chain["ZFW-IN"].rules'
<1> SUFFICES ASSUME NEW p \in Procs, Script(p) PROVE Swaps
  BY DEF SwapStep
<1>1. pc[p] \notin {"flush", "fill", "close"}
  BY DEF ModeOK
<1>2. {"ZFW-IN", "DOCKER-USER"} \subseteq Chains
  BY ChainNames
<1>3. CASE Hook(p)
  <2>1. ASSUME NEW c \in Chains
        PROVE  /\ chain'[c].rules = chain[c].rules /\ chain'[c].closed = chain[c].closed
               /\ chain[c].hooked => chain'[c].hooked
    BY <1>3, HookDoes DEF Touches
  <2>2. QED BY <1>2, <2>1 DEF Filters
<1>4. CASE Swap4(p)
  <2>1. chain' = Restored(V4Chains) /\ {"ZFW-IN", "DOCKER-USER"} \subseteq V4Chains
    BY <1>4 DEF Swap4, V4Chains
  <2>2. QED BY <1>2, <2>1 DEF Restored, Filters
<1>5. CASE Swap6(p)
  <2>1. chain' = Restored(V6Chains) /\ {"ZFW-IN", "DOCKER-USER"} \cap V6Chains = {}
    BY <1>5 DEF Swap6, V6Chains
  <2>2. QED BY <1>2, <2>1 DEF Restored, Filters
<1>6. CASE EndOfFile(p) \/ ScriptFails(p)
  BY <1>6 DEF EndOfFile, ScriptFails, kernel, Filters
<1>7. QED BY <1>1, <1>3, <1>4, <1>5, <1>6 DEF Script, Flush, Fill, Close

(***************************************************************************)
(* Restore mode: no step of a script opens a chain that filters, and the   *)
(* host's chain and Docker's chain change their rules in the same step,    *)
(* races of engine processes included.                                     *)
(***************************************************************************)
THEOREM SwapAtOnce ==
  ASSUME Mode = "restore"
  PROVE  Spec => SwapIsAtomic
<1>1. ScriptInv => TypeOK /\ ModeOK
  BY DEF ScriptInv, OrderInv, Order
<1>2. ScriptInv /\ [Next]_vars => [SwapStep]_vars
  BY <1>1, SwapsAtOnce
<1>3. QED BY <1>2, ScriptInvariant, PTL DEF Spec, SwapIsAtomic
=============================================================================
