-------------------------- MODULE EngineSafeProofs --------------------------
(***************************************************************************)
(* Theorem: the engine implements SafeApply (its safety; the fairness is   *)
(* checked by TLC).                                                        *)
(***************************************************************************)
EXTENDS EngineSafe, EngineChainProofs

\* No timer waits while the dead-man is at work or is about to be armed.
TimerFree == ~raced =>
  ((Active(Deadman) \/ \E p \in Procs : pc[p] = "arm_run") => timer = "inactive")

LEMMA ArmingAlone ==
  ASSUME TypeOK, JobOK, Exclusive, ~raced, NEW p \in Procs, pc[p] = "arm_run"
  PROVE  \A q \in Procs \ {p} : pc[q] = "idle"
BY Alone DEF Active, JobOK, JobAt, Harmless

LEMMA ArmRunAlone ==
  ASSUME TypeOK, JobOK, NEW p \in Procs, Step(p), timer' = "armed", timer # "armed"
  PROVE  ArmRun(p)
BY DEF Step, Recompiled, ArmStop, Script, Flush, Fill, Close, Hook, Swap4, Swap6,
   EndOfFile, ScriptFails, Unhook, Clear, Delete, FailStop, CommitStop, CommitWrite,
   CommitEnable, RevertDisable, RevertRemove, Exit, systemd

LEMMA ToArmRun ==
  ASSUME TypeOK, JobOK, NEW p \in Procs, Step(p), pc'[p] = "arm_run"
  PROVE  ArmStop(p)
<1>1. JobAt(p) /\ Moved(p)
  BY StepMoves DEF JobOK
<1>2. CASE Script(p)
  BY <1>2, ScriptGoes DEF ScriptPC
<1>3. CASE RevertStep(p)
  <2>1. Delete(p) => at[p] # "DOCKER-USER" \/ pc'[p] \in {"unhook", "clear", "idle",
                        "fail_stop", "report_off", "r_disable"}
    BY <1>1, NextRevertMoves DEF Delete, history
  <2>2. QED BY <1>1, <1>3, <2>1, RevertGoes
<1>4. CASE Others(p) /\ ~ArmStop(p)
  <2>1. CASE p = Daemon /\ \E r \in RuleSets : Recompiled(r)
    <3>1. pc[p] = "writing" /\ raced' = raced
      BY <2>1 DEF Recompiled, history
    <3>2. Goto(p, "arm_stop") \/ Goto(p, ScriptStart) \/ Stop(p)
      BY <1>1, <2>1, <3>1 DEF Recompiled, JobAt
    <3>3. ScriptStart \in {"flush", "swap4"}
      BY DEF ScriptStart
    <3>4. QED BY <3>1, <3>2, <3>3, GotoMoves, StopMoves DEF Goto
  <2>2. CASE ArmRun(p)
    BY <2>2, GotoMoves DEF ArmRun, Goto, ScriptStart
  <2>3. CASE FailStop(p) \/ CommitStop(p) \/ CommitWrite(p) \/ RevertDisable(p) \/ RevertRemove(p)
    BY <2>3, GotoMoves DEF FailStop, CommitStop, CommitWrite, RevertDisable, RevertRemove,
       Goto, history
  <2>4. CASE CommitEnable(p)
    BY <2>4, GotoMoves, StopMoves DEF CommitEnable, Goto
  <2>5. CASE Exit(p)
    BY <2>5, StopMoves DEF Exit, ExitPC, history
  <2>6. QED BY <1>4, <2>1, <2>2, <2>3, <2>4, <2>5 DEF Others
<1>5. QED BY <1>2, <1>3, <1>4, StepKinds

LEMMA TimerStep ==
  ASSUME TypeOK, JobOK, Exclusive, TimerFree, [Next]_vars
  PROVE  TimerFree'
<1> SUFFICES ASSUME ~raced' PROVE
      (Active(Deadman)' \/ \E p \in Procs : pc'[p] = "arm_run") => timer' = "inactive"
  BY DEF TimerFree
<1>1. ASSUME NEW p \in Procs, Step(p)
      PROVE  (Active(Deadman)' \/ \E q \in Procs : pc'[q] = "arm_run") => timer' = "inactive"
  <2>1. Moved(p) /\ ~raced /\ timer \in {"armed", "inactive"} /\ timer' \in {"armed", "inactive"}
    <3>1. TypeOK'
      BY TypeNext DEF Next
    <3>2. QED BY <1>1, <3>1, StepMoves DEF JobOK, Moved, TypeOK
  <2>2. CASE ArmRun(p)
    <3>1. \A q \in Procs \ {p} : pc'[q] = "idle"
      BY <2>1, <2>2, ArmingAlone DEF ArmRun, Moved
    <3>2. p # Deadman /\ pc'[p] # "arm_run"
      BY <2>2, GotoMoves DEF ArmRun, Goto, ScriptStart, JobOK, JobAt
    <3>3. QED BY <3>1, <3>2, NamesDistinct DEF Active
  <2>3. CASE ArmStop(p)
    BY <2>3 DEF ArmStop
  <2>4. CASE ~ArmRun(p) /\ ~ArmStop(p)
    <3>1. pc'[p] # "arm_run"
      BY <1>1, <2>4, ToArmRun
    <3>2. timer = "inactive" => timer' = "inactive"
      BY <1>1, <2>1, <2>4, ArmRunAlone
    <3>3. QED BY <2>1, <3>1, <3>2, NamesDistinct DEF TimerFree, Moved, Active
  <2>5. QED BY <2>2, <2>3, <2>4
<1>2. CASE Fire
  BY <1>2 DEF Fire
<1>3. CASE Call
  <2>1. PICK p \in Procs : Called(p)
    BY <1>3, CallsStart
  <2>2. ~raced /\ timer' = timer
    <3>1. ~raced
      BY <2>1, StartMoves DEF Called
    <3>2. timer' = timer
      BY <1>3 DEF Call, Recompile, ShellApply, Commit, Revert, systemd
    <3>3. QED BY <3>1, <3>2
  <2>3. p # Deadman
    BY <1>3, <2>1, NamesDistinct DEF Call, Recompile, ShellApply, Commit, Revert, Called, Start, TypeOK, Active
  <2>4. QED BY <2>1, <2>2, <2>3, CalledAt, NamesDistinct DEF TimerFree, Active
<1>4. ASSUME NEW p \in Callers, Kill(p)
      PROVE  (Active(Deadman)' \/ \E q \in Procs : pc'[q] = "arm_run") => timer' = "inactive"
  BY <1>4, NamesDistinct DEF Kill, Stop, TypeOK, TimerFree, Active, systemd, history
<1>5. CASE Timeout \/ UNCHANGED vars
  BY <1>5 DEF Timeout, vars, procs, systemd, history, TimerFree, Active
<1>6. CASE Reboot
  BY <1>6 DEF Reboot
<1>7. QED BY <1>1, <1>2, <1>3, <1>4, <1>5, <1>6 DEF Next, Fault
-----------------------------------------------------------------------------
(* What the engine's state is, seen from SafeApply.                        *)

SafeInv == SweepInv /\ TimerFree

\* Alone, a process that arms, applies or commits finds no dead-man at work.
LEMMA AloneNet ==
  ASSUME TypeOK, JobOK, Exclusive, ~raced, NEW p \in Procs, Active(p), p # Deadman,
         job[p] \notin Harmless, pc[p] # "arm_run"
  PROVE  DeadManOf = IF timer = "armed" THEN "armed" ELSE "none"
BY Alone, NamesDistinct DEF Active, DeadManOf

\* Nothing that SafeApply sees has changed.
LEMMA NothingSeen ==
  ASSUME raced' <=> raced, UNCHANGED <<owner, timer>>, Active(Deadman)' = Active(Deadman),
         (\E q \in Callers : pc'[q] = "arm_run") = (\E q \in Callers : pc[q] = "arm_run")
  PROVE  UNCHANGED <<Firewall, DeadManOf>>
BY DEF Firewall, DeadManOf

\* A process that moves without starting, stopping or arming the dead-man.
LEMMA QuietStep ==
  ASSUME TypeOK, JobOK, NEW p \in Procs, Step(p), UNCHANGED <<owner, timer>>,
         p = Deadman => pc'[p] # "idle", pc[p] # "arm_run", ~ArmStop(p)
  PROVE  UNCHANGED <<Firewall, DeadManOf>>
<1>1. Moved(p)
  BY StepMoves DEF JobOK
<1>2. pc'[p] # "arm_run"
  BY ToArmRun
<1>3. \A q \in Callers : (pc'[q] = "arm_run") = (pc[q] = "arm_run")
  BY <1>1, <1>2, NamesDistinct DEF Moved
<1>4. Active(Deadman)' = Active(Deadman)
  BY <1>1, NamesDistinct DEF Moved, Active
<1>5. QED BY <1>1, <1>3, <1>4, NothingSeen DEF Moved

LEMMA CallRefines ==
  ASSUME SafeInv, ~raced, ~raced', Call
  PROVE  Trial!Next \/ UNCHANGED Trial!vars
<1> USE DEF SafeInv, SweepInv, OrderInv, systemd
<1>1. PICK p \in Procs : Called(p)
  BY CallsStart
<1>2. timer' = timer
  BY DEF Call, Recompile, ShellApply, Commit, Revert
<1>3. p # Deadman
  BY <1>1, NamesDistinct DEF Call, Recompile, ShellApply, Commit, Revert, Called, Start, TypeOK, Active
<1>4. /\ Active(Deadman)' = Active(Deadman)
      /\ (\E q \in Callers : pc'[q] = "arm_run") = (\E q \in Callers : pc[q] = "arm_run")
  BY <1>1, <1>3, CalledAt, NamesDistinct DEF Active
<1>5. CASE owner' = owner
  BY <1>2, <1>4, <1>5, NothingSeen DEF Trial!vars
<1>6. ASSUME NEW q \in Shells, ShellApply(q, "apply")
      PROVE  Trial!ApplyPlain
  <2>1. Start(q, "apply", ScriptStart) /\ owner' = "plain"
    BY <1>6 DEF ShellApply
  <2>2. \A r \in Procs : ~Active(r)
    BY <2>1, StartMoves, NamesDistinct DEF Harmless
  <2>3. DeadManOf \in {"none", "armed"}
    BY <2>2, NamesDistinct DEF DeadManOf, Active
  <2>4. DeadManOf' = DeadManOf
    BY <1>2, <1>4 DEF DeadManOf
  <2>5. Firewall' = "plain"
    BY <2>1 DEF Firewall
  <2>6. QED BY <2>3, <2>4, <2>5 DEF Trial!ApplyPlain
<1>7. owner' = owner \/ \E q \in Shells : ShellApply(q, "apply")
  <2>1. ASSUME NEW q \in Shells, NEW j \in {"apply", "safe"}, ShellApply(q, j)
        PROVE  owner' = owner \/ \E r \in Shells : ShellApply(r, "apply")
    BY <2>1 DEF ShellApply
  <2>2. QED BY <2>1 DEF Call, Recompile, Commit, Revert
<1>8. QED BY <1>5, <1>6, <1>7 DEF Trial!Next

LEMMA RecompiledRefines ==
  ASSUME SafeInv, ~raced, NEW r \in RuleSets, Recompiled(r), Step(Daemon)
  PROVE  Trial!Next \/ UNCHANGED Trial!vars
<1> USE DEF SafeInv, SweepInv, OrderInv, systemd
<1>1. pc[Daemon] = "writing" /\ raced' = raced /\ timer' = timer /\ Daemon # Deadman
  BY NamesDistinct DEF Recompiled
<1>2. CASE job[Daemon] # "apply"
  BY <1>1, <1>2, QuietStep, NamesDistinct DEF Recompiled, ArmStop, Trial!vars
<1>3. CASE job[Daemon] = "apply"
  <2>1. DeadManOf = IF timer = "armed" THEN "armed" ELSE "none"
    BY <1>1, <1>3, AloneNet, NamesDistinct DEF Active, Harmless
  <2>2. Moved(Daemon) /\ pc'[Daemon] # "arm_run"
    BY <1>1, StepMoves, ToArmRun, NamesDistinct DEF JobOK, ArmStop
  <2>3. DeadManOf' = DeadManOf
    <3>1. \A q \in Callers : (pc'[q] = "arm_run") = (pc[q] = "arm_run")
      BY <1>1, <2>2, NamesDistinct DEF Moved
    <3>2. QED BY <1>1, <2>2, <3>1, NamesDistinct DEF Moved, DeadManOf, Active
  <2>4. Firewall' = "plain"
    BY <1>1, <1>3 DEF Recompiled, Firewall
  <2>5. QED BY <2>1, <2>3, <2>4 DEF Trial!ApplyPlain, Trial!Next
<1>4. QED BY <1>2, <1>3

LEMMA ArmStopRefines ==
  ASSUME SafeInv, ~raced, NEW p \in Procs, ArmStop(p), Step(p)
  PROVE  Trial!Next
<1> USE DEF SafeInv, SweepInv, OrderInv, systemd, history
<1>1. /\ pc[p] = "arm_stop" /\ raced' = raced /\ timer' = "inactive" /\ owner' = owner
      /\ pc'[p] = "arm_run" /\ Active(p) /\ job[p] = "safe"
  BY GotoMoves DEF ArmStop, Goto, Active, JobOK, JobAt
<1>2. p \in Callers /\ p # Deadman
  BY <1>1 DEF JobOK, JobAt, Procs
<1>3. DeadManOf = IF timer = "armed" THEN "armed" ELSE "none"
  BY <1>1, <1>2, AloneNet DEF Harmless
<1>4. ~Active(Deadman)'
  <2>1. Moved(p) /\ pc[Deadman] = "idle"
    BY <1>1, <1>2, StepMoves, Alone, NamesDistinct DEF JobOK, Harmless
  <2>2. QED BY <1>2, <2>1, NamesDistinct DEF Moved, Active
<1>5. DeadManOf' = "arming"
  BY <1>1, <1>2, <1>4 DEF DeadManOf
<1>6. Firewall' = Firewall
  BY <1>1 DEF Firewall
<1>7. QED BY <1>3, <1>5, <1>6 DEF Trial!StartArming, Trial!Next

LEMMA ArmRunRefines ==
  ASSUME SafeInv, ~raced, "arm_fails" \notin Faults, NEW p \in Procs, ArmRun(p), Step(p)
  PROVE  Trial!Next
<1> USE DEF SafeInv, SweepInv, OrderInv, systemd, history
<1>1. /\ pc[p] = "arm_run" /\ raced' = raced /\ owner' = "trial" /\ job[p] = "safe"
  BY DEF ArmRun, JobOK, JobAt
<1>2. p \in Callers /\ p # Deadman /\ timer = "inactive"
  BY <1>1 DEF JobOK, JobAt, Procs, TimerFree
<1>3. \A q \in Procs \ {p} : pc[q] = "idle"
  BY <1>1, ArmingAlone
<1>4. ~Active(Deadman) /\ ~Active(Deadman)'
  <2>1. Moved(p)
    BY StepMoves DEF JobOK
  <2>2. QED BY <1>2, <1>3, <2>1, NamesDistinct DEF Moved, Active
<1>5. timer' = "armed"
  BY <1>2, <1>4 DEF ArmRun, NameFree
<1>6. DeadManOf = "arming" /\ DeadManOf' = "armed" /\ Firewall' = "trial"
  BY <1>1, <1>2, <1>4, <1>5 DEF DeadManOf, Firewall
<1>7. QED BY <1>6 DEF Trial!Arm, Trial!Next

LEMMA FailStopRefines ==
  ASSUME SafeInv, ~raced, NEW p \in Procs, FailStop(p), Step(p)
  PROVE  Trial!Next \/ UNCHANGED Trial!vars
<1> USE DEF SafeInv, SweepInv, OrderInv, systemd, history
<1>1. /\ pc[p] = "fail_stop" /\ raced' = raced /\ timer' = "inactive" /\ owner' = owner
      /\ owner = "nobody" /\ job[p] = "safe" /\ Active(p) /\ p # Deadman
  BY DEF FailStop, JobOK, JobAt, Active, Sweep, RevertSwept, SweptPC
<1>2. DeadManOf = IF timer = "armed" THEN "armed" ELSE "none"
  BY <1>1, AloneNet DEF Harmless
<1>3. \A q \in Procs : pc'[q] # "arm_run" /\ (q # p => pc'[q] = "idle")
  BY <1>1, Alone, StepMoves, ToArmRun DEF JobOK, Harmless, Moved, ArmStop
<1>4. DeadManOf' = "none"
  BY <1>1, <1>3, NamesDistinct DEF DeadManOf, Active
<1>5. Firewall = "off" /\ Firewall' = "off"
  BY <1>1 DEF Firewall
<1>6. QED BY <1>2, <1>4, <1>5 DEF Trial!Disarm, Trial!Next, Trial!vars

LEMMA CommitStopRefines ==
  ASSUME SafeInv, ~raced, NEW p \in Procs, CommitStop(p), Step(p)
  PROVE  Trial!Next
<1> USE DEF SafeInv, SweepInv, OrderInv, systemd, history
<1>1. /\ pc[p] = "c_stop" /\ raced' = raced /\ timer' = "inactive"
      /\ owner' = (IF owner = "nobody" THEN owner ELSE "kept")
      /\ job[p] = "commit" /\ Active(p) /\ p # Deadman
  BY DEF CommitStop, JobOK, JobAt, Active
<1>2. DeadManOf = IF timer = "armed" THEN "armed" ELSE "none"
  BY <1>1, AloneNet DEF Harmless
<1>3. \A q \in Procs : pc'[q] # "arm_run" /\ (q # p => pc'[q] = "idle")
  BY <1>1, Alone, StepMoves, ToArmRun DEF JobOK, Harmless, Moved, ArmStop
<1>4. DeadManOf' = "none"
  BY <1>1, <1>3, NamesDistinct DEF DeadManOf, Active
<1>5. Firewall' = IF Firewall = "off" THEN "off" ELSE "kept"
  BY <1>1 DEF Firewall, TypeOK, Owners
<1>6. QED BY <1>2, <1>4, <1>5 DEF Trial!Confirm, Trial!Next

LEMMA DeleteRefines ==
  ASSUME SafeInv, ~raced, ~Busy, NEW p \in Procs, Delete(p), Step(p)
  PROVE  Trial!Next \/ UNCHANGED Trial!vars
<1> USE DEF SafeInv, SweepInv, OrderInv, systemd
<1>1. /\ pc[p] = "delete" /\ raced' = raced /\ timer' = timer /\ owner' \in {owner, "nobody"}
      /\ Moved(p) /\ JobAt(p) /\ pc'[p] # "arm_run"
  BY StepMoves, ToArmRun DEF Delete, JobOK, ArmStop
<1>2. \A q \in Callers : (pc'[q] = "arm_run") = (pc[q] = "arm_run")
  BY <1>1, NamesDistinct DEF Moved
<1>3. CASE p = Deadman /\ pc'[p] = "idle"
  <2>1. owner' = "nobody"
    BY <1>1, <1>3, RevertSweepsOn DEF RevertStep, Sweep, RevertSweeps, SweepsAt
  <2>2. timer = "inactive" /\ \A q \in Callers : pc[q] # "arm_run"
    <3>1. Active(Deadman)
      BY <1>1, <1>3 DEF Active
    <3>2. \A q \in Callers : pc[q] # "arm_run"
      BY <3>1, ArmingAlone, NamesDistinct DEF Active
    <3>3. QED BY <3>1, <3>2 DEF TimerFree
  <2>3. DeadManOf = "reverting" /\ DeadManOf' = "none" /\ Firewall' = "off"
    BY <1>1, <1>2, <1>3, <2>1, <2>2 DEF DeadManOf, Firewall, Active
  <2>4. QED BY <2>3 DEF Trial!AutoRevert, Trial!Next
<1>4. CASE ~(p = Deadman /\ pc'[p] = "idle")
  <2>1. Active(Deadman)' = Active(Deadman)
    BY <1>1, <1>4, NamesDistinct DEF Moved, Active
  <2>2. DeadManOf' = DeadManOf
    BY <1>1, <1>2, <2>1 DEF DeadManOf
  <2>3. CASE owner' = owner
    BY <1>1, <2>2, <2>3 DEF Firewall, Trial!vars
  <2>4. CASE owner' = "nobody" /\ owner # "nobody"
    <3>1. DeadManOf # "arming"
      BY <1>1, ArmingAlone, NamesDistinct DEF DeadManOf, Active
    <3>2. Firewall' = "off" /\ Firewall \notin {"off", "raced"}
      BY <1>1, <2>4 DEF Firewall, TypeOK, Owners
    <3>3. QED BY <2>2, <3>1, <3>2 DEF Trial!TurnOff, Trial!Next
  <2>5. QED BY <1>1, <2>3, <2>4
<1>5. QED BY <1>3, <1>4

LEMMA StepRefines ==
  ASSUME SafeInv, ~raced, ~Busy, "arm_fails" \notin Faults, NEW p \in Procs, Step(p)
  PROVE  Trial!Next \/ UNCHANGED Trial!vars
<1> USE DEF SafeInv, SweepInv, OrderInv, systemd, history
<1>1. CASE p = Daemon /\ \E r \in RuleSets : Recompiled(r)
  BY <1>1, RecompiledRefines
<1>2. CASE ArmStop(p)
  BY <1>2, ArmStopRefines
<1>3. CASE ArmRun(p)
  BY <1>3, ArmRunRefines
<1>4. CASE Delete(p)
  BY <1>4, DeleteRefines
<1>5. CASE FailStop(p)
  BY <1>5, FailStopRefines
<1>6. CASE CommitStop(p)
  BY <1>6, CommitStopRefines
<1>7. CASE Unhook(p) \/ Clear(p)
  <2>1. /\ UNCHANGED <<owner, timer>> /\ pc[p] # "arm_run" /\ ~ArmStop(p)
    BY <1>7 DEF Unhook, Clear, ArmStop
  <2>2. pc'[p] # "idle"
    BY <1>7, RevertGoes DEF RevertStep, JobOK, Unhook, Clear, Delete
  <2>3. QED BY <2>1, <2>2, QuietStep DEF Trial!vars
<1>8. CASE Script(p)
  <2>1. /\ UNCHANGED <<owner, timer>> /\ pc[p] # "arm_run" /\ ~ArmStop(p) /\ pc[p] \in ScriptPC
    BY <1>8 DEF Script, Flush, Fill, Close, Hook, Swap4, Swap6, EndOfFile, ScriptFails,
       ScriptPC, ArmStop
  <2>2. p # Deadman
    BY <2>1 DEF JobOK, JobAt
  <2>3. QED BY <2>1, <2>2, QuietStep DEF Trial!vars
<1>9. CASE CommitWrite(p) \/ CommitEnable(p) \/ RevertDisable(p) \/ RevertRemove(p) \/ Exit(p)
  <2>1. /\ UNCHANGED <<owner, timer>> /\ pc[p] # "arm_run" /\ ~ArmStop(p)
        /\ pc[p] \in {"c_write", "c_enable", "r_disable", "r_rm"} \cup ExitPC
    BY <1>9 DEF CommitWrite, CommitEnable, RevertDisable, RevertRemove, Exit, ExitPC, ArmStop
  <2>2. p # Deadman
    BY <2>1 DEF JobOK, JobAt, ExitPC
  <2>3. QED BY <2>1, <2>2, QuietStep DEF Trial!vars
<1>10. QED BY <1>1, <1>2, <1>3, <1>4, <1>5, <1>6, <1>7, <1>8, <1>9 DEF Step

LEMMA FireRefines ==
  ASSUME SafeInv, ~raced, ~raced', Fire
  PROVE  Trial!Next
<1>1. /\ timer = "armed" /\ owner' = owner /\ ~Active(Deadman) /\ Active(Deadman)'
  BY NamesDistinct DEF Fire, Start, Active, SafeInv, SweepInv, OrderInv, TypeOK
<1>2. DeadManOf = "armed" /\ DeadManOf' = "reverting" /\ Firewall' = Firewall
  BY <1>1 DEF DeadManOf, Firewall
<1>3. QED BY <1>2 DEF Trial!Expire, Trial!Next

LEMMA FaultRefines ==
  ASSUME SafeInv, ~raced, "killed_arming" \notin Faults, Fault
  PROVE  Trial!Next \/ UNCHANGED Trial!vars
<1> USE DEF SafeInv, SweepInv, OrderInv, systemd, history
<1>1. ASSUME NEW p \in Callers, Kill(p) PROVE UNCHANGED Trial!vars
  <2>1. /\ UNCHANGED <<owner, timer, raced>> /\ pc[p] # "arm_run" /\ pc'[p] = "idle"
        /\ \A q \in Procs \ {p} : pc'[q] = pc[q]
    BY <1>1, NamesDistinct DEF Kill, Stop, TypeOK
  <2>2. \A q \in Callers : (pc'[q] = "arm_run") = (pc[q] = "arm_run")
    BY <2>1, NamesDistinct
  <2>3. QED BY <2>1, <2>2, NamesDistinct, NothingSeen DEF Active, Trial!vars
<1>2. CASE Timeout
  BY <1>2, NothingSeen DEF Timeout, Active, Trial!vars
<1>3. CASE Reboot
  <2>1. /\ raced' = raced /\ owner' \in {"plain", "nobody"} /\ timer' = "inactive"
        /\ \A q \in Callers : pc'[q] = "idle" /\ pc'[Deadman] = "idle"
    BY <1>3, NamesDistinct DEF Reboot, TypeOK
  <2>2. pc'[Deadman] = "idle"
    BY <1>3, NamesDistinct DEF Reboot
  <2>3. DeadManOf' = "none" /\ Firewall' \in {"off", "plain"} /\ Firewall # "raced"
    BY <2>1, <2>2 DEF DeadManOf, Firewall, Active, TypeOK, Owners
  <2>4. QED BY <2>3 DEF Trial!Reboot, Trial!Next
<1>4. QED BY <1>1, <1>2, <1>3 DEF Fault

LEMMA RacedStays ==
  ASSUME TypeOK, JobOK, [Next]_vars, raced
  PROVE  raced'
<1>1. ASSUME NEW p \in Procs, Step(p) PROVE raced'
  BY <1>1, StepMoves DEF JobOK, Moved
<1>2. ASSUME Call \/ Fire PROVE raced'
  BY <1>2, CallsStart, StartMoves DEF Called
<1>3. CASE Fault \/ UNCHANGED vars
  BY <1>3 DEF Fault, Kill, Timeout, Reboot, vars, history
<1>4. QED BY <1>1, <1>2, <1>3 DEF Next

LEMMA NextRefines ==
  ASSUME SafeInv, ~Busy, Faults \cap {"arm_fails", "killed_arming"} = {}, [Next]_vars
  PROVE  [Trial!Next]_(Trial!vars)
<1>1. CASE raced
  <2>1. raced'
    BY <1>1, RacedStays DEF SafeInv, SweepInv, OrderInv
  <2>2. QED BY <1>1, <2>1 DEF Firewall, DeadManOf, Trial!vars
<1>2. CASE raced'
  BY <1>2 DEF Firewall, DeadManOf, Trial!Race, Trial!Next
<1>3. CASE ~raced /\ ~raced'
  <2>1. CASE UNCHANGED vars
    BY <2>1 DEF vars, procs, systemd, history, Firewall, DeadManOf, Active, Trial!vars
  <2>2. CASE Next
    BY <1>3, <2>2, CallRefines, FireRefines, StepRefines, FaultRefines DEF Next
  <2>3. QED BY <2>1, <2>2
<1>4. QED BY <1>1, <1>2, <1>3

(***************************************************************************)
(* The engine implements SafeApply: whatever the rule sets, the shells and *)
(* the other faults, every step of every process of engine/zfw is a step   *)
(* of the two-variable promise or invisible in it.                         *)
(***************************************************************************)
THEOREM EngineImplements ==
  ASSUME ~Busy, Faults \cap {"arm_fails", "killed_arming"} = {}
  PROVE  Spec => Trial!Spec
<1>1. Init => Trial!Init
  BY NamesDistinct DEF Init, Trial!Init, Firewall, DeadManOf, Active
<1>2. SweepInv /\ TimerFree /\ [Next]_vars => [Trial!Next]_(Trial!vars)
  BY NextRefines DEF SafeInv
<1>3. Init => TimerFree
  BY DEF Init, TimerFree
<1>4. SweepInv /\ TimerFree /\ [Next]_vars => TimerFree'
  BY TimerStep DEF SweepInv, OrderInv
<1>5. QED BY <1>1, <1>2, <1>3, <1>4, SweepInvariant, PTL DEF Spec, Trial!Spec

(***************************************************************************)
(* And so what SafeApply promises holds of the engine.                     *)
(***************************************************************************)
THEOREM PromiseIsKept ==
  ASSUME ~Busy, Faults \cap {"arm_fails", "killed_arming"} = {}
  PROVE  Spec => []Trial!Promise
<1>1. SweepInv /\ SafetyNet => Trial!Promise
  <2> SUFFICES ASSUME SweepInv, SafetyNet PROVE Trial!Promise
    OBVIOUS
  <2>1. Firewall \in Trial!States /\ DeadManOf \in Trial!Nets
    BY DEF SweepInv, OrderInv, TypeOK, Owners, Firewall, DeadManOf, Trial!States, Trial!Nets
  <2>2. Firewall = "trial" => DeadManOf # "none"
    BY DEF SafetyNet, Firewall, DeadManOf
  <2>3. Firewall = "kept" => DeadManOf \in {"none", "arming"}
    BY DEF SweepInv, OrderInv, KeptIsSpared, Firewall, DeadManOf
  <2>4. Firewall = "raced" <=> DeadManOf = "raced"
    BY DEF SweepInv, OrderInv, TypeOK, Owners, Firewall, DeadManOf
  <2>5. QED BY <2>1, <2>2, <2>3, <2>4 DEF Trial!Promise
<1>2. QED BY <1>1, SweepInvariant, TrialIsCovered, PTL
=============================================================================
