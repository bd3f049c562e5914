------------------------------- MODULE Engine -------------------------------
(***************************************************************************)
(* The privileged engine of ZFW, engine/zfw, as the set of processes that  *)
(* can run it at the same time: the daemon's child (one call at a time,    *)
(* handlers.Server.mu), root shells, the dead-man's transient unit         *)
(* zfw-deadman.service and the boot unit zfw.service.  They share the      *)
(* kernel's chains, the dead-man timer, the boot unit's file and the       *)
(* script zfwd compiles, and nothing in the engine locks any of these.     *)
(*                                                                         *)
(* One action is one command of the script: the chains are written by      *)
(* several iptables calls, so every interleaving of two engine processes   *)
(* between two calls is a behaviour of this specification.                 *)
(***************************************************************************)
EXTENDS Naturals, FiniteSets

CONSTANTS
  RuleSets,   \* the rule sets that zfwd can have compiled into compiled.sh
  Outbound,   \* those with an enabled outbound rule: only they write ZFW-OUT
  Rejected,   \* [RuleSets -> Chains \cup {NoChain}]: where iptables refuses a line
  NoScript,   \* compiled.sh does not exist
  Torn,       \* compiled.sh is truncated: os.WriteFile has not written it back
  NoChain,    \* no chain: iptables accepts every line
  Shells,     \* root shells in which the operator runs the engine
  Mode,       \* ZFW_APPLY_MODE, "bash" or "restore"
  Faults      \* the faults of FaultKinds that may happen

Daemon  == "zfwd"
Deadman == "zfw-deadman.service"
Boot    == "zfw.service"
Callers == Shells \cup {Daemon}
Procs   == Callers \cup {Deadman, Boot}

(***************************************************************************)
(* ZFW-OUT stands for the three outbound chains, which the compiled script *)
(* writes in one block.                                                    *)
(***************************************************************************)
Chains == {"ZFW-IN", "DOCKER-USER", "ZFW-IN6", "ZFW-OUT"}

FaultKinds ==
  { "killed",         \* a caller's engine dies between two commands
    "killed_arming",  \* ... between stopping the old timer and arming the new
    "timeout",        \* firewall.run's 25 s deadline kills the engine only
    "arm_fails",      \* systemd-run fails; the engine does not look
    "enable_fails",   \* systemctl enable fails: read-only /etc, masked unit
    "slow_script",    \* a safe apply is still at work 120 s after it armed
    "xtables_busy",   \* another program holds the lock; no call passes -w
    "reboot" }

ASSUME EngineAssumption ==
  /\ Outbound \subseteq RuleSets
  /\ Rejected \in [RuleSets -> Chains \cup {NoChain}]
  /\ NoChain \notin Chains
  /\ NoScript \notin RuleSets /\ Torn \notin RuleSets /\ NoScript # Torn
  /\ Shells \cap {Daemon, Deadman, Boot} = {}
  /\ Mode \in {"bash", "restore"}
  /\ Faults \subseteq FaultKinds

VARIABLES
  chain,      \* kernel: what each chain holds and whether it is jumped to
  timer,      \* zfw-deadman.timer, "armed" or "inactive"
  unit,       \* the boot unit's file exists
  enabled,    \* the boot unit is enabled
  compiled,   \* the content of compiled.sh
  pc,         \* the next command of each engine process
  at,         \* the chain that command works on
  job,        \* what the process was called for
  owner,      \* history: what put the live rules in place
  raced       \* history: two engine processes have overlapped

kernel == <<chain>>
systemd == <<timer, unit, enabled>>
procs   == <<pc, at, job>>
history == <<owner, raced>>
vars    == <<chain, timer, unit, enabled, compiled, procs, history>>

(***************************************************************************)
(* A chain, as a packet sees it: rules are the rule sets whose lines stand *)
(* before the first policy line, closed says that there is a policy line   *)
(* (the catch-all DROP, or RETURN), hooked that the built-in chain jumps   *)
(* to it.  DOCKER-USER belongs to Docker: it is always there and hooked.   *)
(***************************************************************************)
ChainState == [present : BOOLEAN, rules : SUBSET RuleSets,
               closed : BOOLEAN, hooked : BOOLEAN]

Stock(c) == [present |-> c = "DOCKER-USER", rules |-> {},
             closed |-> FALSE, hooked |-> c = "DOCKER-USER"]

AllStock == chain = [c \in Chains |-> Stock(c)]

Jobs == {"none", "compile", "apply", "safe", "commit", "revert",
         "_autorevert", "orphan"}

ScriptPC == {"flush", "fill", "close", "hook", "swap4", "swap6"}
RevertPC == {"unhook", "clear", "delete"}
ExitPC   == {"applied", "report_off", "committed", "reverted"}
PC == ScriptPC \cup RevertPC \cup ExitPC \cup
      {"idle", "writing", "arm_stop", "arm_run", "fail_stop", "c_stop",
       "c_write", "c_enable", "r_disable", "r_rm"}

Owners == {"nobody", "trial", "plain", "kept"}

Init ==
  /\ chain = [c \in Chains |-> Stock(c)]
  /\ timer = "inactive" /\ unit = FALSE /\ enabled = FALSE
  /\ compiled = NoScript
  /\ pc = [p \in Procs |-> "idle"]
  /\ at = [p \in Procs |-> "ZFW-IN"]
  /\ job = [p \in Procs |-> "none"]
  /\ owner = "nobody" /\ raced = FALSE

Active(p) == pc[p] # "idle"

\* p goes on with command l, on chain c.
GotoAt(p, l, c) ==
  /\ pc' = [pc EXCEPT ![p] = l]
  /\ at' = [at EXCEPT ![p] = c]
  /\ UNCHANGED job

Goto(p, l) == GotoAt(p, l, "ZFW-IN")

Stop(p) ==
  /\ pc' = [pc EXCEPT ![p] = "idle"]
  /\ at' = [at EXCEPT ![p] = "ZFW-IN"]
  /\ job' = [job EXCEPT ![p] = "none"]

(***************************************************************************)
(* Two overlapping processes race, unless neither does more than take      *)
(* rules away or write compiled.sh.                                        *)
(***************************************************************************)
Harmless == {"compile", "revert", "_autorevert"}

Start(p, j, l) ==
  /\ ~Active(p)
  /\ pc' = [pc EXCEPT ![p] = l]
  /\ at' = [at EXCEPT ![p] = "ZFW-IN"]
  /\ job' = [job EXCEPT ![p] = j]
  /\ raced' = (raced \/ \E q \in Procs : Active(q) /\ ~({j, job[q]} \subseteq Harmless))

ScriptStart == IF Mode = "bash" THEN "flush" ELSE "swap4"
-----------------------------------------------------------------------------
(* The calls.                                                              *)

(***************************************************************************)
(* recompileLocked, alone (rules POST, dockerwatch, startup) or as the     *)
(* first half of the apply handler.  os.WriteFile truncates, then writes.  *)
(***************************************************************************)
Recompile(j) ==
  /\ Start(Daemon, j, "writing")
  /\ compiled' = Torn
  /\ UNCHANGED <<kernel, systemd, owner>>

Recompiled(r) ==
  /\ pc[Daemon] = "writing"
  /\ compiled' = r
  /\ CASE job[Daemon] = "safe"  -> Goto(Daemon, "arm_stop")
       [] job[Daemon] = "apply" -> Goto(Daemon, ScriptStart)
       [] OTHER                 -> Stop(Daemon)
  /\ owner' = IF job[Daemon] = "apply" THEN "plain" ELSE owner
  /\ UNCHANGED <<kernel, systemd, raced>>

\* zfw apply [--safe] from a root shell: whatever compiled.sh holds by now.
ShellApply(p, j) ==
  /\ compiled # NoScript
  /\ Start(p, j, IF j = "safe" THEN "arm_stop" ELSE ScriptStart)
  /\ owner' = IF j = "apply" THEN "plain" ELSE owner
  /\ UNCHANGED <<kernel, systemd, compiled>>

Commit(p) ==
  /\ compiled # NoScript
  /\ Start(p, "commit", "c_stop")
  /\ UNCHANGED <<kernel, systemd, compiled, owner>>

\* Mutant of Revert: the dead-man is cancelled first, as commit does.
RevertStopsTimer(p) ==
  /\ Start(p, "revert", "unhook")
  /\ timer' = "inactive"
  /\ UNCHANGED <<kernel, unit, enabled, compiled, owner>>

Revert(p) ==
  /\ Start(p, "revert", "unhook")
  /\ UNCHANGED <<kernel, systemd, compiled, owner>>

(***************************************************************************)
(* The 120 s have passed: systemd starts the transient unit.  A safe apply *)
(* that still runs has only just armed it, unless the script is that slow. *)
(***************************************************************************)
JustArmed == \E p \in Callers : job[p] = "safe" /\ pc[p] \in ScriptPC \cup RevertPC

Fire ==
  /\ timer = "armed"
  /\ JustArmed => "slow_script" \in Faults
  /\ timer' = "inactive"
  /\ Start(Deadman, "_autorevert", "unhook")
  /\ UNCHANGED <<kernel, unit, enabled, compiled, owner>>
-----------------------------------------------------------------------------
(* arm_deadman                                                             *)

ArmStop(p) ==
  /\ pc[p] = "arm_stop"
  /\ timer' = "inactive"
  /\ Goto(p, "arm_run")
  /\ UNCHANGED <<kernel, unit, enabled, compiled, history>>

\* The name zfw-deadman is free: no timer waits and no revert of it runs.
NameFree == timer = "inactive" /\ ~Active(Deadman)

\* Mutant of ArmRun: the timer that was there is taken to be enough.
ArmNothing(p) ==
  /\ pc[p] = "arm_run"
  /\ Goto(p, ScriptStart)
  /\ owner' = "trial"
  /\ UNCHANGED <<kernel, systemd, compiled, raced>>

\* systemd-run's status is not looked at: "DEADMAN ARMED" is logged anyway.
ArmRun(p) ==
  /\ pc[p] = "arm_run"
  /\ \/ NameFree /\ timer' = "armed"
     \/ (~NameFree \/ "arm_fails" \in Faults) /\ UNCHANGED timer
  /\ Goto(p, ScriptStart)
  /\ owner' = "trial"
  /\ UNCHANGED <<kernel, unit, enabled, compiled, raced>>
-----------------------------------------------------------------------------
(***************************************************************************)
(* bash SCRIPT.  bash reads its script as it runs it, so every block below *)
(* takes its lines from what compiled.sh holds at that moment.             *)
(***************************************************************************)
After(c) == CASE c = "ZFW-IN"      -> "DOCKER-USER"
              [] c = "DOCKER-USER" -> "ZFW-IN6"
              [] c = "ZFW-IN6"     -> "ZFW-OUT"
              [] OTHER             -> NoChain

\* The hooks of the restore script come together at its end.
AfterHook(c) == IF Mode = "restore" /\ c = "ZFW-IN" THEN "ZFW-IN6" ELSE After(c)

\* The block for ZFW-OUT is there only when an outbound rule is.
HasBlock(c) == c \in Chains /\ (c = "ZFW-OUT" => compiled \in Outbound)

ScriptExit(p) == IF job[p] = "orphan" THEN Stop(p) ELSE Goto(p, "applied")

NextBlock(p, c, l) ==
  IF HasBlock(c) THEN GotoAt(p, l, c) ELSE ScriptExit(p)

\* Mutant of Flush: the policy line is written before the rules.
FlushThenPolicy(p) ==
  /\ pc[p] = "flush" /\ compiled \in RuleSets
  /\ chain' = [chain EXCEPT ![at[p]] =
                 [@ EXCEPT !.present = TRUE, !.rules = {}, !.closed = FALSE]]
  /\ GotoAt(p, "close", at[p])
  /\ UNCHANGED <<systemd, compiled, history>>

\* Mutant of Flush: -N without -F.
CreateOnly(p) ==
  /\ pc[p] = "flush" /\ compiled \in RuleSets
  /\ chain' = [chain EXCEPT ![at[p]].present = TRUE]
  /\ GotoAt(p, "fill", at[p])
  /\ UNCHANGED <<systemd, compiled, history>>

Flush(p) ==
  /\ pc[p] = "flush" /\ compiled \in RuleSets
  /\ chain' = [chain EXCEPT ![at[p]] =
                 [@ EXCEPT !.present = TRUE, !.rules = {}, !.closed = FALSE]]
  /\ GotoAt(p, "fill", at[p])
  /\ UNCHANGED <<systemd, compiled, history>>

\* The lines before the policy line; behind one they are never reached.
Fill(p) ==
  /\ pc[p] = "fill" /\ compiled \in RuleSets
  /\ chain[at[p]].present /\ Rejected[compiled] # at[p]
  /\ chain' = [chain EXCEPT ![at[p]].rules =
                 IF chain[at[p]].closed THEN @ ELSE @ \cup {compiled}]
  /\ GotoAt(p, "close", at[p])
  /\ UNCHANGED <<systemd, compiled, history>>

Close(p) ==
  /\ pc[p] = "close" /\ compiled \in RuleSets
  /\ chain[at[p]].present
  /\ chain' = [chain EXCEPT ![at[p]].closed = TRUE]
  /\ IF at[p] = "DOCKER-USER" THEN NextBlock(p, After(at[p]), "flush")
                              ELSE GotoAt(p, "hook", at[p])
  /\ UNCHANGED <<systemd, compiled, history>>

Hook(p) ==
  /\ pc[p] = "hook" /\ compiled \in RuleSets
  /\ chain[at[p]].present
  /\ chain' = [chain EXCEPT ![at[p]].hooked = TRUE]
  /\ NextBlock(p, AfterHook(at[p]), IF Mode = "bash" THEN "flush" ELSE "hook")
  /\ UNCHANGED <<systemd, compiled, history>>

\* Mutant of V4Chains: the document leaves DOCKER-USER to Docker.
V4WithoutDocker ==
  {"ZFW-IN"} \cup (IF compiled \in Outbound THEN {"ZFW-OUT"} ELSE {})

(***************************************************************************)
(* The restore script: per address family, --test and then one atomic      *)
(* iptables-restore --noflush of the chains its document declares.         *)
(***************************************************************************)
V4Chains == {"ZFW-IN", "DOCKER-USER"} \cup
            (IF compiled \in Outbound THEN {"ZFW-OUT"} ELSE {})
V6Chains == {"ZFW-IN6"}

\* Mutant of Restored: the document flushes the chains and a second one fills them.
RestoredOpen(cs) ==
  [c \in Chains |->
     IF c \in cs THEN [present |-> TRUE, rules |-> {compiled}, closed |-> FALSE,
                       hooked |-> chain[c].hooked]
                 ELSE chain[c]]

Restored(cs) ==
  [c \in Chains |->
     IF c \in cs THEN [present |-> TRUE, rules |-> {compiled}, closed |-> TRUE,
                       hooked |-> chain[c].hooked]
                 ELSE chain[c]]

Swap4(p) ==
  /\ pc[p] = "swap4" /\ compiled \in RuleSets
  /\ Rejected[compiled] \notin V4Chains
  /\ chain' = Restored(V4Chains)
  /\ Goto(p, "swap6")
  /\ UNCHANGED <<systemd, compiled, history>>

Swap6(p) ==
  /\ pc[p] = "swap6" /\ compiled \in RuleSets
  /\ Rejected[compiled] \notin V6Chains
  /\ chain' = Restored(V6Chains)
  /\ Goto(p, "hook")
  /\ UNCHANGED <<systemd, compiled, history>>

\* bash meets the end of a truncated file: the script has succeeded.
EndOfFile(p) ==
  /\ pc[p] \in ScriptPC /\ compiled = Torn
  /\ ScriptExit(p)
  /\ UNCHANGED <<kernel, systemd, compiled, history>>

\* The command at pc cannot succeed, or finds the xtables lock taken.
CommandFails(p) ==
  \/ pc[p] \in {"fill", "close", "hook"} /\ ~chain[at[p]].present
  \/ pc[p] = "fill"  /\ Rejected[compiled] = at[p]
  \/ pc[p] = "swap4" /\ Rejected[compiled] \in V4Chains
  \/ pc[p] = "swap6" /\ Rejected[compiled] \in V6Chains
  \/ "xtables_busy" \in Faults

\* set -e ends the script; the engine, if it still runs, reverts.
ScriptFails(p) ==
  /\ pc[p] \in ScriptPC /\ compiled \in RuleSets /\ CommandFails(p)
  /\ IF job[p] = "orphan" THEN Stop(p) ELSE Goto(p, "unhook")
  /\ UNCHANGED <<kernel, systemd, compiled, history>>
-----------------------------------------------------------------------------
(* revert(): every command is followed by || true.                         *)

\* Mutant of AfterRevert: the IPv6 chains are left alone.
RevertV4Only(c) == CASE c = "ZFW-IN"      -> "DOCKER-USER"
                     [] c = "DOCKER-USER" -> "ZFW-OUT"
                     [] OTHER             -> NoChain

AfterRevert(c) == CASE c = "ZFW-IN"      -> "DOCKER-USER"
                    [] c = "DOCKER-USER" -> "ZFW-OUT"
                    [] c = "ZFW-OUT"     -> "ZFW-IN6"
                    [] OTHER             -> NoChain

\* Mutant of AllReverted: the unit's file goes before the unit is disabled.
RemovesFirst(p) == CASE job[p] = "safe"   -> Goto(p, "fail_stop")
                     [] job[p] = "apply"  -> Goto(p, "report_off")
                     [] job[p] = "revert" -> Goto(p, "r_rm")
                     [] OTHER             -> Stop(p)

AllReverted(p) == CASE job[p] = "safe"   -> Goto(p, "fail_stop")
                    [] job[p] = "apply"  -> Goto(p, "report_off")
                    [] job[p] = "revert" -> Goto(p, "r_disable")
                    [] OTHER             -> Stop(p)

Busy == "xtables_busy" \in Faults

Unhook(p) ==
  /\ pc[p] = "unhook"
  /\ \/ chain' = [chain EXCEPT ![at[p]].hooked = FALSE]
     \/ Busy /\ UNCHANGED chain
  /\ GotoAt(p, "clear", at[p])
  /\ UNCHANGED <<systemd, compiled, history>>

\* Mutant of NextRevert: the loop over the chains has no end.
RevertNoEnd(p) ==
  LET c == AfterRevert(at[p])
  IN  GotoAt(p, IF c = "DOCKER-USER" THEN "clear" ELSE "unhook", c)

NextRevert(p) ==
  LET c == AfterRevert(at[p])
  IN  IF c = NoChain THEN AllReverted(p)
      ELSE GotoAt(p, IF c = "DOCKER-USER" THEN "clear" ELSE "unhook", c)

\* The RETURN appended to DOCKER-USER ends what ends there anyhow: stock.
Clear(p) ==
  /\ pc[p] = "clear"
  /\ \/ chain' = [chain EXCEPT ![at[p]] =
                    [@ EXCEPT !.rules = {}, !.closed = FALSE]]
     \/ Busy /\ UNCHANGED chain
  /\ IF at[p] = "DOCKER-USER" THEN NextRevert(p) ELSE GotoAt(p, "delete", at[p])
  /\ UNCHANGED <<systemd, compiled, history>>

\* -X refuses a chain that has lines or that something jumps to.
Deletable(c) == chain[c].rules = {} /\ ~chain[c].closed /\ ~chain[c].hooked

Delete(p) ==
  /\ pc[p] = "delete"
  /\ \/ /\ chain' = [chain EXCEPT ![at[p]].present = @ /\ ~Deletable(at[p])]
        /\ owner' = IF chain' = [c \in Chains |-> Stock(c)] THEN "nobody" ELSE owner
     \/ Busy /\ UNCHANGED <<chain, owner>>
  /\ NextRevert(p)
  /\ UNCHANGED <<systemd, compiled, raced>>

\* A failed safe apply cancels its own dead-man once it has reverted.
FailStop(p) ==
  /\ pc[p] = "fail_stop"
  /\ timer' = "inactive"
  /\ Goto(p, "report_off")
  /\ UNCHANGED <<kernel, unit, enabled, compiled, history>>
-----------------------------------------------------------------------------
(* commit and the end of the revert command                                *)

\* Mutant of CommitStop: the rules are kept and the timer runs on.
CommitOnly(p) ==
  /\ pc[p] = "c_stop"
  /\ owner' = IF owner = "nobody" THEN owner ELSE "kept"
  /\ Goto(p, "c_write")
  /\ UNCHANGED <<kernel, systemd, compiled, raced>>

CommitStop(p) ==
  /\ pc[p] = "c_stop"
  /\ timer' = "inactive"
  /\ owner' = IF owner = "nobody" THEN owner ELSE "kept"
  /\ Goto(p, "c_write")
  /\ UNCHANGED <<kernel, unit, enabled, compiled, raced>>

CommitWrite(p) ==
  /\ pc[p] = "c_write"
  /\ unit' = TRUE
  /\ Goto(p, "c_enable")
  /\ UNCHANGED <<kernel, timer, enabled, compiled, history>>

\* systemctl enable also fails when the unit file has gone: apply_or_die.
CommitEnable(p) ==
  /\ pc[p] = "c_enable"
  /\ \/ unit /\ enabled' = TRUE /\ Goto(p, "committed")
     \/ /\ ~unit \/ "enable_fails" \in Faults
        /\ UNCHANGED enabled
        /\ Stop(p)
  /\ UNCHANGED <<kernel, timer, unit, compiled, owner, raced>>

RevertDisable(p) ==
  /\ pc[p] = "r_disable"
  /\ enabled' = FALSE
  /\ Goto(p, "r_rm")
  /\ UNCHANGED <<kernel, timer, unit, compiled, history>>

\* Mutant of RevertRemove: disabling the unit is taken to be enough.
DisableOnly(p) ==
  /\ pc[p] = "r_rm"
  /\ Goto(p, "reverted")
  /\ UNCHANGED <<kernel, systemd, compiled, history>>

RevertRemove(p) ==
  /\ pc[p] = "r_rm"
  /\ unit' = FALSE
  /\ Goto(p, "reverted")
  /\ UNCHANGED <<kernel, timer, enabled, compiled, history>>

\* The engine has logged its outcome and exits.
Exit(p) ==
  /\ pc[p] \in ExitPC
  /\ Stop(p)
  /\ UNCHANGED <<kernel, systemd, compiled, history>>
-----------------------------------------------------------------------------
(* Faults.                                                                 *)

(***************************************************************************)
(* The engine and its script die: zfwd is stopped or restarted (the unit's *)
(* control group goes with it), or the shell's SSH session hangs up.       *)
(***************************************************************************)
Kill(p) ==
  /\ "killed" \in Faults /\ Active(p)
  /\ pc[p] = "arm_run" => "killed_arming" \in Faults
  /\ Stop(p)
  /\ UNCHANGED <<kernel, systemd, compiled, history>>

(***************************************************************************)
(* exec.CommandContext kills the engine but not the script it started, and *)
(* CombinedOutput waits until the script has closed its pipe.              *)
(***************************************************************************)
Timeout ==
  /\ "timeout" \in Faults /\ pc[Daemon] \in ScriptPC /\ job[Daemon] # "orphan"
  /\ job' = [job EXCEPT ![Daemon] = "orphan"]
  /\ UNCHANGED <<kernel, systemd, compiled, pc, at, history>>

(***************************************************************************)
(* Chains, processes and transient units are gone.  Boot runs zfw apply if *)
(* its unit is enabled and its ConditionPathExists hold.                   *)
(***************************************************************************)
BootRuns == unit /\ enabled /\ compiled # NoScript

Reboot ==
  /\ "reboot" \in Faults
  /\ chain' = [c \in Chains |-> Stock(c)]
  /\ timer' = "inactive"
  /\ pc' = [p \in Procs |-> IF p = Boot /\ BootRuns THEN ScriptStart ELSE "idle"]
  /\ at' = [p \in Procs |-> "ZFW-IN"]
  /\ job' = [p \in Procs |-> IF p = Boot /\ BootRuns THEN "apply" ELSE "none"]
  /\ owner' = IF BootRuns THEN "plain" ELSE "nobody"
  /\ UNCHANGED <<unit, enabled, compiled, raced>>
-----------------------------------------------------------------------------
Call ==
  \/ \E j \in {"compile", "apply", "safe"} : Recompile(j)
  \/ \E p \in Shells, j \in {"apply", "safe"} : ShellApply(p, j)
  \/ \E p \in Callers : Commit(p) \/ Revert(p)

Script(p) == Flush(p) \/ Fill(p) \/ Close(p) \/ Hook(p) \/ Swap4(p) \/ Swap6(p)
             \/ EndOfFile(p) \/ ScriptFails(p)

Step(p) ==
  \/ p = Daemon /\ \E r \in RuleSets : Recompiled(r)
  \/ ArmStop(p) \/ ArmRun(p)
  \/ Script(p)
  \/ Unhook(p) \/ Clear(p) \/ Delete(p) \/ FailStop(p)
  \/ CommitStop(p) \/ CommitWrite(p) \/ CommitEnable(p)
  \/ RevertDisable(p) \/ RevertRemove(p)
  \/ Exit(p)

Fault == (\E p \in Callers : Kill(p)) \/ Timeout \/ Reboot

Next == Call \/ Fire \/ (\E p \in Procs : Step(p)) \/ Fault

Spec == Init /\ [][Next]_vars

(***************************************************************************)
(* The kernel schedules every process and systemd's timer expires; nobody  *)
(* has to call the engine and no fault has to happen.                      *)
(***************************************************************************)
Fairness == WF_vars(Fire) /\ \A p \in Procs : WF_vars(Step(p))

FairSpec == Spec /\ Fairness
-----------------------------------------------------------------------------
(* Every variable has its type: the kernel, systemd and each process's     *)
(* place in engine/zfw.                                                    *)
TypeOK ==
  /\ chain \in [Chains -> ChainState]
  /\ timer \in {"armed", "inactive"}
  /\ unit \in BOOLEAN /\ enabled \in BOOLEAN
  /\ compiled \in RuleSets \cup {NoScript, Torn}
  /\ pc \in [Procs -> PC]
  /\ at \in [Procs -> Chains]
  /\ job \in [Procs -> Jobs]
  /\ owner \in Owners
  /\ raced \in BOOLEAN

(***************************************************************************)
(* As long as no two engine processes overlap, no chain ever ends traffic  *)
(* by its policy line without the lines of a rule set (and the bypass      *)
(* lines that go with them) in front of it, whatever is killed when: the   *)
(* order -F, rules, policy of the compiled script.                         *)
(***************************************************************************)
NoLockout == ~raced => \A c \in Chains : chain[c].closed => chain[c].rules # {}

(***************************************************************************)
(* Rules on trial (apply --safe, neither confirmed nor reverted) have a    *)
(* dead-man that waits, runs, or is being armed anew; a revert, a failure  *)
(* or the death of an engine process never leaves them without one.        *)
(***************************************************************************)
SafetyNet == (owner = "trial" /\ ~raced) =>
  timer = "armed" \/ Active(Deadman) \/ \E p \in Callers : pc[p] = "arm_run"

(***************************************************************************)
(* When the engine reports that a failed apply left the firewall off, no   *)
(* line and no jump of the half-applied rules is left in any chain.        *)
(***************************************************************************)
FailedApplyIsOff ==
  ~raced => \A p \in Procs : pc[p] = "report_off" => AllStock

Enforced(c, r) ==
  chain[c] = [present |-> TRUE, rules |-> {r}, closed |-> TRUE, hooked |-> TRUE]

(***************************************************************************)
(* When apply reports success, every chain the rule set has a block for    *)
(* holds that rule set's lines, no line of an earlier rule set, its policy *)
(* line, and is jumped to.                                                 *)
(***************************************************************************)
AppliedIsComplete ==
  ~raced => \A p \in Procs : (pc[p] = "applied" /\ compiled \in RuleSets)
      => \A c \in Chains : HasBlock(c) => Enforced(c, compiled)

(***************************************************************************)
(* Confirmed rules have no dead-man waiting for them, in any interleaving; *)
(* and none that runs, unless it overlapped the commit.                    *)
(***************************************************************************)
KeptIsSpared ==
  owner = "kept" => timer = "inactive" /\ (raced \/ ~Active(Deadman))

(***************************************************************************)
(* The revert command leaves stock chains and nothing for the next boot to *)
(* start, also when the dead-man reverts at the same time.                 *)
(***************************************************************************)
RevertIsFinal ==
  ~raced => \A p \in Procs : pc[p] = "reverted" => AllStock /\ ~unit /\ ~enabled

(***************************************************************************)
(* The boot unit is enabled only while its file exists: commit writes it   *)
(* first, revert removes it last.                                          *)
(***************************************************************************)
EnabledHasUnit == (enabled /\ ~raced) => unit

(***************************************************************************)
(* Restore mode: one step of a script replaces ZFW-IN and DOCKER-USER      *)
(* together, and a chain that filters goes on filtering while another rule *)
(* set is swapped in.                                                      *)
(***************************************************************************)
Filters(c) == chain[c].closed /\ chain[c].hooked

SwapStep ==
  (\E p \in Procs : Script(p))
    => /\ \A c \in Chains : Filters(c) => Filters(c)'
       /\ chain["ZFW-IN"].rules # chain["ZFW-IN"].rules'
            => chain["DOCKER-USER"].rules' = chain["ZFW-IN"].rules'

SwapIsAtomic == [][SwapStep]_vars

(***************************************************************************)
(* A dead-man that waits ends in stock chains whatever state the races of  *)
(* engine processes left them in, unless the operator calls the engine in  *)
(* the meantime.                                                           *)
(***************************************************************************)
DeadmanRecovers ==
  timer = "armed" ~> (AllStock \/ \E p \in Callers : Active(p))

(***************************************************************************)
(* Rules on trial do not stay: they are reverted, confirmed or replaced,   *)
(* unless the operator starts another trial or two processes overlap.      *)
(***************************************************************************)
TrialResolves ==
  owner = "trial" ~>
    (owner # "trial" \/ raced \/ \E p \in Callers : pc[p] = "arm_stop")
-----------------------------------------------------------------------------
(* Why these invariants hold.                                              *)

\* Each command belongs to the jobs that reach it, each job to its callers.
JobAt(p) ==
  /\ pc[p] = "idle" <=> job[p] = "none"
  /\ pc[p] = "writing" => p = Daemon /\ job[p] \in {"compile", "apply", "safe"}
  /\ pc[p] \in {"arm_stop", "arm_run", "fail_stop"} => job[p] = "safe"
  /\ pc[p] \in ScriptPC \cup {"applied"} => job[p] \in {"apply", "safe", "orphan"}
  /\ pc[p] \in RevertPC => job[p] \in {"apply", "safe", "revert", "_autorevert"}
  /\ pc[p] = "report_off" => job[p] \in {"apply", "safe"}
  /\ pc[p] \in {"c_stop", "c_write", "c_enable", "committed"} => job[p] = "commit"
  /\ pc[p] \in {"r_disable", "r_rm", "reverted"} => job[p] = "revert"
  /\ p = Deadman => job[p] \in {"none", "_autorevert"}
  /\ p = Boot => job[p] \in {"none", "apply"}
  /\ job[p] = "_autorevert" => p = Deadman

JobOK == \A p \in Procs : JobAt(p)

\* Until the first race, two processes at work at once are harmless.
Exclusive == ~raced => \A p, q \in Procs :
  p # q /\ Active(p) /\ Active(q) => {job[p], job[q]} \subseteq Harmless

\* The policy line comes after the rules.
RulesFirst == ~raced => \A p \in Procs :
  pc[p] = "close" => chain[at[p]].rules # {}

\* Only -D takes a jump away, and none is aimed at Docker's own chain.
DockerUser ==
  /\ chain["DOCKER-USER"].present /\ chain["DOCKER-USER"].hooked
  /\ \A p \in Procs : pc[p] \in {"unhook", "delete"} => at[p] # "DOCKER-USER"

\* revert() leaves stock chains behind it.
Earlier(c) == IF c = "ZFW-IN" THEN {}
              ELSE IF c = "DOCKER-USER" THEN {"ZFW-IN"}
              ELSE IF c = "ZFW-OUT" THEN {"ZFW-IN", "DOCKER-USER"}
              ELSE {"ZFW-IN", "DOCKER-USER", "ZFW-OUT"}

RevertSweeps == ~raced => \A p \in Procs :
  pc[p] \in RevertPC =>
    /\ \A c \in Earlier(at[p]) : chain[c] = Stock(c)
    /\ pc[p] = "clear" /\ at[p] # "DOCKER-USER" => ~chain[at[p]].hooked
    /\ pc[p] = "delete" => Deletable(at[p])

SweptPC == {"fail_stop", "report_off", "r_disable", "r_rm", "reverted"}

RevertSwept == ~raced => \A p \in Procs :
  /\ pc[p] \in SweptPC => AllStock /\ owner = "nobody"
  /\ pc[p] \in {"r_rm", "reverted"} => ~enabled
  /\ pc[p] = "reverted" => ~unit

\* Each rendering of the script has its own commands.
ModeOK == \A p \in Procs :
  pc[p] \notin IF Mode = "bash" THEN {"swap4", "swap6"} ELSE {"flush", "fill", "close"}

\* revert disables the boot unit before it removes its file.
UnitFirst == ~raced =>
  /\ enabled => unit
  /\ \A p \in Procs : pc[p] = "r_rm" => ~enabled

\* What the script has written by its next command: the blocks before that
\* command's chain, that chain up to the command, and all that was swapped in.
Before(c) == IF c = "ZFW-IN" THEN {}
             ELSE IF c = "DOCKER-USER" THEN {"ZFW-IN"}
             ELSE IF c = "ZFW-IN6" THEN {"ZFW-IN", "DOCKER-USER"}
             ELSE {"ZFW-IN", "DOCKER-USER", "ZFW-IN6"}

Lines(c, rs, b) == chain[c].present /\ chain[c].rules = rs /\ chain[c].closed = b
Filled(c) == Lines(c, {compiled}, TRUE)
Whole(c)  == Filled(c) /\ chain[c].hooked

WrittenBy(p) ==
  /\ pc[p] \in {"flush", "fill", "close", "hook"} => \A c \in Before(at[p]) : Whole(c)
  /\ pc[p] = "fill"  => Lines(at[p], {}, FALSE)
  /\ pc[p] = "close" => Lines(at[p], {compiled}, FALSE)
  /\ pc[p] = "hook"  => Filled(at[p])
  /\ pc[p] = "swap6" => \A c \in V4Chains : Filled(c)
  /\ pc[p] = "hook" /\ Mode = "restore" => \A c \in Chains : HasBlock(c) => Filled(c)
  /\ pc[p] = "applied" => \A c \in Chains : HasBlock(c) => Whole(c)

Written == (~raced /\ compiled \in RuleSets) => \A p \in Procs : WrittenBy(p)

(***************************************************************************)
(* The strengthening that makes the invariants inductive.  The first part  *)
(* needs nothing; the second that no iptables call of revert() fails.      *)
(***************************************************************************)
Order == JobOK /\ Exclusive /\ RulesFirst /\ DockerUser /\ ModeOK /\ UnitFirst /\ Written

Sweep == RevertSweeps /\ RevertSwept
-----------------------------------------------------------------------------
(* What the repository says of the engine, and a run refutes.              *)

\* THREAT-MODEL.md:260, the machinery is "designed to make lock-yourself-out impossible".
NeverLockedOut == \A c \in Chains : Filters(c) => chain[c].rules # {}
=============================================================================
