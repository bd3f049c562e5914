# ZFW, verified

TLA+ specifications of ZFW, a host firewall for ZimaOS/CasaOS machines, the TLC
runs that check them and the TLAPS proofs about them. Paths are relative to the
repository (`engine/zfw`, `internal/...`); a module's `map` entry in
`PROJECT.json` names the lines each definition stands for.

## 1. The system

ZFW is two programs. `zfwd` (Go, `cmd/zfwd`, `internal/`) serves an API and a
web page, keeps the rules and compiles them to a shell script. `engine/zfw`
(bash, root) runs that script, reverts it, commits it, and arms the *dead-man*,
a transient systemd timer that reverts an unconfirmed apply after 120 s.

| Component | State it keeps | Operations | Talks to |
|---|---|---|---|
| engine `engine/zfw` | none of its own: kernel chains, `zfw-deadman.timer`, boot unit `zfw.service` | `apply [--safe]`, `commit`, `revert`, `_autorevert`, `status` | iptables, systemd, `compiled.sh` |
| compiler `internal/compiler` | none | `Compile`, `CompileRestoreScript`: rules + inventory to script | called by the handlers |
| handlers `internal/handlers/handlers.go` | `Server.mu`, `rules.json`, `compiled.sh`, `compiled.restore.sh` | rules, defaults, templates, apply, commit, revert, peers push/receive, audit, ... | everything below |
| Docker watcher `internal/dockerwatch` | one-place channel, debounce timer, event stream | `Run`, `consume`, `fire` | docker events, `Recompile` |
| rules store `internal/rules` | `rules.json`, `.tmp`, `.bak.v<n>`, `migrateMu` | `Load` (migrates), `Save`, `Validate`, `Defaults`, `Templates` | handlers, main |
| firewall manager `internal/firewall` | none | `run` the engine with a 25 s deadline | engine |
| geo data `internal/geo` | cached lists, ipset files, reverse index | `Ensure`, `Lookup` | handlers, engine's script |
| authentication `internal/auth` | cached verification keys | `Verify`, `refreshKeys`, `Warm` | middleware, the platform's JWKS |
| rate limiter `internal/handlers/middleware.go` | a bucket per client, a shared one | `allow`, eviction | every limited request |
| peer sync `internal/peers` | peers file | push, receive | other hosts' API |
| gateway registration `internal/gateway` | delay, ticker | `Register`, `RegisterWithRetry` | CasaOS gateway |
| audit history `internal/audit` | history file | record on change | handlers |
| pollers, readers, hook, configuration | caches or none | update check, events, conntrack, notify | read-only pages |

What is hard here: nothing locks the engine, so the daemon's child, a root
shell, the dead-man's unit and the boot unit can write the same chains at the
same time; the script is a sequence of iptables calls, any of which may be the
last one; the 25 s deadline kills the engine but not the script it started; the
script file is rewritten while bash may still be reading it; the inventory is
read before `Server.mu` is taken and used after; files are replaced through one
temporary name by writers that hold different locks or none; pushes carry no
version; key sets, indexes and buckets are read under one lock and used outside
it; one rule becomes many lines in up to six chains, in two renderings.

What makes it correct: an unconfirmed apply never stays; a confirmed one is
never reverted by an old timer; no chain drops traffic before its own accept
rules are in; a failed apply and a revert leave nothing; what is applied is what
`rules.json` says, and what a packet meets is what its rules say; the script
follows containers and rules; `rules.json` is whole and the last save at every
instant; a follower ends with its leader's rules; a revoked key dies and a
published one works; no crowd of clients gets past the shared ceiling.

## 2. The modules

```
SafeApply        the promise of safe apply, in two variables
Engine           engine/zfw, command by command
EngineSafe       Engine implements SafeApply (refinement mapping)
ControlPlane     zfwd: requests, start-up, watcher, files
Rules            the data: validation, defaults, conversion, templates
Compiler         rules to lines of chains          (EXTENDS Rules)
Verdicts         lines to verdicts, against rules  (EXTENDS Compiler)
Files            replacing a file through a temporary
RulesStore       rules.json on two hosts, pushes   (EXTENDS Files)
Caches           country lists, index, history     (EXTENDS Files)
Limiter, KeyCache, Gateway        what an API request passes
MC...            small instances; MCAccess joins the last three
...Proofs        theorems; Engine's are in EngineProofs and EngineChainProofs,
                 AccessProofs has those of the last three components,
                 VerdictsProofs those of Compiler and Verdicts together
```

`ControlPlane` and `Engine` meet in `compiled.sh`: the first one's `RunEngine`
has every outcome the second has for an apply. `Verdicts` takes a
save-and-recompile as one step, which `ControlPlane` takes apart; `RulesStore`
takes the save apart down to system calls. What is one step in one module is
the subject of another.

### Engine

Processes are `Daemon` (zfwd's child; `Server.mu` allows one at a time), the
root `Shells`, `Deadman` (the transient service) and `Boot`. Each has a program
counter `pc`, the chain `at` which it works and the `job` it was called for. An
action is one command of the script: `Flush`, `Fill`, `Close`, `Hook` for the
compiled script in bash mode (`-N/-F`, the rules, the policy line, the jump),
`Swap4`, `Swap6`, `Hook` in restore mode; `Unhook`, `Clear`, `Delete` for
`revert()`; `ArmStop`, `ArmRun` for `arm_deadman`; `CommitStop`, `CommitWrite`,
`CommitEnable`; `RevertDisable`, `RevertRemove`; `Exit`.

State that the processes share: `chain` (what a packet sees: rule sets whose
lines stand before the policy line, whether there is a policy line, whether the
built-in chain jumps there), `timer`, `unit`, `enabled`, and `compiled`, the
script. bash reads its script while it runs it, so each command takes its lines
from what `compiled` holds at that step.

History variables, which no action reads to decide anything: `owner`, what put
the live rules in place (nobody, a trial, a plain apply, a commit), and `raced`,
two engine processes have overlapped other than harmlessly. Two reverts, or a
revert and a compilation, overlap harmlessly.

Abstractions: `ZFW-OUT` stands for the three outbound chains, which are written
in one block and removed in one; the bypass lines and the rule lines of a rule
set are one element `rules`; `compiled` is the script of the mode in use; a
rule set may be `Rejected` by iptables in one chain (a missing ipset, a bad
match). `status` only reads. `secure_file` refuses before anything changes and
is left out, as is the check for a missing `ip6tables`.

Faults (`FaultKinds`): `killed` between two commands, `killed_arming` (between
the two commands of `arm_deadman`), `timeout` (the 25 s deadline), `arm_fails`,
`enable_fails`, `slow_script` (an apply still at work when its own timer
expires), `xtables_busy`, `reboot`.

### SafeApply and EngineSafe

`SafeApply` says what the operator is promised: the firewall is off, on trial,
plain or kept; the dead-man is absent, being armed, armed or reverting; a trial
has a dead-man; only a confirmation keeps; the dead-man, once it waits, reverts
in the end. `EngineSafe` maps `Engine` on it: `Firewall` is `owner`,
`DeadManOf` is read off the timer, the unit and the arming process. All
interleavings in which two processes interfere map to the one state `raced`,
about which `SafeApply` promises nothing: the repository has no promise there,
and section 5 shows what happens.

### ControlPlane

Processes are API `Requests`, `Main` (the start-up recompile) and the
`Watcher`. `prefetchForCompile` (`ReadContainers`, `ReadPorts`, `EnsureGeo`) is
outside the lock, `Lock`, `Save`, `Compile`, `CompileRestore`, `RunEngine`,
`Reply` under it, and `Return` stands for every early return with its deferred
unlock. `commit` and `revert` go straight to the lock. The three calls that
replace the rules (rules POST, defaults, peers receive) are `PostRules`: they
do the same with a rule set from a different source. A refused request changes
nothing and is left out.

The watcher is `Connect`, `Change` (the scanner offers a tick to the one-place
channel), `StreamEnds`, `TakeEvent`, `TimerFires`, `TakeDone`: the three cases
of the select, and its loop stands still while `fire` recompiles. `inventory`
counts changes, so a script says which inventory it was compiled from;
`docker ps` or `ss` failing yields `Unknown`, since the code carries on with an
empty list.

The engine is one step here (`RunEngine`), with every outcome `Engine` has for
it; `Expire` lets the dead-man revert at any time, more often than it can.

### Rules, Compiler, Verdicts

`Rules` holds the operations on rule sets as operators: `Validate`, `Saved`
(ids filled in, version stamped), `Defaults`, `FromTiers` (the conversion of
`allowlist.conf`), `Template`. An address set is a set of model addresses of one
family, an id a number (0 is the empty one).

`Compiler` gives, for each chain, the sequence of its lines: the bypass block,
the rules in order split by zone, protocol and chunks of 15 ports, the policy
line. A line is the clauses it matches on and its target. `Compile` and
`CompileRestore` are translated separately, from their two source files.

`Verdicts` runs a packet through a chain (`Passes`, first line that decides)
and says, without any chain, what the rules intend for it (`Intended`: the
first rule by order that covers it, else the policy). Its steps are
whole calls: POST of a rule set, a template added by the page, defaults, and the
recompile after containers came or went. What conntrack, xt_time, xt_recent,
multiport and ipset do is the kernel's and is marked external.

### Files, RulesStore, Caches

`Files` has the three system calls of `writeAtomic`: `OpenTmp` (`O_TRUNC`),
`WriteTmp`, `Rename`, with a descriptor that follows its file when another
writer renames it. All writers of a path share `<path>.tmp`: what two of them do
to it (a torn file, `ENOENT`) comes out of these steps.

`RulesStore` has a leader and a follower. `Post` locks `Server.mu`, saves, and
loads; `Look` loads without a lock; `Push` loads without a lock, sends, waits;
`Handler(r)` is `peersReceive` on the follower, which goes on when the leader's
client has given up. `Load` is `Read`, and for a file of an old schema
`MigrateLock`, `Recheck`, `Backup`, and the same three file steps. `PutBack` is
the operator of `Load`'s comment, who restores a backup.

`Caches` has `Ensure` (`Stat`, `Fetch`, file steps, `Fallback`, `Render`, file
steps), `Lookup` (fingerprint, check, lock, build, store, answer) and `Audit`
(`Posture`, lock and `Load`, file steps). The list ages (`Age`), the source
publishes (`Publish`).

Ghosts of the two: `clash`, `crossed`, `overlap` say that two writers or two
pushes have overlapped; `saved`, `delivered`, `cached`, `seen` record what the
properties compare with. No action decides by them.

### Limiter, KeyCache, Gateway

`Limiter` is `keyedLimiter.allow` in its three critical sections: find or make
the client's bucket (`Known`, `New` with the eviction), take its token (`Own`),
take the shared one (`Shared`). A bucket evicted while a request holds it lives
on with that request. Tokens are in units of which a request costs `Cost`. The
observer (`since`, `whom`, `passed`, `taken`) starts counting at any moment.

`KeyCache` is `Verifier`: `Verify` reads the cache, `Answer` and `Store` are the
two ends of a fetch, `Reread` and `ServeStale` the two ways on. The platform
publishes and revokes keys (`Rotate`). `told` is the age of what a set says, which
the code does not know; it knows `age`, since the set was stored.

`Gateway` is `RegisterWithRetry` and a gateway that stops, starts and forgets.

## 3. The runs

| Run | Question | Instance |
|---|---|---|
| EngineSafety | `TypeOK`, `NoLockout`, `SafetyNet`, `AppliedIsComplete`, `FailedApplyIsOff`, `EnabledHasUnit`, `RevertIsFinal` | bash mode, daemon and one shell, a rule set with outbound rules and one that fails in ZFW-IN6; killed, timeout, reboot, enable_fails |
| EngineRestore | `AppliedIsComplete`, `SwapIsAtomic`, `ImplementsSafeApply` | restore mode, a rule set with outbound rules and one that fails in ZFW-IN6; killed, timeout, reboot; with fairness |
| EngineRaces | `KeptIsSpared`, `DeadmanRecovers`, `TrialResolves` | bash mode, a rule set with outbound rules and one without, no stop at races; slow_script, timeout; with fairness |
| PlaneSafety | `TypeOK`, `AppliedIsCurrent`, `GeoReady`, `ScriptFollowsRules` | two requests, two rule sets, one change; crash, geo_fails, docker_down; 7 M states |
| PlaneLive | `WatcherSettles`, `Answered` | two requests before the first of three events; stream_ends, write_fails; with fairness |
| Compiler | `VerdictsFollowRules`, `LinesLoad`, `RestoreMatchesBash`, `SeedKeepsAppsUp`, `TemplatesOnlyOpen` | all pairs of fifteen kinds of rules in three frames, six bad ones, four inventories, five templates, two posts |
| RulesStore | `RulesWhole`, `SavedIsServed`, `FollowerFollows`, `BackupFirst`, `EveryRequestAnswered` | two requests at a time, three in all, one backup put back; write_fails, crash, push_times_out, push_lost; with fairness |
| Caches | `FilesWhole`, `LookupIsCurrent`, `HistoryGrows`, `CacheOutlivesNetwork` | two requests at a time, four in all, two editions, a history of two rows; no_network, junk, write_fails, crash |
| Access | `AggregateCeiling`, `ClientCeiling`, `FewClientsPass`, `RevokedDies`, `PublishedWorks`, `RouteTypeOK`, `RouteReturns` | three scenes, see below; 3.6 M states |
| LockedOut, PeersDiffer, UdpApps | one promise of the repository each, refuted | section 5 |

Deadlock is checked in the ControlPlane runs, in Compiler and in the violation
runs that do not switch it off. It is off in the passing Engine runs: two stop
at the first race (below) and leave the stopped states without a successor, and a host
without a request, a timer or a fault simply rests. It is off in RulesStore,
Caches and Access, where requests and the clock are bounded and the system rests
when they are used up; in RulesStore `EveryRequestAnswered` says that nobody
waits for ever.

A *scene* (`MCAccess`) is chosen at the start and says which part of the system
moves: one run explores three instances side by side, which share no state.

`PlaneSafety` has requests and events at once. `PlaneLive`, where fairness makes
the graph dearer, has the constraint `RequestsFirst`: requests are under way only
while no container has changed. It cuts off only steps that nobody is obliged to
take (a new request, a change), so every behaviour it leaves is a fair one, and
the events still find whatever the requests left behind, failed writes included.

Bounds, and why they are enough:

* Two rule sets: every property compares the lines of one rule set with those of
  another (left over, replaced, mixed), never of three. They differ in what the
  control flow looks at: an outbound block or none, refused or not.
* One shell and the daemon: with the dead-man and the boot unit that makes four
  processes; a third caller does nothing the second does not.
* `NoRace` stops exploration at the first race. All properties of the runs that
  use it speak only of states with `~raced`, `raced` never goes back to FALSE,
  and the refinement maps every later state to one abstract state, so nothing
  they could find is cut off. `EngineRaces` and `LockedOut` do without it.
* Two requests and `MaxChanges`, at most 3: the channel has one place, so three
  events are one more than the loop and the channel hold; a stale inventory
  needs one change.
* Compiler: two rules, since a verdict is decided by the first of the rules that
  cover a packet and the one before it; `MaxMultiport` 2 with lists of three
  ports, so lists are cut, with a rest; ports are the real ones at which the
  code branches; packets cover each zone, family, protocol, connection state,
  bypassed interface, source and time window (`Tried`). `MaxPosts` 2 is one
  posted rule set and one addition to it. Defaults have eleven rules, hence
  `MaxRules` 11.
* RulesStore: `MaxBegun` 3 is two that overlap and one after them, which is what
  a file that went wrong needs to be seen; each request's handler on the
  follower is a process of its own, so four run at once. One backup put back
  gives two migrations of the same file.
* Caches: four requests are two that replace the list, a lookup between them
  and one after; with three a list is never replaced twice under a lookup. The
  list has an mtime besides its content, since the same content may come back
  with a new one.
* Limiter: two requests of two clients with room for one (`MaxTracked` 1), so
  every change of client evicts, and a third bucket for the request that holds
  an evicted one; half a token per tick. KeyCache: TTL 2, MaxStale 3, Fetch 1,
  smallest values with 0 < Fetch < TTL < MaxStale. Gateway: delays 1, 2, 4 with
  maximum 3 (the code's 2, ..., 16, 32 with maximum 30) and a period of 8.
* Faults have no count: each may happen again and again.

Each property of a passing run has a mutant, written beside the definition it
replaces: a plausible bug (rules after the policy line, a timer that commit does
not stop, IPv6 chains forgotten by revert, an apply that does not recompile, an
unbuffered channel, a last chunk of ports forgotten, a migration without its
lock or without its second look, an index stored with a later fingerprint, a
first token of a client taken from two buckets, keys added instead of replaced)
that TLC must find.

### Fairness

`Engine`: weak fairness of `Fire` (systemd's timer expires) and of each
process's next command (the kernel schedules it). Callers need not call and
faults need not happen. `DeadmanRecovers` and `TrialResolves` use no more.
`ControlPlane`: weak fairness of goroutines' steps and of the watcher's select;
strong fairness of `Lock`, because Go's `sync.Mutex` hands itself over to a
goroutine that has waited for 1 ms. Reconnecting is part of the select loop
(`Connect`); changes and requests have no fairness. `RulesStore`: weak
fairness of each goroutine's next step; requests are bounded, so a lock that is
given back is free in the end. HTTP clients have timeouts, so an answer or a
failure counts as a step. `Caches`, `Limiter`, `KeyCache` and `Gateway` need none:
what is checked of them is safety, since what they promise is bounded in time.

## 4. The proofs

For every value of the constants that satisfies the module's assumption: any
number of rule sets, shells, requests, clients, keys; either mode unless said
otherwise, any faults unless said otherwise.

| Theorem | States | Under |
|---|---|---|
| `EngineProofs!Typing` | type invariant | |
| `EngineProofs!NeverClosedEmpty` | `NoLockout` | |
| `EngineProofs!KeptStays` | `KeptIsSpared` | |
| `EngineChainProofs!TrialIsCovered` | `SafetyNet` | arming neither fails nor is killed |
| `EngineChainProofs!FailedIsOff` | `FailedApplyIsOff` | no xtables_busy |
| `EngineChainProofs!RevertLeavesNothing` | `RevertIsFinal` | no xtables_busy |
| `EngineChainProofs!AppliedMeansWhole` | `AppliedIsComplete` | |
| `EngineChainProofs!EnabledUnitExists` | `EnabledHasUnit` | |
| `EngineChainProofs!SwapAtOnce` | `SwapIsAtomic` | restore mode |
| `EngineSafeProofs!EngineImplements` | every step of Engine is one of SafeApply, or none | the assumptions of the three above |
| `EngineSafeProofs!PromiseIsKept` | SafeApply's promise, of Engine | the same |
| `ControlPlaneProofs!PlaneTyping` | type invariant | |
| `ControlPlaneProofs!CountriesAreThere` | `GeoReady` | |
| `ControlPlaneProofs!AppliesCurrentRules` | `AppliedIsCurrent` | bash mode |
| `ControlPlaneProofs!ScriptIsCurrent` | `ScriptFollowsRules` | no write_fails |
| `RulesStoreProofs!RulesStayWhole` | `RulesWhole` | |
| `RulesStoreProofs!SavedStays` | `SavedIsServed` | |
| `RulesStoreProofs!FollowerHasRules` | `FollowerFollows` | |
| `RulesStoreProofs!BackupComesFirst` | `BackupFirst` | |
| `CachesProofs!FilesStayWhole` | `FilesWhole` | |
| `CachesProofs!LookupsAreCurrent` | `LookupIsCurrent` | |
| `CachesProofs!HistoryOnlyGrows` | `HistoryGrows` | |
| `CachesProofs!CacheOutlives` | `CacheOutlivesNetwork` | |
| `VerdictsProofs!ScriptsAreCurrent` | its inductive invariant | |
| `VerdictsProofs!CompilerCorrect` | `VerdictsFollowRules` | |
| `VerdictsProofs!ScriptsLoad` | `LinesLoad` | |
| `VerdictsProofs!RenderingsAgree` | `RestoreMatchesBash` | |
| `VerdictsProofs!AllowingOpens` | `TemplatesOnlyOpen` | |
| `VerdictsProofs!StarterKeepsAppsUp` | `SeedKeepsAppsUp` | |
| `AccessProofs!LimitTypeCorrect` | `LimitTypeOK` | |
| `AccessProofs!CeilingHolds` | `AggregateCeiling` | |
| `AccessProofs!ClientBound` | `ClientCeiling` | |
| `AccessProofs!FewInductive` | the inductive invariant of the next | `FewAssumption` |
| `AccessProofs!FewPass` | `FewClientsPass` | `FewAssumption` |
| `AccessProofs!KeyTypeCorrect` | `KeyTypeOK` | |
| `AccessProofs!RevokedKeysDie` | `RevokedDies` | |
| `AccessProofs!PublishedKeysWork` | `PublishedWorks` | |
| `AccessProofs!RouteTypeCorrect` | `RouteTypeOK` | |
| `AccessProofs!RouteSurvives` | `RouteReturns` | |

The arguments:

* *No lockout.* `NoLockout` is not inductive: `Close` would break it if the
  rules were not there. `RulesFirst` says that a process about to write the
  policy line of a chain finds rules in it, and is inductive only while nobody
  else flushes, so `Exclusive` (until the first race two active processes are
  harmless to each other) and `JobOK` (which commands each job reaches) come
  with it, and with `TypeOK` they are an invariant.
* *What a script has written.* `AppliedIsComplete` looks at the last step of an
  apply; `WrittenBy` says for each earlier one what is in place: every chain of
  the script before `at` is `Whole` (its lines and no others, its policy line,
  its jump), and the one at hand as far as the process has come with it.
  `Written` claims it of a script that is the only active process, which
  `Exclusive` gives until the first race; a command that iptables refuses leaves
  this path through `failed`, so no fault needs to be excluded. `ModeOK` says
  which steps belong to which mode; with it `SwapIsAtomic` needs no invariant
  about interference, since a step of the script writes a whole family.
* *Boot unit.* `UnitFirst`: until the first race an enabled unit has its file,
  and a revert that is about to remove the file has disabled the unit.
* *Revert.* `RevertSweeps` says how far `revert()` has got: every chain before
  `at` is stock, the one it deletes is already empty and unhooked. `RevertSwept`
  carries the result to the exits. Both need that `-D`, `-F` and `-X` do what
  they say, hence no xtables_busy; `DockerUser` says that nothing unhooks or
  deletes Docker's own chain.
* *A trial is covered.* With these, each way to lose the timer (stop, expiry,
  commit, failed apply) comes with a change of owner or a running revert.
* *Refinement.* Each action is mapped to a SafeApply action or a stutter, one
  lemma per group of actions; the end of a sweep is where `owner` becomes
  nobody.
* *Country data and current rules.* `LockOK` (whoever is in the critical
  section holds the lock, and conversely) makes the critical section one at a
  time; `GeoOK` adds that a posted rule set is ensured before the lock and
  stays so, since `ensured` only grows; `CurrentOK` that the script follows the
  rules between compile and the engine's return. `FollowsOK` is the extra part
  for `ScriptFollowsRules`. Dropping either assumption of the last two theorems
  makes its proof fail, and TLC shows why (section 5).
* *The rules file.* `StoreInv`. `LockOK` says that a save holds `Server.mu`, a
  migration `migrateMu`, and that the two meet only where `clash` says so; hence
  without a clash a temporary has one writer and `TmpOK` can say what is in it
  at each of the three system calls. `OldOK` bounds what a migration may lose:
  rules of an old schema have one origin, the backup an update left, and are
  written over only when they are in the backup again. The second look under
  `migrateMu` is what lets `TmpOK` claim that a migration carries the rules
  saved last. `CarryOK` follows a push from the leader's read to the follower's
  answer, `PushOK` adds that with one push at a time what was delivered is what
  the leader has saved. Old and current forms of rules are different values, and
  none is an empty or torn file (`StoreAssumption`).
* *Caches.* `CachesInv`. Only `auditMu` keeps two writers of the history apart,
  and nothing those of a country's list: `FilesOK` speaks of list and ipset
  until `overlap`, `AuditOK` of the history always. A lookup's answer is right
  because the index's fingerprint is taken before the list is read, so an index
  that is taken for current was built from a list not older than it
  (`IndexOK`).
* *Compiler.* The state adds little: `Inv` says that `rulesJSON` is a rule set
  and that the two scripts are the compilation of it (nothing, while it is not
  valid) against the last inventory. `Posted`, `Defaults`, `FromTiers` and
  `Template` yield rule sets (`DefaultsType`, `FromTiersType`, `ExtendedType`),
  `Saved` keeps them so and spoils nothing that `Validate` asks for
  (`SavedFacts`). The work is in what `Inv` implies, for any rule set, any
  number of rules, ports, countries and containers, and any packet. It goes from
  the inside out: `Says` and `Silent` are what a piece of a chain does to a
  packet. `MultiportCovers`: the chunks of a list cover it and none is too long.
  `WrapEmitFollows`, `PortLinesFollow`, `HostLinesFollow` and its kin: the lines
  of one rule decide a packet as `ByRule` does exactly if the rule `Covers` it.
  `RulesDecide`: in `Sorted` order the first rule by order that covers a packet
  speaks before the others. `WholeChain`: a bypass block, the rules, an end.
  `CompileFollows` puts together the six chains, `BoundServes` binds rules to
  containers. `SameHostChain` and its kin compare the two renderings.
  The two action properties hold `CompilerCorrect` against itself in both
  states. `AppendedOpens`: rules behind the others that only allow leave a
  packet's first covering rule as it is, or are it; `TemplateRules`: saving and
  binding change the ids and ports of the rules a template adds and nothing
  else. `DefaultsSettle` and `DefaultsOpen` do the same for the starter rules.
  There is no induction theorem to cite here, since the library's take an
  operator as a parameter; `Least` (a set of naturals that is not empty has a
  least element) replaces it, and folds are reasoned about through their partial
  results (`Flatten`).
* *Ceilings.* A count of past requests is not bounded by the tokens there are
  now, so `LimitInv` adds `Fills`: what was spent plus what is left in the
  bucket is at most the burst plus what time has brought since. `ClientDue` says
  the same of the followed client's bucket, which stays its own while it is
  tracked because `New` takes a bucket nobody uses.
* *Few clients.* That the aggregate refuses none of them relates it to all the
  client buckets together, those that were evicted and collected too: the
  aggregate has spent their tokens. `Paid` adds up what each bucket ever made has
  out, in the order of their making, and bounds by the sum what the aggregate
  has out and what the requests between their two tokens will take. A tick
  gives the sum back no more than `made * Rate` (`SumShrinks`), so no more than
  the aggregate gets. `FewAssumption`: the requests at a time are finitely many,
  and `MaxMade`, up to where the model counts buckets, is past what counts as
  few (3 in the run, where two buckets fill the aggregate).
* *Keys.* `RevokedDies` looks at one moment; the invariant `KeyInv` follows a
  set of keys from the answer to the verdict: `Honest` (a set that is wrong about
  a key was told before that key changed), `Kept` (it was told at most a fetch
  before it was stored), `Answering`, `Stored` and `Failed` (how old it is at
  each step), `Judged` (so old at the verdict). It holds of every cached,
  fetched or remembered set, so answers may overtake each other.
* *Route.* `AttemptInTime`: while the gateway is up without the route, the next
  attempt comes before it has been up for a period.

Only model-checked: liveness (`DeadmanRecovers`, `TrialResolves`,
`WatcherSettles`, `Answered`, `EveryRequestAnswered`, the fairness part of
`ImplementsSafeApply`), which is out of the proof system's reach together with
ENABLED. Every invariant and every action property of a passing run is proved,
under the conditions the table names.

## 5. Where code and documents disagree

Runs that end in a counterexample:

| Run | What the repository says | What happens |
|---|---|---|
| LockedOut | THREAT-MODEL.md:260, lock-yourself-out is impossible by design | a dead-man flushing a chain that an apply is writing leaves a DROP alone |
| PeersDiffer | handlers.go:824-826, a peer can never end up with different rules | a push that read the older rules arrives after the push of the newer ones |
| UdpApps | templates.go:39-43, "auto" follows what is actually published | a port published over UDP gets no line in DOCKER-USER |

Others follow from reading the same lines and from the same models, and have no
run of their own.

The engine:

* the boot unit runs what `compiled.sh` holds at boot, and the daemon rewrites
  that file at every recompile: what comes back after a reboot need not be what
  was committed (engine/zfw:25-26 against :131);
* a commit that comes after the timer's expiry does not stop the revert that
  runs, and reports success (engine/zfw:187 against firewall.go:224);
* when the last outbound rule is removed the script has no outbound block, and
  the old chains stay hooked until a revert (compiler.go:283 against
  THREAT-MODEL.md:43-44);
* a crash while `os.WriteFile` has truncated `compiled.sh` leaves an empty
  script, which bash runs with success at the next boot: `Torn` in `Engine`,
  `EndOfFile`, `Crash` in `ControlPlane`;
* an apply without `--safe` leaves an earlier dead-man armed, which reverts it;
* with the xtables lock taken `revert()` skips commands (`xtables_busy`) and
  "firewall is OFF" is logged;
* "DEADMAN ARMED" is logged whether or not `systemd-run` has succeeded
  (`arm_fails`, or a revert of the same name still at work);
* an engine killed between stopping the old timer and starting the new one
  leaves the earlier trial without a dead-man (`killed_arming`).

The daemon:

* a request that looked at the containers before the watcher did overwrites its
  newer script (handlers.go:442 against dockerwatch.go:1-2), and a change
  between the initial recompile and the event stream is never compiled
  (main.go:79 against main.go:114-118); `WatcherSettles` excepts both;
* the watcher's select may take the end of the stream while an event waits in
  the channel (`TakeDone` with `signal`);
* in restore mode an apply succeeds with an old or truncated
  `compiled.restore.sh` (`write_fails`), which is why `AppliesCurrentRules`
  assumes bash mode;
* a migration that overlaps a save loses the save or tears the file: they share
  `rules.json.tmp` and hold different locks (rules.go:20-22); `RulesWhole` and
  `SavedIsServed` except that moment (`clash`);
* two Ensures of one country at once can leave a torn or empty list, or fail
  with ENOENT; `FilesWhole` excepts it (`overlap`);
* a 200 answer that is no list replaces a good one and is fresh for 30 days;
* `seedRulesIfMissing` saves without `Validate`, and before the network is up it
  seeds a LAN of 192.168.1.0/24 that may not be there;
* `RegisterWithRetry` waits up to 32 s although `maxDelay` is 30 s; the address
  of the JWKS is resolved once, at start;
* `keyedLimiter` is called never weaker than the old single bucket, and is: 30
  against 10 at once, 3 against 1 per second;
* the audit's findings come from the legacy `allowlist.conf` (audit.go:1-3).

The compiler and the rules:

* `v6_drop` lines come after the rules, so an allow rule for the same port wins
  (compiler.go:238-240);
* starter rules for live containers are TCP only (rules.go:205-209);
* a rate limit passes one connection less than it says, and `conn` 1 passes
  none (rules.go:104-106); ids are never empty after `Save`, but
  compiler.go:468-470 relies on it and rules.go:436-437 says `wrapEmit` copes
  with an empty one;
* an IPv4-mapped IPv6 LAN or host address passes `Validate`, and iptables
  refuses its line;
* some valid rules emit no line: an IPv6 source in the docker zone, a country on
  IPv6, an auto rule with a port range for Docker's ports; outbound IPv6 of
  containers is not filtered (compiler.go:308-309 says it is);
* a schedule with equal ends matches always, and an overnight window takes the
  weekday of each half by itself.

## 6. Not modelled, and why

* Events, conntrack and system: parsers of command output, no state;
  `ControlPlane` has what the daemon makes of a command that fails.
* Update check, notification hook, HTTP helpers, boot watchdog, configuration,
  web page and installer: I/O, wording and packaging; no state that two parties
  share. The page's `addTemplate` is in `Verdicts`.
* Handlers that only read (config, debug, status, events, geo lookup's
  request parsing), TLS and graceful shutdown, a token's claims.
* `status` of the engine and of the firewall manager, the legacy
  `allowlist.conf` in `internal/firewall`, the findings of the audit.

Worth doing next: a register that `RulesStore` implements on each host.
