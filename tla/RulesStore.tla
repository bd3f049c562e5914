----------------------------- MODULE RulesStore -----------------------------
(***************************************************************************)
(* rules.json of a leader and of a follower: rules.Load with its           *)
(* migration, rules.Save, POST /api/rules, the reads that hold no lock,    *)
(* peers/push and peers/receive.                                           *)
(*                                                                         *)
(* A content is [ver, body]; ver "old" stands for every schema before      *)
(* CurrentSchema.  A push of r is answered on the follower by Handler(r),  *)
(* whose context is not the leader's: it goes on when the leader has given *)
(* up.  Recompilation after a save is reduced to its Load.                 *)
(***************************************************************************)
EXTENDS Files

CONSTANTS
    Requests,      \* requests to the leader
    Bodies,        \* rule sets
    Nobody,
    Leader, Follower,
    Faults,        \* subset of FaultKinds
    MaxRestores,   \* bound: backups an operator puts back
    MaxBegun       \* bound: requests that arrive at the leader

FaultKinds == {"write_fails", "crash", "push_times_out", "push_lost"}

Hosts == {Leader, Follower}
Handler(r) == <<"handler", r>>
Handlers == {Handler(r) : r \in Requests}
Procs == Requests \cup Handlers
HostOf(p) == IF p \in Handlers THEN Follower ELSE Leader
ProcsOf(h) == {p \in Procs : HostOf(p) = h}

Old(b) == [ver |-> "old", body |-> b]
Current(b) == [ver |-> "current", body |-> b]
OldForms == {Old(b) : b \in Bodies}
CurrentForms == {Current(b) : b \in Bodies}
Forms == OldForms \cup CurrentForms

ASSUME StoreAssumption ==
    /\ Leader # Follower
    /\ Nobody \notin Procs /\ Handlers \cap Requests = {}
    /\ Absent # Empty /\ Absent # Torn /\ Empty # Torn
    /\ Forms \cap {Absent, Empty, Torn} = {}
    /\ Faults \subseteq FaultKinds
    /\ {MaxRestores, MaxBegun} \subseteq Nat

VARIABLES
    bak,        \* rules.json.bak.v<n> of each host
    mu, mig,    \* who holds Server.mu and migrateMu of a host
    pc, job,    \* step and request of each process
    bytes,      \* what it has read, or is to save
    reply,      \* the follower's last answer to each push
    clash,      \* ghost: a save and a migration of the host have overlapped
    crossed,    \* ghost: two pushes have overlapped
    saved,      \* ghost: body of the last rename of Save on each host
    delivered,  \* ghost: what the leader saved last was pushed with success
    restores, begun

ghosts == <<clash, crossed, saved, delivered>>
counts == <<restores, begun>>
vars == <<live, tmp, fd, bak, mu, mig, pc, job, bytes, reply,
          clash, crossed, saved, delivered, restores, begun>>

\* Both hosts have started, with the same rules: main's recompile has migrated
\* their files.  A backup of the leader's migration may still be there.
Init ==
    /\ \E b \in Bodies : live = [h \in Hosts |-> Current(b)]
    /\ \E c \in {Absent} \cup OldForms : bak = [h \in Hosts |-> IF h = Leader THEN c ELSE Absent]
    /\ tmp = [h \in Hosts |-> Absent]
    /\ fd = [p \in Procs |-> Closed]
    /\ mu = [h \in Hosts |-> Nobody] /\ mig = [h \in Hosts |-> Nobody]
    /\ pc = [p \in Procs |-> "idle"] /\ job = [p \in Procs |-> "none"]
    /\ bytes = [p \in Procs |-> Absent] /\ reply = [p \in Procs |-> "none"]
    /\ clash = [h \in Hosts |-> FALSE] /\ crossed = FALSE
    /\ saved = [h \in Hosts |-> live[h].body] /\ delivered = FALSE
    /\ restores = 0 /\ begun = 0

----------------------------------------------------------------------------
(* Steps of a process. *)

At(p, step) == pc[p] = step
Goto(p, step) == pc' = [pc EXCEPT ![p] = step]
\* Save has a body to write, a migration the old bytes.
Saving(p) == bytes[p] \in CurrentForms

\* The end of a request: locks are given back (defer).
Answer(p, answer) ==
    /\ pc' = [pc EXCEPT ![p] = "idle"]
    /\ reply' = [reply EXCEPT ![p] = IF p \in Handlers THEN answer ELSE @]
    /\ bytes' = [bytes EXCEPT ![p] = Absent]
    /\ job' = [job EXCEPT ![p] = "none"]
    /\ mu' = [h \in Hosts |-> IF mu[h] = p THEN Nobody ELSE mu[h]]
    /\ mig' = [h \in Hosts |-> IF mig[h] = p THEN Nobody ELSE mig[h]]

\* A request arrives at the leader, b being its body.
Begin(r, kind, b, step) ==
    /\ At(r, "idle")
    /\ begun < MaxBegun /\ begun' = begun + 1
    /\ pc' = [pc EXCEPT ![r] = step]
    /\ job' = [job EXCEPT ![r] = kind]
    /\ bytes' = [bytes EXCEPT ![r] = b]
    /\ UNCHANGED <<live, tmp, fd, bak, mu, mig, reply, clash, saved, delivered, restores>>

Post(r) ==
    /\ \E b \in Bodies : Begin(r, "post", Current(b), "lock")
    /\ UNCHANGED crossed

\* GET /api/rules, templates, defaults and the prefetch of a recompile.
Look(r) == Begin(r, "look", Absent, "read") /\ UNCHANGED crossed

Pushing == {r \in Requests : job[r] = "push" \/ job[Handler(r)] # "none"}
Push(r) ==
    /\ At(Handler(r), "idle")
    /\ Begin(r, "push", Absent, "read")
    /\ crossed' = (crossed \/ Pushing # {})

\* Save is between open and rename, a migration between re-reading the file
\* and its rename.
SaveRuns(q) == Saving(q) /\ pc[q] \in {"open", "write", "rename"}
MigrationRuns(q) == ~Saving(q) /\ pc[q] \in {"bak", "bakWrite", "open", "write", "rename"}
MarkClash(p) ==
    LET h == HostOf(p)
        other(q) == IF Saving(p) THEN MigrationRuns(q) ELSE SaveRuns(q)
    IN  clash' = [clash EXCEPT ![h] = @ \/ \E q \in ProcsOf(h) \ {p} : other(q)]

\* Mutant: a save that does not take Server.mu.
LockFreely(p) ==
    /\ At(p, "lock")
    /\ mu' = [mu EXCEPT ![HostOf(p)] = p]
    /\ Goto(p, "open")
    /\ MarkClash(p)
    /\ UNCHANGED <<disk, bak, mig, job, bytes, reply, crossed, saved, delivered, counts>>

Lock(p) ==
    /\ At(p, "lock") /\ mu[HostOf(p)] = Nobody
    /\ mu' = [mu EXCEPT ![HostOf(p)] = p]
    /\ Goto(p, "open")
    /\ MarkClash(p)
    /\ UNCHANGED <<disk, bak, mig, job, bytes, reply, crossed, saved, delivered, counts>>

Open(p) ==
    /\ At(p, "open")
    /\ OpenTmp(p, HostOf(p))
    /\ Goto(p, "write")
    /\ UNCHANGED <<bak, mu, mig, job, bytes, reply, ghosts, counts>>

\* What a process writes: a body to save as it is, old bytes migrated.
Write(p) ==
    /\ At(p, "write")
    /\ WriteTmp(p, HostOf(p), Current(bytes[p].body))
    /\ Goto(p, "rename")
    /\ UNCHANGED <<bak, mu, mig, job, bytes, reply, ghosts, counts>>

\* Save goes on to recompile; a migration has its result.
AfterRename(p) ==
    IF Saving(p)
    THEN /\ Goto(p, "read")
         /\ saved' = [saved EXCEPT ![HostOf(p)] = bytes[p].body]
         /\ delivered' = (delivered /\ HostOf(p) # Leader)
         /\ UNCHANGED <<mu, mig, job, bytes, reply>>
    ELSE /\ IF job[p] = "push"
            THEN /\ Goto(p, "send")
                 /\ bytes' = [bytes EXCEPT ![p] = Current(@.body)]
                 /\ mig' = [mig EXCEPT ![HostOf(p)] = Nobody]
                 /\ UNCHANGED <<mu, job, reply>>
            ELSE Answer(p, "ok")
         /\ UNCHANGED <<saved, delivered>>

RenameTmp(p) ==
    /\ At(p, "rename")
    /\ \/ Rename(HostOf(p)) /\ AfterRename(p)
       \/ RenameFails(HostOf(p)) /\ Answer(p, "error") /\ UNCHANGED <<disk, saved, delivered>>
    /\ UNCHANGED <<bak, clash, crossed, counts>>

\* Load: ReadFile, Unmarshal, migrate.
Read(p) ==
    /\ At(p, "read")
    /\ LET c == live[HostOf(p)]
       IN  \/ /\ c \in CurrentForms /\ job[p] = "push"
              /\ Goto(p, "send") /\ bytes' = [bytes EXCEPT ![p] = c]
              /\ UNCHANGED <<job, reply, mu, mig>>
           \/ c \in CurrentForms /\ job[p] # "push" /\ Answer(p, "ok")
           \/ /\ c \in OldForms
              /\ Goto(p, "migrate") /\ bytes' = [bytes EXCEPT ![p] = c]
              /\ UNCHANGED <<job, reply, mu, mig>>
           \/ c \in {Absent, Empty, Torn} /\ Answer(p, "error")
    /\ UNCHANGED <<disk, bak, ghosts, counts>>

\* Mutant: Load before R4-8, two migrations side by side.
MigrateFreely(p) ==
    /\ At(p, "migrate")
    /\ mig' = [mig EXCEPT ![HostOf(p)] = p]
    /\ Goto(p, "recheck")
    /\ UNCHANGED <<disk, bak, mu, job, bytes, reply, ghosts, counts>>

MigrateLock(p) ==
    /\ At(p, "migrate") /\ mig[HostOf(p)] = Nobody
    /\ mig' = [mig EXCEPT ![HostOf(p)] = p]
    /\ Goto(p, "recheck")
    /\ UNCHANGED <<disk, bak, mu, job, bytes, reply, ghosts, counts>>

\* Mutant: the version is not looked at again under the lock.
RecheckNothing(p) ==
    /\ At(p, "recheck")
    /\ Goto(p, "bak") /\ MarkClash(p)
    /\ UNCHANGED <<disk, bak, mu, mig, job, bytes, reply, crossed, saved, delivered, counts>>

\* Mutant: migrateMu is kept by a Load that finds nothing left to do.
RecheckKeepsLock(p) ==
    /\ At(p, "recheck")
    /\ IF live[HostOf(p)] \in CurrentForms
       THEN /\ pc' = [pc EXCEPT ![p] = "idle"] /\ job' = [job EXCEPT ![p] = "none"]
            /\ bytes' = [bytes EXCEPT ![p] = Absent] /\ UNCHANGED reply
            /\ UNCHANGED <<mu, mig, clash>>
       ELSE Goto(p, "bak") /\ MarkClash(p) /\ UNCHANGED <<job, bytes, reply, mu, mig>>
    /\ UNCHANGED <<disk, bak, crossed, saved, delivered, counts>>

\* Under migrateMu the file is read again: another Load may have migrated it.
Recheck(p) ==
    /\ At(p, "recheck")
    /\ LET c == live[HostOf(p)]
       IN  \/ /\ c \in CurrentForms /\ job[p] = "push"
              /\ Goto(p, "send") /\ bytes' = [bytes EXCEPT ![p] = c]
              /\ mig' = [mig EXCEPT ![HostOf(p)] = Nobody]
              /\ UNCHANGED <<job, reply, mu, clash>>
           \/ c \in CurrentForms /\ job[p] # "push" /\ Answer(p, "ok") /\ UNCHANGED clash
           \/ /\ c \notin CurrentForms
              /\ Goto(p, "bak") /\ MarkClash(p)
              /\ UNCHANGED <<job, reply, mu, mig, bytes>>
    /\ UNCHANGED <<disk, bak, crossed, saved, delivered, counts>>

Backup(p) ==
    /\ \/ At(p, "bak") /\ Goto(p, "bakWrite") /\ bak' = [bak EXCEPT ![HostOf(p)] = Empty]
       \/ At(p, "bakWrite") /\ Goto(p, "open") /\ bak' = [bak EXCEPT ![HostOf(p)] = bytes[p]]
    /\ UNCHANGED <<disk, mu, mig, job, bytes, reply, ghosts, counts>>

\* pushOne: the request reaches the follower, which validates it and waits
\* for its own Server.mu.
Send(r) ==
    /\ At(r, "send") /\ At(Handler(r), "idle")
    /\ pc' = [pc EXCEPT ![r] = "wait", ![Handler(r)] = "lock"]
    /\ job' = [job EXCEPT ![Handler(r)] = "receive"]
    /\ bytes' = [bytes EXCEPT ![Handler(r)] = bytes[r]]
    /\ reply' = [reply EXCEPT ![Handler(r)] = "none"]
    /\ UNCHANGED <<disk, bak, mu, mig, ghosts, counts>>

\* The follower's answer.
Answered(r) ==
    /\ At(r, "wait") /\ At(Handler(r), "idle")
    /\ Answer(r, reply[Handler(r)])
    /\ delivered' = (delivered \/ (reply[Handler(r)] = "ok" /\ bytes[r].body = saved[Leader]))
    /\ UNCHANGED <<disk, bak, clash, crossed, saved, counts>>

----------------------------------------------------------------------------
(* Failures and the operator. *)

\* The 30 s of the client are over; the follower's handler goes on.
PushTimesOut(r) ==
    /\ "push_times_out" \in Faults
    /\ At(r, "wait") /\ ~At(Handler(r), "idle")
    /\ Answer(r, "error")
    /\ UNCHANGED <<disk, bak, ghosts, counts>>

PushLost(r) ==
    /\ "push_lost" \in Faults
    /\ At(r, "send") /\ Answer(r, "error")
    /\ UNCHANGED <<disk, bak, ghosts, counts>>

\* Mutant: writeAtomic drops the error of os.WriteFile.
WriteFailsQuietly(p) ==
    /\ "write_fails" \in Faults
    /\ pc[p] \in {"open", "write", "bakWrite"}
    /\ CloseAll({p}) /\ Answer(p, "ok")
    /\ UNCHANGED <<live, tmp, bak, ghosts, counts>>

\* No space: the file that was opened stays as it is.
WriteFails(p) ==
    /\ "write_fails" \in Faults
    /\ pc[p] \in {"open", "write", "bakWrite"}
    /\ CloseAll({p}) /\ Answer(p, "error")
    /\ UNCHANGED <<live, tmp, bak, ghosts, counts>>

\* The daemon of a host dies and starts again; requests in it are lost.
Crash(h) ==
    /\ "crash" \in Faults
    /\ LET dead == {p \in ProcsOf(h) : pc[p] # "idle"}
           ends(f, value) == [p \in Procs |-> IF p \in dead THEN value ELSE f[p]]
       IN  /\ dead # {}
           /\ CloseAll(dead)
           /\ pc' = ends(pc, "idle") /\ job' = ends(job, "none")
           /\ bytes' = ends(bytes, Absent)
           /\ reply' = [p \in Procs |-> IF p \in dead \cap Handlers THEN "error" ELSE reply[p]]
    /\ mu' = [mu EXCEPT ![h] = Nobody] /\ mig' = [mig EXCEPT ![h] = Nobody]
    /\ UNCHANGED <<live, tmp, bak, ghosts, counts>>

\* The path back of Load's comment: while the daemon runs, the operator puts
\* a copy of the backup in the place of rules.json.
PutBack ==
    /\ restores < MaxRestores /\ restores' = restores + 1
    /\ bak[Leader] \in OldForms
    /\ live' = [live EXCEPT ![Leader] = bak[Leader]]
    /\ saved' = [saved EXCEPT ![Leader] = bak[Leader].body]
    /\ delivered' = FALSE
    /\ fd' = [p \in Procs |-> IF fd[p] = <<"live", Leader>> THEN <<"gone", Leader>> ELSE fd[p]]
    /\ UNCHANGED <<tmp, bak, mu, mig, pc, job, bytes, reply, clash, crossed, begun>>

Step(p) ==
    \/ Lock(p) \/ Open(p) \/ Write(p) \/ RenameTmp(p)
    \/ Read(p) \/ MigrateLock(p) \/ Recheck(p) \/ Backup(p)
    \/ p \in Requests /\ (Send(p) \/ Answered(p))

Arrive == \E r \in Requests : Post(r) \/ Look(r) \/ Push(r)

Fault ==
    \/ \E r \in Requests : PushTimesOut(r) \/ PushLost(r)
    \/ \E p \in Procs : WriteFails(p)
    \/ \E h \in Hosts : Crash(h)

Next == Arrive \/ (\E p \in Procs : Step(p)) \/ Fault \/ PutBack

Fairness == \A p \in Procs : WF_vars(Step(p))

Spec == Init /\ [][Next]_vars
FairSpec == Spec /\ Fairness

----------------------------------------------------------------------------
(* What the store promises. *)

\* rules.json is a whole rule set at every instant, also after a failed write
\* or a crash, unless a save and a migration have run at the same time: they
\* share rules.json.tmp and hold different locks.
RulesWhole ==
    \A h \in Hosts : ~clash[h] => live[h] \in Forms

\* What was saved last is what the file holds whenever no lock is held: no
\* migration that waited for its lock brings older rules back (rules.go:291-300).
SavedIsServed ==
    \A h \in Hosts :
        (~clash[h] /\ mu[h] = Nobody /\ mig[h] = Nobody) => live[h].body = saved[h]

\* A migration replaces old rules only when a whole copy of them is in the
\* backup: "a user always has a path back" (rules.go:259-263).
BackupFirst ==
    [][\A p \in Procs : LET h == HostOf(p) IN
          (MigrationRuns(p) /\ At(p, "rename") /\ live'[h] # live[h] /\ live[h] \in OldForms)
              => bak[h] = live[h]]_vars

Quiet == \A p \in Procs : At(p, "idle")
SamePeers == (delivered /\ Quiet) => live[Follower].body = live[Leader].body

\* When a push of what is saved has succeeded and nothing runs, the follower
\* has the leader's rules; pushes made one after the other.
FollowerFollows == (~crossed /\ ~clash[Leader]) => SamePeers

\* The claim of handlers.go:824-826, for pushes at any time: "a peer can never
\* end up with a different rule set than the local one".
PeersNeverDiffer == SamePeers

\* Every request is answered: Server.mu, migrateMu and the wait for the
\* follower never hold each other up.
EveryRequestAnswered ==
    \A r \in Requests : (job[r] # "none") ~> (job[r] = "none")
----------------------------------------------------------------------------
(* Why these hold. *)

Jobs == {"none", "post", "look", "push", "receive"}
Steps == {"idle", "lock", "open", "write", "rename", "read", "migrate", "recheck",
          "bak", "bakWrite", "send", "wait"}
Contents == Forms \cup {Absent, Empty, Torn}

\* Every variable has its type: both hosts' files and locks, and their requests.
StoreTypeOK ==
    /\ live \in [Hosts -> Contents] /\ tmp \in [Hosts -> Contents]
    /\ bak \in [Hosts -> OldForms \cup {Absent, Empty}]
    /\ fd \in [Procs -> {Closed} \cup ({"tmp", "live", "gone"} \X Hosts)]
    /\ mu \in [Hosts -> Procs \cup {Nobody}] /\ mig \in [Hosts -> Procs \cup {Nobody}]
    /\ pc \in [Procs -> Steps] /\ job \in [Procs -> Jobs]
    /\ bytes \in [Procs -> Forms \cup {Absent}]
    /\ reply \in [Procs -> {"none", "ok", "error"}]
    /\ clash \in [Hosts -> BOOLEAN] /\ crossed \in BOOLEAN /\ delivered \in BOOLEAN
    /\ saved \in [Hosts -> Bodies]
    /\ restores \in 0..MaxRestores /\ begun \in 0..MaxBegun

\* What a process does at a step fits what it was asked and what it holds.
Replacing(p) == pc[p] \in {"open", "write", "rename"}
JobOK ==
    \A p \in Procs :
        /\ p \in Handlers => job[p] \in {"none", "receive"} /\ bytes[p] \notin OldForms
        /\ p \in Requests => job[p] # "receive"
        /\ pc[p] = "idle" <=> job[p] = "none"
        /\ pc[p] \in {"send", "wait"} => p \in Requests /\ job[p] = "push" /\ Saving(p)
        /\ pc[p] = "lock" => Saving(p) /\ job[p] \in {"post", "receive"}
        /\ pc[p] \in {"migrate", "recheck", "bak", "bakWrite"} => bytes[p] \in OldForms
        /\ Replacing(p) => bytes[p] \in Forms /\ (Saving(p) => job[p] \in {"post", "receive"})

\* A save runs under Server.mu, a migration under migrateMu, and the two do not
\* meet where clash says so: then a temporary has one writer.
LockOK ==
    /\ \A p \in Procs :
          /\ SaveRuns(p) => mu[HostOf(p)] = p
          /\ MigrationRuns(p) \/ pc[p] = "recheck" => mig[HostOf(p)] = p
    /\ \A p, q \in Procs :
          SaveRuns(p) /\ MigrationRuns(q) /\ HostOf(p) = HostOf(q) => clash[HostOf(p)]

\* Rules of an old schema have one origin, the backup that an update left; a
\* migration writes over them only when they are in the backup once more.
OldOK ==
    /\ \E b \in Bodies :
          /\ \A h \in Hosts :
                /\ {bak[h], live[h]} \cap OldForms \subseteq {Old(b)}
                /\ tmp[h] \notin OldForms
          /\ \A p \in Procs : bytes[p] \in OldForms => bytes[p] = Old(b)
    /\ \A p \in Procs : Replacing(p) /\ ~Saving(p) => bak[HostOf(p)] = bytes[p]

\* Without a clash the temporary holds what its writer has written, and a
\* migration under way carries the rules that were saved last.
TmpOK ==
    \A p \in Procs : ~clash[HostOf(p)] =>
        /\ pc[p] = "write" => fd[p] = <<"tmp", HostOf(p)>> /\ tmp[HostOf(p)] = Empty
        /\ pc[p] = "rename" => tmp[HostOf(p)] = Current(bytes[p].body)
        /\ MigrationRuns(p) => saved[HostOf(p)] = bytes[p].body
WholeOK ==
    /\ TmpOK
    /\ \A h \in Hosts : ~clash[h] => live[h] \in Forms /\ live[h].body = saved[h]

\* The follower never has old rules: nobody puts a backup back there.
FollowerNew == ~clash[Follower] /\ live[Follower] \in CurrentForms

\* What a push carries, and what the follower's answer says of its file.
CarryOK ==
    \A r \in Requests :
        /\ pc[r] = "wait" /\ pc[Handler(r)] # "idle" => bytes[Handler(r)] = bytes[r]
        /\ ~crossed /\ pc[Handler(r)] = "read" => live[Follower] = bytes[Handler(r)]
        /\ ~crossed /\ pc[r] = "wait" /\ pc[Handler(r)] = "idle" /\ reply[Handler(r)] = "ok"
               => live[Follower].body = bytes[r].body
PushOK ==
    /\ CarryOK
    /\ ~crossed => \A r, s \in Pushing : r = s
    /\ ~crossed /\ ~clash[Leader] /\ delivered =>
          /\ live[Follower].body = saved[Leader]
          /\ \A r \in Requests :
                /\ pc[r] \in {"send", "wait"} => bytes[r].body = saved[Leader]
                /\ pc[Handler(r)] # "idle" => bytes[Handler(r)].body = saved[Leader]

StoreInv == StoreTypeOK /\ JobOK /\ LockOK /\ OldOK /\ WholeOK /\ FollowerNew /\ PushOK
=============================================================================
