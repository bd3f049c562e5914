-------------------------- MODULE RulesStoreProofs --------------------------
(* What RulesStore promises holds for every set of requests and rule sets, *)
(* for any number of requests and of backups put back.                     *)
EXTENDS RulesStore, TLAPS

LEMMA HostFacts ==
    /\ Leader \in Hosts /\ Follower \in Hosts /\ Leader # Follower
    /\ Nobody \notin Procs
    /\ \A r \in Requests : r \in Procs /\ r \notin Handlers /\ HostOf(r) = Leader
    /\ \A r \in Requests :
          Handler(r) \in Procs /\ Handler(r) \in Handlers /\ HostOf(Handler(r)) = Follower
    /\ \A r, s \in Requests : Handler(r) = Handler(s) => r = s
    /\ \A p \in Procs : HostOf(p) \in Hosts
    /\ \A p \in Procs : p \in Requests \/ \E r \in Requests : p = Handler(r)
    /\ \A p \in Handlers : p \in Procs /\ HostOf(p) = Follower /\ p \notin Requests
    /\ \A h \in Hosts : h = Leader \/ h = Follower
  BY StoreAssumption DEF Hosts, Procs, Handlers, Handler, HostOf

LEMMA FormFacts ==
    /\ Forms = OldForms \cup CurrentForms
    /\ \A c \in CurrentForms : c.body \in Bodies /\ c = Current(c.body) /\ c \notin OldForms
    /\ \A c \in OldForms : c.body \in Bodies /\ c = Old(c.body) /\ c \notin CurrentForms
    /\ \A b \in Bodies : Current(b) \in CurrentForms /\ Current(b).body = b
    /\ \A b \in Bodies : Old(b) \in OldForms /\ Old(b).body = b
    /\ \A c \in {Absent, Empty, Torn} : c \notin Forms
    /\ Absent # Empty /\ Absent # Torn /\ Empty # Torn
  BY StoreAssumption DEF Forms, OldForms, CurrentForms, Old, Current

LEMMA FdFacts ==
    ASSUME NEW h \in Hosts
    PROVE  /\ \A w \in {"tmp", "live", "gone"} :
                 /\ <<w, h>> \in {"tmp", "live", "gone"} \X Hosts
                 /\ <<w, h>> # Closed
           /\ \A g \in Hosts, w \in {"tmp", "live", "gone"}, v \in {"tmp", "live", "gone"} :
                 <<w, h>> = <<v, g>> => w = v /\ h = g
  BY DEF Closed

-----------------------------------------------------------------------------
(* What the parts of an action do. *)

LEMMA BeginType ==
    ASSUME StoreTypeOK, NEW r \in Requests, NEW kind \in Jobs \ {"none"}, NEW step \in Steps,
           NEW b \in Forms \cup {Absent}, Begin(r, kind, b, step), crossed' \in BOOLEAN
    PROVE  StoreTypeOK'
  BY StoreAssumption, HostFacts DEF StoreTypeOK, Begin

LEMMA MarkClashMarks ==
    ASSUME StoreTypeOK, NEW p \in Procs, MarkClash(p)
    PROVE  /\ clash' \in [Hosts -> BOOLEAN]
           /\ \A h \in Hosts : clash[h] => clash'[h]
           /\ \A h \in Hosts : h # HostOf(p) => clash'[h] = clash[h]
           /\ ~Saving(p) => \A q \in Procs : 
                 q # p /\ HostOf(q) = HostOf(p) /\ SaveRuns(q) => clash'[HostOf(p)]
           /\ Saving(p) => \A q \in Procs : 
                 q # p /\ HostOf(q) = HostOf(p) /\ MigrationRuns(q) => clash'[HostOf(p)]
           /\ ~clash[HostOf(p)] /\ clash'[HostOf(p)] =>
                 \E q \in Procs : q # p /\ HostOf(q) = HostOf(p) 
                     /\ IF Saving(p) THEN MigrationRuns(q) ELSE SaveRuns(q)
  BY HostFacts DEF StoreTypeOK, MarkClash, ProcsOf

LEMMA AnswerType ==
    ASSUME StoreTypeOK, NEW p \in Procs, NEW answer \in {"none", "ok", "error"},
           Answer(p, answer)
    PROVE  /\ pc' \in [Procs -> Steps] /\ job' \in [Procs -> Jobs]
           /\ bytes' \in [Procs -> Forms \cup {Absent}]
           /\ reply' \in [Procs -> {"none", "ok", "error"}]
           /\ mu' \in [Hosts -> Procs \cup {Nobody}]
           /\ mig' \in [Hosts -> Procs \cup {Nobody}]
  BY DEF StoreTypeOK, Answer, Steps, Jobs

-----------------------------------------------------------------------------
(* Every variable keeps its type. *)

LEMMA TypeInit == Init => StoreTypeOK
<1> SUFFICES ASSUME Init PROVE StoreTypeOK
  OBVIOUS
<1>1. PICK b \in Bodies : live = [h \in Hosts |-> Current(b)]
  BY DEF Init
<1>2. saved \in [Hosts -> Bodies] /\ live \in [Hosts -> Contents]
  BY <1>1, FormFacts DEF Init, Contents
<1>3. bak \in [Hosts -> OldForms \cup {Absent, Empty}] /\ tmp \in [Hosts -> Contents]
  BY DEF Init, Contents
<1>4. restores \in 0..MaxRestores /\ begun \in 0..MaxBegun
  BY StoreAssumption DEF Init
<1> QED BY <1>2, <1>3, <1>4 DEF Init, StoreTypeOK, Steps, Jobs

LEMMA TypeArrive ==
    ASSUME StoreTypeOK, NEW r \in Requests, Post(r) \/ Look(r) \/ Push(r)
    PROVE  StoreTypeOK'
<1> USE FormFacts DEF Jobs, Steps
<1>1. CASE Post(r)
  BY <1>1, BeginType DEF Post, StoreTypeOK
<1>2. CASE Look(r)
  BY <1>2, BeginType DEF Look, StoreTypeOK
<1>3. CASE Push(r)
  BY <1>3, BeginType DEF Push, StoreTypeOK
<1> QED BY <1>1, <1>2, <1>3

LEMMA TypeSave ==
    ASSUME StoreTypeOK, NEW p \in Procs, JobOK, Lock(p) \/ Open(p) \/ Write(p) \/ RenameTmp(p)
    PROVE  StoreTypeOK'
<1> USE HostFacts DEF ghosts, counts, disk, Goto, At, Steps
<1>1. CASE Lock(p)
  BY <1>1, MarkClashMarks DEF Lock, StoreTypeOK
<1>2. CASE Open(p)
  BY <1>2, FdFacts DEF Open, OpenTmp, StoreTypeOK, Contents
<1>3. CASE Write(p)
  <2>1. Current(bytes[p].body) \in Contents
    BY <1>3, FormFacts DEF Write, JobOK, Replacing, Contents
  <2>2. \A old \in Contents : Over(old, Current(bytes[p].body)) \subseteq Contents
    BY <2>1 DEF Over, Contents
  <2> DEFINE new == Current(bytes[p].body)
             h == HostOf(p)
  <2>0. h \in Hosts /\ live \in [Hosts -> Contents] /\ tmp \in [Hosts -> Contents]
    BY DEF StoreTypeOK
  <2>3. live' \in [Hosts -> Contents] /\ tmp' \in [Hosts -> Contents]
    <3>0. WriteTmp(p, h, new)
      BY <1>3 DEF Write
    <3> HIDE DEF new, h
    <3>1. CASE UNCHANGED live /\ \E c \in Over(tmp[h], new) : tmp' = [tmp EXCEPT ![h] = c]
      BY <2>0, <2>2, <3>1 DEF new
    <3>2. CASE UNCHANGED tmp /\ \E c \in Over(live[h], new) : live' = [live EXCEPT ![h] = c]
      BY <2>0, <2>2, <3>2 DEF new
    <3>3. CASE UNCHANGED <<live, tmp>>
      BY <2>0, <3>3
    <3> QED BY <3>0, <3>1, <3>2, <3>3 DEF WriteTmp
  <2> QED BY <1>3, <2>3 DEF Write, WriteTmp, StoreTypeOK
<1>4. CASE RenameTmp(p)
  <2>1. bytes[p].body \in Bodies /\ Current(bytes[p].body) \in Forms
    BY <1>4, FormFacts DEF RenameTmp, JobOK, Replacing
  <2>2. CASE Rename(HostOf(p)) /\ AfterRename(p)
    <3>1. /\ live' \in [Hosts -> Contents] /\ tmp' \in [Hosts -> Contents]
          /\ fd' \in [Procs -> {Closed} \cup ({"tmp", "live", "gone"} \X Hosts)]
      BY <2>2, FdFacts DEF Rename, Renamed, StoreTypeOK, Contents
    <3>2. CASE Saving(p)
      BY <1>4, <2>2, <2>1, <3>1, <3>2 DEF AfterRename, RenameTmp, StoreTypeOK
    <3>3. CASE ~Saving(p) /\ job[p] = "push"
      <4>1. /\ bytes' \in [Procs -> Forms \cup {Absent}] 
            /\ mig' \in [Hosts -> Procs \cup {Nobody}]
            /\ pc' \in [Procs -> Steps]
            /\ UNCHANGED <<mu, job, reply, saved, delivered>>
        BY <2>2, <2>1, <3>3 DEF AfterRename, StoreTypeOK
      <4> QED BY <1>4, <3>1, <4>1 DEF RenameTmp, StoreTypeOK
    <3>4. CASE ~Saving(p) /\ job[p] # "push"
      BY <1>4, <2>2, <2>1, <3>1, <3>4, AnswerType DEF AfterRename, RenameTmp, StoreTypeOK
    <3> QED BY <3>2, <3>3, <3>4
  <2>3. CASE RenameFails(HostOf(p)) /\ Answer(p, "error") /\ UNCHANGED <<disk, saved, delivered>>
    BY <1>4, <2>3, AnswerType DEF RenameTmp, StoreTypeOK
  <2> QED BY <1>4, <2>2, <2>3 DEF RenameTmp
<1> QED BY <1>1, <1>2, <1>3, <1>4

LEMMA TypeLoad ==
    ASSUME StoreTypeOK, NEW p \in Procs, JobOK,
           Read(p) \/ MigrateLock(p) \/ Recheck(p) \/ Backup(p)
    PROVE  StoreTypeOK'
<1> USE HostFacts DEF ghosts, counts, disk, Goto, At, Steps
<1>1. CASE Read(p)
  <2>1. CASE Answer(p, "ok") \/ Answer(p, "error")
    BY <1>1, <2>1, AnswerType DEF Read, StoreTypeOK
  <2>2. CASE /\ bytes' = [bytes EXCEPT ![p] = live[HostOf(p)]]
             /\ live[HostOf(p)] \in Forms
             /\ Goto(p, "send") \/ Goto(p, "migrate")
             /\ UNCHANGED <<job, reply, mu, mig>>
    BY <1>1, <2>2 DEF Read, StoreTypeOK
  <2> QED BY <1>1, <2>1, <2>2 DEF Read, Forms
<1>2. CASE MigrateLock(p)
  BY <1>2 DEF MigrateLock, StoreTypeOK
<1>3. CASE Recheck(p)
  <2>1. CASE Answer(p, "ok") /\ UNCHANGED clash
    BY <1>3, <2>1, AnswerType DEF Recheck, StoreTypeOK
  <2>2. CASE Goto(p, "bak") /\ MarkClash(p) /\ UNCHANGED <<job, reply, mu, mig, bytes>>
    BY <1>3, <2>2, MarkClashMarks DEF Recheck, StoreTypeOK
  <2>3. CASE /\ live[HostOf(p)] \in CurrentForms
             /\ Goto(p, "send") /\ bytes' = [bytes EXCEPT ![p] = live[HostOf(p)]]
             /\ mig' = [mig EXCEPT ![HostOf(p)] = Nobody]
             /\ UNCHANGED <<job, reply, mu, clash>>
    <3>1. UNCHANGED <<disk, bak, crossed, saved, delivered, counts>>
      BY <1>3 DEF Recheck
    <3>2. /\ bytes' \in [Procs -> Forms \cup {Absent}] /\ pc' \in [Procs -> Steps]
          /\ mig' \in [Hosts -> Procs \cup {Nobody}]
      BY <2>3, FormFacts DEF StoreTypeOK, Forms
    <3> QED BY <2>3, <3>1, <3>2 DEF StoreTypeOK
  <2> QED BY <1>3, <2>1, <2>2, <2>3 DEF Recheck
<1>4. CASE Backup(p)
  BY <1>4 DEF Backup, StoreTypeOK, JobOK
<1> QED BY <1>1, <1>2, <1>3, <1>4

LEMMA TypePush ==
    ASSUME StoreTypeOK, NEW r \in Requests,
           Send(r) \/ Answered(r) \/ PushTimesOut(r) \/ PushLost(r)
    PROVE  StoreTypeOK'
<1> USE HostFacts DEF ghosts, counts, disk, At, Steps
<1>1. CASE Send(r)
  BY <1>1 DEF Send, StoreTypeOK, Jobs
<1>2. CASE Answered(r)
  <2>1. reply[Handler(r)] \in {"none", "ok", "error"}
    BY DEF StoreTypeOK
  <2>2. delivered' \in BOOLEAN
    BY <1>2 DEF Answered, StoreTypeOK
  <2> QED BY <1>2, <2>1, <2>2, AnswerType DEF Answered, StoreTypeOK
<1>3. CASE PushTimesOut(r) \/ PushLost(r)
  BY <1>3, AnswerType DEF PushTimesOut, PushLost, StoreTypeOK
<1> QED BY <1>1, <1>2, <1>3

LEMMA TypeOther ==
    ASSUME StoreTypeOK, 
           (\E p \in Procs : WriteFails(p)) \/ (\E h \in Hosts : Crash(h)) \/ PutBack
    PROVE  StoreTypeOK'
<1> USE DEF ghosts, counts, Steps, Jobs
<1>1. ASSUME NEW p \in Procs, WriteFails(p) PROVE StoreTypeOK'
  BY <1>1, AnswerType DEF WriteFails, CloseAll, StoreTypeOK
<1>2. ASSUME NEW h \in Hosts, Crash(h) PROVE StoreTypeOK'
  BY <1>2 DEF Crash, CloseAll, StoreTypeOK
<1>3. CASE PutBack
  <2>1. \A h \in Hosts : <<"gone", h>> \in {"tmp", "live", "gone"} \X Hosts
    OBVIOUS
  <2>2. fd' \in [Procs -> {Closed} \cup ({"tmp", "live", "gone"} \X Hosts)]
    BY <1>3, <2>1, HostFacts DEF PutBack, StoreTypeOK
  <2>3. bak[Leader] \in Contents /\ bak[Leader].body \in Bodies
    BY <1>3, FormFacts DEF PutBack, Contents
  <2>4. restores' \in 0..MaxRestores
    BY <1>3, StoreAssumption DEF PutBack, StoreTypeOK
  <2>5. live' \in [Hosts -> Contents] /\ saved' \in [Hosts -> Bodies] /\ delivered' \in BOOLEAN
    BY <1>3, <2>3 DEF PutBack, StoreTypeOK
  <2> QED BY <1>3, <2>2, <2>4, <2>5 DEF PutBack, StoreTypeOK
<1> QED BY <1>1, <1>2, <1>3

LEMMA TypeNext == StoreTypeOK /\ JobOK /\ [Next]_vars => StoreTypeOK'
<1> SUFFICES ASSUME StoreTypeOK, JobOK, [Next]_vars PROVE StoreTypeOK'
  OBVIOUS
<1>1. ASSUME NEW p \in Procs, Step(p) PROVE StoreTypeOK'
  BY <1>1, TypeSave, TypeLoad, TypePush DEF Step
<1>2. CASE Arrive
  BY <1>2, TypeArrive DEF Arrive
<1>3. CASE Fault \/ PutBack
  BY <1>3, TypePush, TypeOther DEF Fault
<1>4. CASE UNCHANGED vars
  BY <1>4 DEF vars, StoreTypeOK
<1> QED BY <1>1, <1>2, <1>3, <1>4 DEF Next

-----------------------------------------------------------------------------
(* What a step does to the processes: p moves, or all of them die on a host. *)

LEMMA AnswerMoves ==
    ASSUME StoreTypeOK, NEW p \in Procs, NEW answer, Answer(p, answer)
    PROVE  /\ pc'[p] = "idle" /\ job'[p] = "none" /\ bytes'[p] = Absent
           /\ p \in Handlers => reply'[p] = answer
           /\ \A q \in Procs \ {p} : pc'[q] = pc[q] /\ job'[q] = job[q] 
                 /\ bytes'[q] = bytes[q] /\ reply'[q] = reply[q]
           /\ \A h \in Hosts, q \in Procs \ {p} :
                 (mu[h] = q => mu'[h] = q) /\ (mig[h] = q => mig'[h] = q)
  BY DEF StoreTypeOK, Answer

LEMMA JobArrive ==
    ASSUME StoreTypeOK, JobOK, NEW r \in Requests, Post(r) \/ Look(r) \/ Push(r)
    PROVE  JobOK'
  BY HostFacts, FormFacts DEF StoreTypeOK, JobOK, Saving, Replacing, Post, Look, Push, Begin

LEMMA JobSave ==
    ASSUME StoreTypeOK, JobOK, NEW p \in Procs, Lock(p) \/ Open(p) \/ Write(p) \/ RenameTmp(p)
    PROVE  JobOK'
<1> USE HostFacts, FormFacts DEF StoreTypeOK, JobOK, Saving, Replacing, Goto, At
<1>1. CASE Lock(p)
  BY <1>1 DEF Lock
<1>2. CASE Open(p)
  BY <1>2 DEF Open
<1>3. CASE Write(p)
  BY <1>3 DEF Write
<1>4. CASE RenameTmp(p)
  <2>1. CASE Answer(p, "ok") \/ Answer(p, "error")
    BY <2>1, AnswerMoves 
  <2>2. CASE Rename(HostOf(p)) /\ AfterRename(p) /\ ~Answer(p, "ok")
    BY <1>4, <2>2 DEF RenameTmp, AfterRename
  <2> QED BY <1>4, <2>1, <2>2 DEF RenameTmp
<1> QED BY <1>1, <1>2, <1>3, <1>4

LEMMA JobLoad ==
    ASSUME StoreTypeOK, JobOK, FollowerNew, NEW p \in Procs,
           Read(p) \/ MigrateLock(p) \/ Recheck(p) \/ Backup(p)
    PROVE  JobOK'
<1> USE HostFacts, FormFacts DEF StoreTypeOK, JobOK, Saving, Replacing, Goto, At
<1>1. CASE Answer(p, "ok") \/ Answer(p, "error")
  BY <1>1, AnswerMoves 
<1>2. CASE Read(p) /\ ~Answer(p, "ok") /\ ~Answer(p, "error")
  BY <1>2 DEF Read, FollowerNew
<1>3. CASE MigrateLock(p)
  BY <1>3 DEF MigrateLock
<1>4. CASE Recheck(p) /\ ~Answer(p, "ok")
  BY <1>4 DEF Recheck
<1>5. CASE Backup(p)
  BY <1>5 DEF Backup
<1> QED BY <1>1, <1>2, <1>3, <1>4, <1>5

LEMMA JobPush ==
    ASSUME StoreTypeOK, JobOK, NEW r \in Requests,
           Send(r) \/ Answered(r) \/ PushTimesOut(r) \/ PushLost(r)
    PROVE  JobOK'
<1> USE HostFacts, FormFacts DEF StoreTypeOK, JobOK, Saving, Replacing, At
<1>1. CASE Send(r)
  BY <1>1 DEF Send
<1>2. CASE \E answer : Answer(r, answer)
  BY <1>2, AnswerMoves
<1> QED BY <1>1, <1>2 DEF Answered, PushTimesOut, PushLost

LEMMA JobOther ==
    ASSUME StoreTypeOK, JobOK,
           (\E p \in Procs : WriteFails(p)) \/ (\E h \in Hosts : Crash(h)) \/ PutBack
    PROVE  JobOK'
<1> USE HostFacts, FormFacts DEF StoreTypeOK, JobOK, Saving, Replacing
<1>1. ASSUME NEW p \in Procs, WriteFails(p) PROVE JobOK'
  BY <1>1, AnswerMoves DEF WriteFails
<1>2. ASSUME NEW h \in Hosts, Crash(h) PROVE JobOK'
  BY <1>2 DEF Crash
<1>3. CASE PutBack
  BY <1>3 DEF PutBack
<1> QED BY <1>1, <1>2, <1>3

-----------------------------------------------------------------------------
(* The locks. *)

LEMMA LockArrive ==
    ASSUME StoreTypeOK, LockOK, NEW r \in Requests, Post(r) \/ Look(r) \/ Push(r)
    PROVE  LockOK'
  BY HostFacts DEF StoreTypeOK, LockOK, SaveRuns, MigrationRuns, Saving, Post, Look, Push, Begin, At

\* A step after which the locks are held, and clash marked, as before, and p
\* is no longer replacing a file, or goes on at it.
LEMMA LockKept ==
    ASSUME StoreTypeOK, LockOK, NEW p \in Procs,
           \A q \in Procs \ {p} : pc'[q] = pc[q] /\ bytes'[q] = bytes[q],
           \A h \in Hosts, q \in Procs \ {p} :
              (mu[h] = q => mu'[h] = q) /\ (mig[h] = q => mig'[h] = q),
           UNCHANGED clash,
           SaveRuns(p)' => SaveRuns(p) /\ UNCHANGED mu,
           MigrationRuns(p)' => MigrationRuns(p) /\ UNCHANGED mig,
           pc'[p] = "recheck" => mig'[HostOf(p)] = p
    PROVE  LockOK'
  BY HostFacts DEF StoreTypeOK, LockOK, SaveRuns, MigrationRuns, Saving

LEMMA LockSave ==
    ASSUME StoreTypeOK, JobOK, LockOK, NEW p \in Procs,
           Lock(p) \/ Open(p) \/ Write(p) \/ RenameTmp(p)
    PROVE  LockOK'
<1> USE HostFacts DEF StoreTypeOK, LockOK, SaveRuns, MigrationRuns, Saving, Goto, At
<1>1. CASE Lock(p)
  <2>1. /\ \A h \in Hosts : clash[h] => clash'[h]
        /\ \A q \in Procs : q # p /\ HostOf(q) = HostOf(p) /\ MigrationRuns(q) => clash'[HostOf(p)]
    BY <1>1, MarkClashMarks DEF Lock, JobOK
  <2>2. \A q \in Procs : ~SaveRuns(q) \/ HostOf(q) # HostOf(p)
    BY <1>1 DEF Lock
  <2>3. pc' = [pc EXCEPT ![p] = "open"] /\ mu' = [mu EXCEPT ![HostOf(p)] = p] 
        /\ UNCHANGED <<bytes, mig>> /\ Saving(p) /\ pc[p] = "lock"
    BY <1>1 DEF Lock, JobOK
  <2> QED BY <2>1, <2>2, <2>3
<1>2. CASE Open(p)
  BY <1>2, LockKept DEF Open, ghosts
<1>3. CASE Write(p)
  BY <1>3, LockKept DEF Write, ghosts
<1>4. CASE RenameTmp(p)
  <2>1. CASE Answer(p, "ok") \/ Answer(p, "error")
    BY <1>4, <2>1, AnswerMoves, LockKept, SMTT(20) DEF RenameTmp
  <2>2. CASE Rename(HostOf(p)) /\ AfterRename(p) /\ ~Answer(p, "ok")
    BY <1>4, <2>2, LockKept DEF RenameTmp, AfterRename
  <2> QED BY <1>4, <2>1, <2>2 DEF RenameTmp
<1> QED BY <1>1, <1>2, <1>3, <1>4

LEMMA LockLoad ==
    ASSUME StoreTypeOK, JobOK, LockOK, NEW p \in Procs,
           Read(p) \/ MigrateLock(p) \/ Recheck(p) \/ Backup(p)
    PROVE  LockOK'
<1> USE HostFacts DEF StoreTypeOK, LockOK, SaveRuns, MigrationRuns, Saving, Goto, At, ghosts
<1>1. CASE (Answer(p, "ok") \/ Answer(p, "error")) /\ UNCHANGED clash
  BY <1>1, AnswerMoves, LockKept
<1>2. CASE Read(p) /\ ~Answer(p, "ok") /\ ~Answer(p, "error")
  BY <1>2, LockKept DEF Read
<1>3. CASE MigrateLock(p)
  BY <1>3 DEF MigrateLock
<1>4. CASE /\ At(p, "recheck") /\ Goto(p, "send")
           /\ mig' = [mig EXCEPT ![HostOf(p)] = Nobody]
           /\ bytes' = [bytes EXCEPT ![p] = live[HostOf(p)]]
           /\ UNCHANGED <<mu, clash>>
  BY <1>4, LockKept
<1>5. CASE /\ At(p, "recheck") /\ Goto(p, "bak") /\ MarkClash(p) 
           /\ UNCHANGED <<mu, mig, bytes>>
  <2>1. /\ \A h \in Hosts : clash[h] => clash'[h]
        /\ \A q \in Procs : q # p /\ HostOf(q) = HostOf(p) /\ SaveRuns(q) => clash'[HostOf(p)]
        /\ UNCHANGED <<bytes, mu, mig>> /\ ~Saving(p) /\ pc[p] = "recheck"
    BY <1>5, MarkClashMarks, FormFacts DEF JobOK
  <2> QED BY <1>5, <2>1
<1>6. CASE Backup(p)
  BY <1>6, FormFacts, LockKept DEF Backup, JobOK
<1> QED BY <1>1, <1>2, <1>3, <1>4, <1>5, <1>6 DEF Read, Recheck

LEMMA LockPush ==
    ASSUME StoreTypeOK, JobOK, LockOK, NEW r \in Requests,
           Send(r) \/ Answered(r) \/ PushTimesOut(r) \/ PushLost(r)
    PROVE  LockOK'
<1> USE HostFacts DEF StoreTypeOK, LockOK, SaveRuns, MigrationRuns, Saving, At, ghosts
<1>1. CASE Send(r)
  BY <1>1, FormFacts, SMTT(20) DEF Send
<1>2. CASE UNCHANGED clash /\ \E answer : Answer(r, answer)
  BY <1>2, AnswerMoves, LockKept
<1> QED BY <1>1, <1>2 DEF Answered, PushTimesOut, PushLost

LEMMA LockOther ==
    ASSUME StoreTypeOK, LockOK,
           (\E p \in Procs : WriteFails(p)) \/ (\E h \in Hosts : Crash(h)) \/ PutBack
    PROVE  LockOK'
<1> USE HostFacts DEF StoreTypeOK, LockOK, SaveRuns, MigrationRuns, Saving, ghosts
<1>1. ASSUME NEW p \in Procs, WriteFails(p) PROVE LockOK'
  BY <1>1, AnswerMoves, LockKept DEF WriteFails
<1>2. ASSUME NEW h \in Hosts, Crash(h) PROVE LockOK'
  BY <1>2 DEF Crash, ProcsOf
<1>3. CASE PutBack
  BY <1>3 DEF PutBack
<1> QED BY <1>1, <1>2, <1>3

-----------------------------------------------------------------------------
(* The rules of old schemas. *)

LEMMA OverNew ==
    ASSUME NEW old \in Contents, NEW b \in Bodies, NEW c \in Over(old, Current(b))
    PROVE  c \notin OldForms /\ (old = Empty => c = Current(b))
  BY FormFacts DEF Over

\* A step of p that writes no file: what it has read is old only if the file
\* was, and it does not start to replace one.
LEMMA OldKept ==
    ASSUME StoreTypeOK, OldOK, NEW p \in Procs,
           \A q \in Procs \ {p} : pc'[q] = pc[q] /\ bytes'[q] = bytes[q],
           \A h \in Hosts : \/ live'[h] = live[h] \/ live'[h] \notin OldForms,
           \A h \in Hosts : tmp'[h] \notin OldForms,
           UNCHANGED bak,
           bytes'[p] \in OldForms => bytes'[p] \in {bytes[p], live[HostOf(p)]},
           Replacing(p)' /\ ~Saving(p)' => Replacing(p) /\ bytes'[p] = bytes[p]
    PROVE  OldOK'
  BY HostFacts, SMTT(20) DEF StoreTypeOK, OldOK, Replacing, Saving

LEMMA OldArrive ==
    ASSUME StoreTypeOK, OldOK, NEW r \in Requests, Post(r) \/ Look(r) \/ Push(r)
    PROVE  OldOK'
<1>1. Absent \notin OldForms /\ \A b \in Bodies : Current(b) \notin OldForms
  BY FormFacts
<1>2. \A h \in Hosts : tmp[h] \notin OldForms
  BY DEF OldOK
<1> QED BY <1>1, <1>2, HostFacts, OldKept 
        DEF StoreTypeOK, Replacing, Post, Look, Push, Begin, At

LEMMA OldSave ==
    ASSUME StoreTypeOK, JobOK, OldOK, NEW p \in Procs,
           Lock(p) \/ Open(p) \/ Write(p) \/ RenameTmp(p)
    PROVE  OldOK'
<1> USE HostFacts DEF StoreTypeOK, Replacing, Saving, Goto, At, ghosts, disk
<1>0. /\ \A h \in Hosts : tmp[h] \notin OldForms
      /\ {Absent, Empty} \cap OldForms = {}
  BY FormFacts DEF OldOK
<1>1. CASE Lock(p)
  BY <1>0, <1>1, FormFacts, OldKept DEF Lock, JobOK
<1>2. CASE Open(p)
  BY <1>0, <1>2, OldKept DEF Open, OpenTmp
<1>3. CASE Write(p)
  <2>1. bytes[p].body \in Bodies
    BY <1>3, FormFacts DEF Write, JobOK
  <2>2. \A h \in Hosts : live'[h] = live[h] \/ live'[h] \notin OldForms
    BY <1>3, <2>1, OverNew DEF Write, WriteTmp
  <2>3. \A h \in Hosts : tmp'[h] \notin OldForms
    BY <1>0, <1>3, <2>1, OverNew, SMTT(20) DEF Write, WriteTmp
  <2> QED BY <1>3, <2>2, <2>3, OldKept DEF Write
<1>4. CASE RenameTmp(p)
  <2>0. UNCHANGED bak
    BY <1>4 DEF RenameTmp
  <2>1. CASE RenameFails(HostOf(p)) /\ Answer(p, "error") /\ UNCHANGED <<disk, saved, delivered>>
    BY <1>0, <2>0, <2>1, AnswerMoves, OldKept, SMTT(20)
  <2>2. CASE Rename(HostOf(p)) /\ AfterRename(p)
    <3>1. \A h \in Hosts : live'[h] = live[h] \/ live'[h] \notin OldForms
      BY <1>0, <2>2 DEF Rename
    <3>2. \A h \in Hosts : tmp'[h] \notin OldForms
      BY <1>0, <2>2 DEF Rename
    <3>3. CASE Answer(p, "ok")
      BY <1>0, <1>4, <3>1, <3>2, <3>3, AnswerMoves, OldKept, SMTT(20) DEF RenameTmp
    <3>4. CASE Saving(p) \/ job[p] = "push"
      <4>1. Current(bytes[p].body) \notin OldForms
        BY <1>4, FormFacts DEF RenameTmp, JobOK
      <4> QED BY <1>4, <2>2, <3>1, <3>2, <3>4, <4>1, OldKept DEF RenameTmp, AfterRename
    <3> QED BY <2>2, <3>3, <3>4 DEF AfterRename
  <2> QED BY <1>4, <2>1, <2>2 DEF RenameTmp
<1> QED BY <1>1, <1>2, <1>3, <1>4

LEMMA OldLoad ==
    ASSUME StoreTypeOK, JobOK, LockOK, OldOK, NEW p \in Procs,
           Read(p) \/ MigrateLock(p) \/ Recheck(p) \/ Backup(p)
    PROVE  OldOK'
<1> USE HostFacts DEF StoreTypeOK, Replacing, Saving, Goto, At, ghosts, disk
<1>0. /\ \A h \in Hosts : tmp[h] \notin OldForms
      /\ Absent \notin OldForms
  BY FormFacts DEF OldOK
<1>1. CASE UNCHANGED <<disk, bak>> /\ (Answer(p, "ok") \/ Answer(p, "error"))
  BY <1>0, <1>1, AnswerMoves, OldKept
<1>2. CASE Read(p) /\ ~Answer(p, "ok") /\ ~Answer(p, "error")
  BY <1>0, <1>2, OldKept DEF Read
<1>3. CASE MigrateLock(p)
  BY <1>0, <1>3, OldKept DEF MigrateLock
<1>4. CASE Recheck(p) /\ ~Answer(p, "ok")
  BY <1>0, <1>4, OldKept DEF Recheck
<1>5. CASE Backup(p)
  <2>1. PICK b \in Bodies : 
          /\ \A h \in Hosts : {bak[h], live[h]} \cap OldForms \subseteq {Old(b)}
          /\ \A q \in Procs : bytes[q] \in OldForms => bytes[q] = Old(b)
    BY DEF OldOK
  <2>2. bytes[p] = Old(b)
    BY <1>5, <2>1 DEF Backup, JobOK
  <2>3. \A h \in Hosts : {bak'[h], live'[h]} \cap OldForms \subseteq {Old(b)}
    BY <1>5, <2>1, <2>2, FormFacts DEF Backup
  <2>4. ASSUME NEW q \in Procs, Replacing(q)', ~Saving(q)' PROVE bak'[HostOf(q)] = bytes'[q]
    <3>1. CASE q = p
      BY <1>5, <3>1, <2>4 DEF Backup
    <3>2. CASE q # p
      <4>1. MigrationRuns(q) /\ MigrationRuns(p) /\ Replacing(q) /\ ~Saving(q)
        BY <1>5, <3>2, <2>4, FormFacts DEF Backup, MigrationRuns, JobOK
      <4>2. HostOf(q) # HostOf(p)
        BY <3>2, <4>1 DEF LockOK
      <4> QED BY <1>5, <4>1, <4>2, <3>2 DEF Backup, OldOK
    <3> QED BY <3>1, <3>2
  <2> QED BY <1>0, <1>5, <2>1, <2>3, <2>4 DEF Backup, OldOK
<1> QED BY <1>1, <1>2, <1>3, <1>4, <1>5 DEF Read, Recheck

LEMMA OldPush ==
    ASSUME StoreTypeOK, JobOK, OldOK, NEW r \in Requests,
           Send(r) \/ Answered(r) \/ PushTimesOut(r) \/ PushLost(r)
    PROVE  OldOK'
<1> USE HostFacts DEF StoreTypeOK, Replacing, Saving, At, ghosts, disk
<1>0. /\ \A h \in Hosts : tmp[h] \notin OldForms
      /\ Absent \notin OldForms
  BY FormFacts DEF OldOK
<1>1. CASE Send(r)
  BY <1>1, FormFacts DEF Send, OldOK
<1>2. CASE UNCHANGED <<disk, bak>> /\ \E answer : Answer(r, answer)
  BY <1>0, <1>2, AnswerMoves, OldKept, SMTT(20)
<1> QED BY <1>1, <1>2 DEF Answered, PushTimesOut, PushLost

LEMMA OldOther ==
    ASSUME StoreTypeOK, OldOK,
           (\E p \in Procs : WriteFails(p)) \/ (\E h \in Hosts : Crash(h)) \/ PutBack
    PROVE  OldOK'
<1> USE HostFacts DEF StoreTypeOK, Replacing, Saving
<1>0. /\ \A h \in Hosts : tmp[h] \notin OldForms
      /\ Absent \notin OldForms
  BY FormFacts DEF OldOK
<1>1. ASSUME NEW p \in Procs, WriteFails(p) PROVE OldOK'
  BY <1>0, <1>1, AnswerMoves, OldKept DEF WriteFails
<1>2. ASSUME NEW h \in Hosts, Crash(h) PROVE OldOK'
  BY <1>0, <1>2 DEF Crash, OldOK
<1>3. CASE PutBack
  BY <1>3 DEF PutBack, OldOK
<1> QED BY <1>1, <1>2, <1>3

-----------------------------------------------------------------------------
(* The files. *)

\* Without a clash only one process of a host replaces its file.
LEMMA Alone ==
    ASSUME JobOK, LockOK, NEW p \in Procs, NEW q \in Procs, p # q, HostOf(p) = HostOf(q),
           Replacing(p) \/ MigrationRuns(p), Replacing(q) \/ MigrationRuns(q)
    PROVE  clash[HostOf(p)]
  BY HostFacts, FormFacts DEF JobOK, LockOK, SaveRuns, MigrationRuns, Replacing

\* A step of p that leaves the files as they are, and after which p neither
\* writes nor renames.
LEMMA WholeKept ==
    ASSUME StoreTypeOK, WholeOK, NEW p \in Procs, UNCHANGED <<live, tmp, saved>>,
           \A h \in Hosts : clash[h] => clash'[h],
           \A q \in Procs \ {p} : pc'[q] = pc[q] /\ bytes'[q] = bytes[q] /\ fd'[q] = fd[q],
           pc'[p] \notin {"write", "rename"},
           MigrationRuns(p)' /\ ~clash'[HostOf(p)] => saved[HostOf(p)] = bytes'[p].body
    PROVE  WholeOK'
  BY HostFacts DEF StoreTypeOK, WholeOK, TmpOK, MigrationRuns, Saving

LEMMA WholeArrive ==
    ASSUME StoreTypeOK, WholeOK, NEW r \in Requests, Post(r) \/ Look(r) \/ Push(r)
    PROVE  WholeOK'
<1>1. ASSUME NEW kind, NEW b, NEW step \in {"lock", "read"}, Begin(r, kind, b, step)
      PROVE  WholeOK'
  BY <1>1, HostFacts, WholeKept DEF StoreTypeOK, Begin, MigrationRuns
<1> QED BY <1>1 DEF Post, Look, Push

\* A step of p that is replacing the file of its host: the others there do not.
LEMMA WholeWritten ==
    ASSUME StoreTypeOK, JobOK, LockOK, WholeOK, NEW p \in Procs, Replacing(p), UNCHANGED clash,
           \A q \in Procs \ {p} : pc'[q] = pc[q] /\ bytes'[q] = bytes[q],
           \A q \in Procs : HostOf(q) # HostOf(p) /\ fd[q] = <<"tmp", HostOf(q)>> => fd'[q] = fd[q],
           \A g \in Hosts \ {HostOf(p)} : live'[g] = live[g] /\ tmp'[g] = tmp[g] /\ saved'[g] = saved[g],
           ~clash[HostOf(p)] =>
              /\ live'[HostOf(p)] \in Forms /\ live'[HostOf(p)].body = saved'[HostOf(p)]
              /\ pc'[p] = "write" =>
                    fd'[p] = <<"tmp", HostOf(p)>> /\ tmp'[HostOf(p)] = Empty
              /\ pc'[p] = "rename" => tmp'[HostOf(p)] = Current(bytes'[p].body)
              /\ MigrationRuns(p)' => saved'[HostOf(p)] = bytes'[p].body
    PROVE  WholeOK'
<1>1. ASSUME ~clash[HostOf(p)], NEW q \in Procs \ {p}, HostOf(q) = HostOf(p)
      PROVE  ~Replacing(q) /\ ~MigrationRuns(q)
  BY <1>1, Alone
<1>2. \A q \in Procs \ {p} : MigrationRuns(q)' = MigrationRuns(q) /\ Replacing(q)' = Replacing(q)
  BY DEF MigrationRuns, Saving, Replacing
<1>3. TmpOK'
  <2> SUFFICES ASSUME NEW q \in Procs, ~clash[HostOf(q)]
               PROVE  /\ pc'[q] = "write" => fd'[q] = <<"tmp", HostOf(q)>> /\ tmp'[HostOf(q)] = Empty
                      /\ pc'[q] = "rename" => tmp'[HostOf(q)] = Current(bytes'[q].body)
                      /\ MigrationRuns(q)' => saved'[HostOf(q)] = bytes'[q].body
    BY DEF TmpOK
  <2>1. CASE q = p
    BY <2>1
  <2>2. CASE q # p /\ HostOf(q) = HostOf(p)
    BY <1>1, <1>2, <2>2 DEF Replacing
  <2>3. CASE q # p /\ HostOf(q) # HostOf(p)
    BY <1>2, <2>3, HostFacts DEF WholeOK, TmpOK
  <2> QED BY <2>1, <2>2, <2>3
<1> QED BY <1>3 DEF WholeOK

LEMMA WholeSave ==
    ASSUME StoreTypeOK, JobOK, LockOK, WholeOK, NEW p \in Procs,
           Lock(p) \/ Open(p) \/ Write(p) \/ RenameTmp(p)
    PROVE  WholeOK'
<1> USE HostFacts DEF StoreTypeOK, Goto, At, ghosts, disk
<1>1. CASE Lock(p)
  <2>1. ~MigrationRuns(p)'
    BY <1>1 DEF Lock, JobOK, MigrationRuns, Saving
  <2> QED BY <1>1, <2>1, MarkClashMarks, WholeKept DEF Lock
<1>2. CASE Open(p)
  <2>1. MigrationRuns(p)' = MigrationRuns(p) /\ Replacing(p)
    BY <1>2 DEF Open, MigrationRuns, Saving, Replacing
  <2> QED BY <1>2, <2>1, WholeWritten DEF Open, OpenTmp, WholeOK, TmpOK
<1>3. CASE Write(p)
  <2>1. MigrationRuns(p)' = MigrationRuns(p) /\ Replacing(p)
    BY <1>3 DEF Write, MigrationRuns, Saving, Replacing
  <2>2. /\ \A g \in Hosts \ {HostOf(p)} : live'[g] = live[g] /\ tmp'[g] = tmp[g]
        /\ \A q \in Procs \ {p} : fd'[q] = fd[q]
        /\ bytes[p].body \in Bodies
    BY <1>3, FormFacts DEF Write, WriteTmp, JobOK, Replacing
  <2>3. ASSUME ~clash[HostOf(p)]
        PROVE  live' = live /\ tmp'[HostOf(p)] = Current(bytes[p].body)
    <3>1. fd[p] = <<"tmp", HostOf(p)>> /\ tmp[HostOf(p)] = Empty
      BY <1>3, <2>3 DEF Write, WholeOK, TmpOK
    <3>2. fd[p] # <<"live", HostOf(p)>> /\ fd[p] # <<"gone", HostOf(p)>>
      BY <3>1
    <3>3. PICK c \in Over(Empty, Current(bytes[p].body)) :
            tmp' = [tmp EXCEPT ![HostOf(p)] = c] /\ live' = live
      BY <1>3, <3>1, <3>2 DEF Write, WriteTmp
    <3>4. c = Current(bytes[p].body)
      BY <2>2, OverNew DEF Contents
    <3> QED BY <3>3, <3>4
  <2>4. /\ UNCHANGED <<clash, saved, bytes>> /\ pc'[p] = "rename"
        /\ \A q \in Procs \ {p} : pc'[q] = pc[q]
    BY <1>3 DEF Write
  <2>5. ~clash[HostOf(p)] =>
            /\ live[HostOf(p)] \in Forms /\ live[HostOf(p)].body = saved[HostOf(p)]
            /\ MigrationRuns(p) => saved[HostOf(p)] = bytes[p].body
    BY DEF WholeOK, TmpOK
  <2> QED BY <2>1, <2>2, <2>3, <2>4, <2>5, WholeWritten
<1>4. CASE RenameTmp(p)
  <2>1. Replacing(p) /\ (~Saving(p) => MigrationRuns(p)) /\ bytes[p] \in Forms /\ UNCHANGED clash
    BY <1>4 DEF RenameTmp, MigrationRuns, Replacing, JobOK
  <2>2. CASE RenameFails(HostOf(p)) /\ Answer(p, "error") /\ UNCHANGED <<disk, saved, delivered>>
    BY <2>1, <2>2, AnswerMoves, WholeKept DEF MigrationRuns
  <2>3. CASE Rename(HostOf(p)) /\ AfterRename(p)
    <3>1. /\ pc'[p] \in {"read", "send", "idle"}
          /\ \A q \in Procs \ {p} : pc'[q] = pc[q] /\ bytes'[q] = bytes[q]
          /\ \A g \in Hosts \ {HostOf(p)} : saved'[g] = saved[g]
          /\ saved'[HostOf(p)] = IF Saving(p) THEN bytes[p].body ELSE saved[HostOf(p)]
      <4>1. CASE Saving(p)
        BY <2>1, <2>3, <4>1 DEF AfterRename
      <4>2. CASE ~Saving(p) /\ job[p] = "push"
        <5>1. /\ Goto(p, "send") /\ UNCHANGED saved
              /\ bytes' = [bytes EXCEPT ![p] = Current(@.body)]
          BY <2>3, <4>2 DEF AfterRename
        <5> QED BY <4>2, <5>1
      <4>3. CASE ~Saving(p) /\ job[p] # "push"
        BY <2>1, <2>3, <4>3, AnswerMoves DEF AfterRename
      <4> QED BY <4>1, <4>2, <4>3
    <3>2. \A q \in Procs : HostOf(q) # HostOf(p) /\ fd[q] = <<"tmp", HostOf(q)>> => fd'[q] = fd[q]
      BY <2>3, FdFacts DEF Rename, Renamed
    <3>3. /\ \A g \in Hosts \ {HostOf(p)} : live'[g] = live[g] /\ tmp'[g] = tmp[g]
          /\ live'[HostOf(p)] = tmp[HostOf(p)]
      BY <2>3 DEF Rename
    <3>4. ~clash[HostOf(p)] =>
            /\ tmp[HostOf(p)] = Current(bytes[p].body) 
            /\ ~Saving(p) => saved[HostOf(p)] = bytes[p].body
      BY <1>4, <2>1 DEF RenameTmp, WholeOK, TmpOK
    <3>5. ~clash[HostOf(p)] =>
            live'[HostOf(p)] \in Forms /\ live'[HostOf(p)].body = saved'[HostOf(p)]
      BY <2>1, <3>1, <3>3, <3>4, FormFacts
    <3> QED BY <2>1, <3>1, <3>2, <3>3, <3>5, WholeWritten DEF MigrationRuns
  <2> QED BY <1>4, <2>2, <2>3 DEF RenameTmp
<1> QED BY <1>1, <1>2, <1>3, <1>4

LEMMA WholeLoad ==
    ASSUME StoreTypeOK, JobOK, OldOK, WholeOK, NEW p \in Procs,
           Read(p) \/ MigrateLock(p) \/ Recheck(p) \/ Backup(p)
    PROVE  WholeOK'
<1> USE HostFacts DEF StoreTypeOK, Goto, At, ghosts, disk, MigrationRuns
<1>1. CASE UNCHANGED <<disk, saved, clash>> /\ (Answer(p, "ok") \/ Answer(p, "error"))
  BY <1>1, AnswerMoves, WholeKept
<1>2. CASE Read(p) /\ ~Answer(p, "ok") /\ ~Answer(p, "error")
  BY <1>2, WholeKept DEF Read
<1>3. CASE MigrateLock(p)
  BY <1>3, WholeKept DEF MigrateLock
<1>4. CASE /\ UNCHANGED <<disk, saved, clash>> /\ Goto(p, "send")
           /\ \E c : bytes' = [bytes EXCEPT ![p] = c]
  BY <1>4, WholeKept
<1>5. CASE /\ Recheck(p) /\ live[HostOf(p)] \notin CurrentForms 
           /\ Goto(p, "bak") /\ MarkClash(p) /\ UNCHANGED bytes
  <2>1. PICK b \in Bodies : 
          /\ \A h \in Hosts : {bak[h], live[h]} \cap OldForms \subseteq {Old(b)}
          /\ \A q \in Procs : bytes[q] \in OldForms => bytes[q] = Old(b)
    BY DEF OldOK
  <2>2. bytes[p] = Old(b)
    BY <1>5, <2>1 DEF Recheck, JobOK
  <2>3. ~clash[HostOf(p)] => live[HostOf(p)] = Old(b) /\ saved[HostOf(p)] = live[HostOf(p)].body
    BY <1>5, <2>1, FormFacts DEF WholeOK
  <2> QED BY <1>5, <2>2, <2>3, MarkClashMarks, WholeKept DEF Recheck
<1>6. CASE Backup(p)
  BY <1>6, FormFacts, WholeKept DEF Backup, WholeOK, TmpOK, JobOK, Saving
<1> QED BY <1>1, <1>2, <1>3, <1>4, <1>5, <1>6 DEF Read, Recheck

LEMMA WholePush ==
    ASSUME StoreTypeOK, JobOK, WholeOK, NEW r \in Requests,
           Send(r) \/ Answered(r) \/ PushTimesOut(r) \/ PushLost(r)
    PROVE  WholeOK'
<1> USE HostFacts DEF StoreTypeOK, At, ghosts, disk, MigrationRuns
<1>1. CASE Send(r)
  BY <1>1, FormFacts DEF Send, WholeOK, TmpOK, Saving, JobOK
<1>2. CASE UNCHANGED <<disk, saved, clash>> /\ \E answer : Answer(r, answer)
  BY <1>2, AnswerMoves, WholeKept
<1> QED BY <1>1, <1>2 DEF Answered, PushTimesOut, PushLost

LEMMA WholeOther ==
    ASSUME StoreTypeOK, JobOK, OldOK, WholeOK,
           (\E p \in Procs : WriteFails(p)) \/ (\E h \in Hosts : Crash(h)) \/ PutBack
    PROVE  WholeOK'
<1> USE HostFacts DEF StoreTypeOK, ghosts, MigrationRuns, Saving
<1>1. ASSUME NEW p \in Procs, WriteFails(p) PROVE WholeOK'
  BY <1>1, AnswerMoves, WholeKept DEF WriteFails, CloseAll
<1>2. ASSUME NEW h \in Hosts, Crash(h) PROVE WholeOK'
  BY <1>2 DEF Crash, CloseAll, WholeOK, TmpOK
<1>3. CASE PutBack
  <2>1. PICK b \in Bodies : 
          /\ \A h \in Hosts : {bak[h], live[h]} \cap OldForms \subseteq {Old(b)}
          /\ \A q \in Procs : bytes[q] \in OldForms => bytes[q] = Old(b)
    BY DEF OldOK
  <2>2. bak[Leader] = Old(b)
    BY <1>3, <2>1 DEF PutBack
  <2>3. \A p \in Procs : MigrationRuns(p) => bytes[p] = Old(b)
    BY <2>1, FormFacts DEF JobOK, Replacing
  <2> QED BY <1>3, <2>1, <2>2, <2>3, FormFacts, FdFacts DEF PutBack, WholeOK, TmpOK
<1> QED BY <1>1, <1>2, <1>3

-----------------------------------------------------------------------------
(* The follower's file. *)

LEMMA HandlerSaves ==
    ASSUME JobOK, NEW p \in Handlers
    PROVE  /\ ~MigrationRuns(p) /\ pc[p] \notin {"migrate", "recheck", "bak", "bakWrite"}
           /\ Replacing(p) => Saving(p) /\ job[p] = "receive"
  BY HostFacts, FormFacts DEF JobOK, MigrationRuns, Saving, Replacing

\* Whose step changes a host's file: only a writer or a rename there.
LEMMA FileOfAnother ==
    ASSUME StoreTypeOK, JobOK, WholeOK, FollowerNew, NEW p \in Procs,
           Lock(p) \/ Open(p) \/ Write(p) \/ RenameTmp(p), live'[Follower] # live[Follower]
    PROVE  /\ RenameTmp(p) /\ p \in Handlers /\ Saving(p)
           /\ live'[Follower] = bytes[p] /\ pc' = [pc EXCEPT ![p] = "read"] 
           /\ UNCHANGED <<job, bytes, reply, clash, crossed>>
           /\ saved'[Leader] = saved[Leader] /\ (delivered' => delivered)
<1> USE HostFacts DEF StoreTypeOK, disk
<1>1. ASSUME Write(p) PROVE FALSE
  <2>1. HostOf(p) = Follower /\ pc[p] = "write" /\ fd[p] = <<"live", Follower>>
    BY <1>1 DEF Write, WriteTmp, At
  <2>2. fd[p] = <<"tmp", Follower>>
    BY <2>1 DEF WholeOK, TmpOK, FollowerNew
  <2> QED BY <2>1, <2>2
<1>2. RenameTmp(p) /\ Rename(HostOf(p)) /\ AfterRename(p) /\ HostOf(p) = Follower
  BY <1>1 DEF Lock, Open, OpenTmp, RenameTmp, Rename
<1>3. p \in Handlers
  BY <1>2
<1>4. Saving(p) /\ pc[p] = "rename"
  BY <1>2, <1>3, HandlerSaves DEF RenameTmp, At, Replacing
<1>5. live'[Follower] = Current(bytes[p].body)
  BY <1>2, <1>4 DEF Rename, WholeOK, TmpOK, FollowerNew
<1>6. live'[Follower] = bytes[p]
  BY <1>4, <1>5, FormFacts DEF Saving
<1> QED BY <1>2, <1>3, <1>4, <1>6 DEF RenameTmp, AfterRename, Goto

LEMMA FollowerNext ==
    ASSUME StoreTypeOK, JobOK, WholeOK, FollowerNew, [Next]_vars
    PROVE  FollowerNew'
<1> USE HostFacts DEF StoreTypeOK, disk, ghosts
<1>1. ASSUME NEW p \in Procs, Lock(p) \/ Open(p) \/ Write(p) \/ RenameTmp(p) PROVE FollowerNew'
  <2>1. live'[Follower] \in CurrentForms
    BY <1>1, FileOfAnother DEF FollowerNew, Saving
  <2>2. ~clash'[Follower]
    <3>1. CASE Lock(p)
      BY <3>1, MarkClashMarks, HandlerSaves DEF Lock, FollowerNew, JobOK, At
    <3>2. CASE Open(p) \/ Write(p) \/ RenameTmp(p)
      BY <3>2 DEF Open, Write, RenameTmp, FollowerNew
    <3> QED BY <1>1, <3>1, <3>2
  <2> QED BY <2>1, <2>2 DEF FollowerNew
<1>2. ASSUME NEW p \in Procs, Read(p) \/ MigrateLock(p) \/ Backup(p) PROVE FollowerNew'
  BY <1>2 DEF Read, MigrateLock, Backup, FollowerNew
<1>3. ASSUME NEW p \in Procs, Recheck(p) PROVE FollowerNew'
  <2>1. UNCHANGED clash \/ (MarkClash(p) /\ p \notin Handlers)
    BY <1>3, HandlerSaves DEF Recheck, At
  <2>2. p \notin Handlers => HostOf(p) # Follower
    OBVIOUS
  <2> QED BY <1>3, <2>1, <2>2, MarkClashMarks DEF Recheck, FollowerNew
<1>4. ASSUME NEW r \in Requests, Send(r) \/ Answered(r) \/ PushTimesOut(r) \/ PushLost(r)
      PROVE  FollowerNew'
  BY <1>4 DEF Send, Answered, PushTimesOut, PushLost, FollowerNew
<1>5. ASSUME NEW r \in Requests, Post(r) \/ Look(r) \/ Push(r) PROVE FollowerNew'
  BY <1>5 DEF Post, Look, Push, Begin, FollowerNew
<1>6. ASSUME NEW p \in Procs, WriteFails(p) PROVE FollowerNew'
  BY <1>6 DEF WriteFails, FollowerNew
<1>7. ASSUME NEW h \in Hosts, Crash(h) PROVE FollowerNew'
  BY <1>7 DEF Crash, FollowerNew
<1>8. CASE PutBack
  BY <1>8 DEF PutBack, FollowerNew
<1>9. CASE UNCHANGED vars
  BY <1>9 DEF vars, FollowerNew
<1> QED BY <1>1, <1>2, <1>3, <1>4, <1>5, <1>6, <1>7, <1>8, <1>9
        DEF Next, Step, Arrive, Fault

-----------------------------------------------------------------------------
(* The push. *)

\* A step of p that leaves the follower's file as it is, unless the handler p
\* answers, starts no push and delivers nothing.
LEMMA PushKept ==
    ASSUME StoreTypeOK, JobOK, JobOK', PushOK, NEW p \in Procs, UNCHANGED crossed,
           live'[Follower] = live[Follower],
           delivered' => delivered /\ saved'[Leader] = saved[Leader],
           clash[Leader] => clash'[Leader],
           \A q \in Procs \ {p} :
              pc'[q] = pc[q] /\ job'[q] = job[q] /\ bytes'[q] = bytes[q] /\ reply'[q] = reply[q],
           p \in Requests =>
              /\ job'[p] = "push" => job[p] = "push"
              /\ pc'[p] = "wait" => pc[p] = "wait" /\ bytes'[p] = bytes[p]
              /\ pc'[p] = "send" /\ ~clash[Leader] => bytes'[p].body = saved[Leader],
           p \in Handlers =>
              /\ pc'[p] = "read" => pc[p] = "read"
              /\ pc'[p] # "idle" => pc[p] # "idle" /\ bytes'[p] = bytes[p]
              /\ pc'[p] = "idle" /\ reply'[p] = "ok" => pc[p] = "read"
    PROVE  PushOK'
<1> USE HostFacts
<1>1. Pushing' \subseteq Pushing
  BY DEF Pushing, JobOK
<1>2. CarryOK'
  <2> SUFFICES ASSUME NEW r \in Requests
      PROVE  /\ pc'[r] = "wait" /\ pc'[Handler(r)] # "idle" => bytes'[Handler(r)] = bytes'[r]
             /\ ~crossed /\ pc'[Handler(r)] = "read" => live'[Follower] = bytes'[Handler(r)]
             /\ ~crossed /\ pc'[r] = "wait" /\ pc'[Handler(r)] = "idle" 
                   /\ reply'[Handler(r)] = "ok" => live'[Follower].body = bytes'[r].body
    BY DEF CarryOK
  <2> QED BY DEF PushOK, CarryOK
<1>3. ASSUME ~crossed, ~clash'[Leader], delivered', NEW r \in Requests
      PROVE  /\ live'[Follower].body = saved'[Leader]
             /\ pc'[r] \in {"send", "wait"} => bytes'[r].body = saved'[Leader]
             /\ pc'[Handler(r)] # "idle" => bytes'[Handler(r)].body = saved'[Leader]
  BY <1>3 DEF PushOK
<1> QED BY <1>1, <1>2, <1>3 DEF PushOK

LEMMA PushArrive ==
    ASSUME StoreTypeOK, JobOK, JobOK', PushOK, NEW r \in Requests, Post(r) \/ Look(r) \/ Push(r)
    PROVE  PushOK'
<1> USE HostFacts DEF StoreTypeOK, At
<1>1. CASE Post(r) \/ Look(r)
  BY <1>1, PushKept DEF Post, Look, Begin
<1>2. CASE Push(r)
  <2>1. \A s \in Requests : /\ s # r => pc'[s] = pc[s] /\ job'[s] = job[s] /\ bytes'[s] = bytes[s]
                            /\ pc'[Handler(s)] = pc[Handler(s)] /\ job'[Handler(s)] = job[Handler(s)]
                            /\ bytes'[Handler(s)] = bytes[Handler(s)]
    BY <1>2 DEF Push, Begin
  <2>2. pc'[r] = "read" /\ UNCHANGED <<live, reply, saved, delivered, clash>>
    BY <1>2 DEF Push, Begin
  <2>3. crossed' = (crossed \/ Pushing # {})
    BY <1>2 DEF Push
  <2>4. ~crossed' => ~crossed /\ \A s, t \in Pushing' : s = t
    BY <2>1, <2>3 DEF Pushing
  <2>5. CarryOK'
    BY <2>1, <2>2, <2>4 DEF PushOK, CarryOK
  <2> QED BY <2>1, <2>2, <2>4, <2>5 DEF PushOK
<1> QED BY <1>1, <1>2

\* The handler of a push renames: the follower has what was sent.
LEMMA PushRename ==
    ASSUME StoreTypeOK, JobOK, JobOK', PushOK, NEW p \in Handlers, pc[p] = "rename",
           live'[Follower] = bytes[p], pc' = [pc EXCEPT ![p] = "read"],
           UNCHANGED <<job, bytes, reply, clash, crossed>>,
           saved'[Leader] = saved[Leader], delivered' => delivered
    PROVE  PushOK'
<1> USE HostFacts DEF StoreTypeOK
<1>1. PICK s \in Requests : p = Handler(s)
  OBVIOUS
<1>2. ~crossed => s \in Pushing /\ \A r \in Requests \ {s} : r \notin Pushing
  BY <1>1 DEF PushOK, Pushing, JobOK
<1>3. ASSUME ~crossed, NEW r \in Requests \ {s}
      PROVE  pc[r] \notin {"send", "wait"} /\ pc[Handler(r)] = "idle"
  BY <1>2, <1>3 DEF Pushing, JobOK
<1>4. CarryOK'
  <2> SUFFICES ASSUME NEW r \in Requests
      PROVE  /\ pc'[r] = "wait" /\ pc'[Handler(r)] # "idle" => bytes'[Handler(r)] = bytes'[r]
             /\ ~crossed /\ pc'[Handler(r)] = "read" => live'[Follower] = bytes'[Handler(r)]
             /\ ~crossed /\ pc'[r] = "wait" /\ pc'[Handler(r)] = "idle" 
                   /\ reply'[Handler(r)] = "ok" => live'[Follower].body = bytes'[r].body
    BY DEF CarryOK
  <2>1. CASE r = s
    BY <1>1, <2>1 DEF PushOK, CarryOK
  <2>2. CASE r # s
    BY <1>1, <1>3, <2>2 DEF PushOK, CarryOK
  <2> QED BY <2>1, <2>2
<1>5. Pushing' = Pushing
  BY DEF Pushing
<1>6. ASSUME ~crossed, ~clash[Leader], delivered PROVE bytes[p].body = saved[Leader]
  BY <1>1, <1>6 DEF PushOK
<1>7. \A r \in Requests : (pc'[r] \in {"send", "wait"} => pc[r] \in {"send", "wait"})
                          /\ (pc'[Handler(r)] # "idle" => pc[Handler(r)] # "idle")
  BY <1>1
<1> QED BY <1>4, <1>5, <1>6, <1>7 DEF PushOK

LEMMA PushSave ==
    ASSUME StoreTypeOK, JobOK, JobOK', WholeOK, FollowerNew, PushOK, NEW p \in Procs,
           Lock(p) \/ Open(p) \/ Write(p) \/ RenameTmp(p)
    PROVE  PushOK'
<1> USE HostFacts DEF StoreTypeOK, At, Goto, ghosts
<1>1. CASE live'[Follower] # live[Follower]
  BY <1>1, FileOfAnother, PushRename DEF RenameTmp
<1>2. CASE live'[Follower] = live[Follower] /\ Lock(p)
  BY <1>2, MarkClashMarks, PushKept DEF Lock
<1>3. CASE live'[Follower] = live[Follower] /\ Open(p)
  BY <1>3, PushKept DEF Open
<1>4. CASE live'[Follower] = live[Follower] /\ Write(p)
  BY <1>4, PushKept DEF Write
<1>5. CASE live'[Follower] = live[Follower] /\ RenameTmp(p)
  <2>1. CASE RenameFails(HostOf(p)) /\ Answer(p, "error") /\ UNCHANGED <<disk, saved, delivered>>
    <3>1. UNCHANGED <<clash, crossed>>
      BY <1>5 DEF RenameTmp
    <3> QED BY <1>5, <2>1, <3>1, AnswerMoves, PushKept
  <2>2. CASE Rename(HostOf(p)) /\ AfterRename(p)
    <3>0. UNCHANGED <<clash, crossed>> /\ pc[p] = "rename" /\ Replacing(p)
      BY <1>5 DEF RenameTmp, Replacing
    <3>1. CASE Saving(p) /\ p \in Handlers
      <4>1. live'[Follower] = bytes[p]
        BY <2>2, <3>0, <3>1, FormFacts DEF Rename, WholeOK, TmpOK, FollowerNew, Saving
      <4>2. /\ pc' = [pc EXCEPT ![p] = "read"] /\ UNCHANGED <<job, bytes, reply>>
            /\ saved'[Leader] = saved[Leader] /\ (delivered' => delivered)
        BY <2>2, <3>1 DEF AfterRename
      <4> QED BY <3>0, <3>1, <4>1, <4>2, PushRename
    <3>2. CASE Saving(p) /\ p \notin Handlers
      BY <1>5, <2>2, <3>0, <3>2, PushKept DEF AfterRename
    <3>3. CASE ~Saving(p) /\ job[p] = "push"
      <4>1. /\ Goto(p, "send") /\ UNCHANGED <<job, reply, saved, delivered>>
            /\ bytes' = [bytes EXCEPT ![p] = Current(@.body)]
        BY <2>2, <3>3 DEF AfterRename
      <4>2. p \notin Handlers /\ MigrationRuns(p) /\ bytes[p].body \in Bodies
        BY <3>0, <3>3, HandlerSaves, FormFacts DEF MigrationRuns, JobOK
      <4>3. ~clash[Leader] => bytes[p].body = saved[Leader]
        BY <4>2 DEF WholeOK, TmpOK
      <4>4. bytes'[p].body = bytes[p].body
        BY <4>1, <4>2, FormFacts
      <4> QED BY <1>5, <3>0, <3>3, <4>1, <4>2, <4>3, <4>4, PushKept
    <3>4. CASE ~Saving(p) /\ job[p] # "push"
      <4>1. p \notin Handlers
        BY <3>0, <3>4, HandlerSaves
      <4>2. Answer(p, "ok") /\ UNCHANGED <<saved, delivered>>
        BY <2>2, <3>4 DEF AfterRename
      <4> QED BY <1>5, <3>0, <4>1, <4>2, AnswerMoves, PushKept
    <3> QED BY <3>1, <3>2, <3>3, <3>4
  <2> QED BY <1>5, <2>1, <2>2 DEF RenameTmp
<1> QED BY <1>1, <1>2, <1>3, <1>4, <1>5

LEMMA PushLoad ==
    ASSUME StoreTypeOK, JobOK, JobOK', WholeOK, FollowerNew, PushOK, NEW p \in Procs,
           Read(p) \/ MigrateLock(p) \/ Recheck(p) \/ Backup(p)
    PROVE  PushOK'
<1> USE HostFacts DEF StoreTypeOK, At, Goto, ghosts, disk
<1>1. CASE Read(p)
  <2>1. CASE Answer(p, "ok") \/ Answer(p, "error")
    BY <1>1, <2>1, AnswerMoves, PushKept DEF Read
  <2>2. CASE ~Answer(p, "ok") /\ ~Answer(p, "error")
    <3>1. p \notin Handlers
      BY <1>1, <2>2, FormFacts DEF Read, FollowerNew, JobOK
    <3>2. ~clash[Leader] => live[Leader].body = saved[Leader]
      BY DEF WholeOK
    <3>3. /\ pc'[p] \in {"send", "migrate"} /\ bytes'[p] = live[Leader] 
          /\ UNCHANGED <<live, job, reply, saved, delivered, clash, crossed>>
          /\ \A q \in Procs \ {p} : pc'[q] = pc[q] /\ bytes'[q] = bytes[q]
      BY <1>1, <2>2, <3>1 DEF Read
    <3> QED BY <3>1, <3>2, <3>3, PushKept
  <2> QED BY <2>1, <2>2
<1>2. CASE (MigrateLock(p) \/ Recheck(p) \/ Backup(p)) /\ ~Answer(p, "ok")
  <2>1. p \notin Handlers
    BY <1>2, HandlerSaves DEF MigrateLock, Recheck, Backup
  <2>2. ~clash[Leader] => live[Leader].body = saved[Leader]
    BY DEF WholeOK
  <2>3. CASE MigrateLock(p) \/ Backup(p)
    BY <2>1, <2>3, PushKept DEF MigrateLock, Backup
  <2>4. CASE Recheck(p)
    BY <1>2, <2>1, <2>2, <2>4, MarkClashMarks, PushKept DEF Recheck
  <2> QED BY <1>2, <2>3, <2>4
<1>3. CASE Recheck(p) /\ Answer(p, "ok")
  <2>1. p \notin Handlers
    BY <1>3, HandlerSaves DEF Recheck
  <2>2. \A h \in Hosts : clash[h] => clash'[h]
    BY <1>3, MarkClashMarks DEF Recheck
  <2> QED BY <1>3, <2>1, <2>2, AnswerMoves, PushKept DEF Recheck
<1>4. CASE (MigrateLock(p) \/ Backup(p)) /\ Answer(p, "ok")
  BY <1>4, AnswerMoves DEF MigrateLock, Backup
<1> QED BY <1>1, <1>2, <1>3, <1>4

LEMMA PushPush ==
    ASSUME StoreTypeOK, JobOK, JobOK', WholeOK, PushOK, NEW r \in Requests,
           Send(r) \/ Answered(r) \/ PushTimesOut(r) \/ PushLost(r)
    PROVE  PushOK'
<1> USE HostFacts DEF StoreTypeOK, At, ghosts, disk
<1>1. CASE Send(r)
  <2>1. \A s \in Requests : s # r => 
           /\ pc'[s] = pc[s] /\ job'[s] = job[s] /\ bytes'[s] = bytes[s]
           /\ pc'[Handler(s)] = pc[Handler(s)] /\ job'[Handler(s)] = job[Handler(s)]
           /\ bytes'[Handler(s)] = bytes[Handler(s)] /\ reply'[Handler(s)] = reply[Handler(s)]
    BY <1>1 DEF Send
  <2>2. /\ pc[r] = "send" /\ pc'[r] = "wait" /\ pc'[Handler(r)] = "lock" /\ job'[r] = job[r]
        /\ bytes'[Handler(r)] = bytes[r] /\ bytes'[r] = bytes[r] /\ job[r] = "push"
        /\ UNCHANGED <<live, saved, delivered, clash, crossed>>
    BY <1>1 DEF Send, JobOK
  <2>3. Pushing' = Pushing
    BY <2>1, <2>2 DEF Pushing
  <2>4. CarryOK'
    BY <2>1, <2>2 DEF PushOK, CarryOK
  <2> QED BY <2>1, <2>2, <2>3, <2>4 DEF PushOK
<1>2. CASE Answered(r)
  <2>1. /\ pc[r] = "wait" /\ pc'[r] = "idle" /\ pc[Handler(r)] = "idle" /\ job[r] = "push"
        /\ UNCHANGED <<live, saved, clash, crossed>>
        /\ \A q \in Procs \ {r} :
              pc'[q] = pc[q] /\ job'[q] = job[q] /\ bytes'[q] = bytes[q] /\ reply'[q] = reply[q]
    BY <1>2, AnswerMoves DEF Answered, JobOK
  <2>2. CASE delivered' => delivered
    BY <2>1, <2>2, PushKept DEF JobOK
  <2>3. CASE ~(delivered' => delivered)
    <3>1. reply[Handler(r)] = "ok" /\ bytes[r].body = saved[Leader]
      BY <1>2, <2>3 DEF Answered
    <3>2. ~crossed => live[Follower].body = saved[Leader]
      BY <2>1, <3>1 DEF PushOK, CarryOK
    <3>3. ~crossed => \A s \in Requests \ {r} : s \notin Pushing
      BY <2>1 DEF PushOK, Pushing
    <3>4. ~crossed => \A s \in Requests : pc'[s] \notin {"send", "wait"} /\ pc'[Handler(s)] = "idle"
      BY <2>1, <3>3 DEF Pushing, JobOK
    <3>5. Pushing' \subseteq Pushing
      BY <2>1 DEF Pushing, JobOK
    <3>6. CarryOK'
      BY <2>1 DEF PushOK, CarryOK
    <3> QED BY <2>1, <3>2, <3>4, <3>5, <3>6 DEF PushOK
  <2> QED BY <2>2, <2>3
<1>3. CASE PushTimesOut(r) \/ PushLost(r)
  <2>1. Answer(r, "error") /\ UNCHANGED <<live, saved, delivered, clash, crossed>>
    BY <1>3 DEF PushTimesOut, PushLost
  <2> QED BY <2>1, AnswerMoves, PushKept
<1> QED BY <1>1, <1>2, <1>3

LEMMA PushOther ==
    ASSUME StoreTypeOK, JobOK, JobOK', PushOK,
           (\E p \in Procs : WriteFails(p)) \/ (\E h \in Hosts : Crash(h)) \/ PutBack
    PROVE  PushOK'
<1> USE HostFacts DEF StoreTypeOK, ghosts
<1>1. ASSUME NEW p \in Procs, WriteFails(p) PROVE PushOK'
  <2>1. /\ Answer(p, "error") /\ UNCHANGED <<live, saved, delivered, clash, crossed>>
        /\ pc[p] # "read"
    BY <1>1 DEF WriteFails
  <2> QED BY <2>1, AnswerMoves, PushKept
<1>2. ASSUME NEW h \in Hosts, Crash(h) PROVE PushOK'
  <2>1. /\ UNCHANGED <<live, saved, delivered, clash, crossed>>
        /\ \A q \in Procs :
              \/ pc'[q] = pc[q] /\ job'[q] = job[q] /\ bytes'[q] = bytes[q] /\ reply'[q] = reply[q]
              \/ pc'[q] = "idle" /\ job'[q] = "none" /\ (q \in Handlers => reply'[q] = "error")
    BY <1>2 DEF Crash
  <2>2. Pushing' \subseteq Pushing
    BY <2>1 DEF Pushing
  <2>3. CarryOK'
    BY <2>1 DEF PushOK, CarryOK
  <2> QED BY <2>1, <2>2, <2>3 DEF PushOK
<1>3. CASE PutBack
  <2>1. live'[Follower] = live[Follower] /\ ~delivered'
        /\ UNCHANGED <<pc, job, bytes, reply, clash, crossed>>
    BY <1>3 DEF PutBack
  <2>2. Pushing' = Pushing
    BY <2>1 DEF Pushing
  <2> QED BY <2>1, <2>2 DEF PushOK, CarryOK
<1> QED BY <1>1, <1>2, <1>3

-----------------------------------------------------------------------------
(* The invariant. *)

LEMMA StoreInit == Init => StoreInv
<1> SUFFICES ASSUME Init PROVE StoreInv
  OBVIOUS
<1>1. StoreTypeOK
  BY TypeInit
<1>2. PICK b \in Bodies : live = [h \in Hosts |-> Current(b)]
  BY DEF Init
<1>3. JobOK /\ LockOK /\ FollowerNew
  BY <1>2, HostFacts, FormFacts
     DEF Init, JobOK, LockOK, FollowerNew, SaveRuns, MigrationRuns, Replacing, Saving
<1>4. OldOK
  <2>1. PICK c \in {Absent} \cup OldForms : bak = [h \in Hosts |-> IF h = Leader THEN c ELSE Absent]
    BY DEF Init
  <2>2. PICK d \in Bodies : c \in OldForms => c = Old(d)
    BY <1>2, FormFacts
  <2> QED BY <1>2, <2>1, <2>2, HostFacts, FormFacts DEF Init, OldOK, Replacing
<1>5. WholeOK
  BY <1>2, HostFacts, FormFacts DEF Init, WholeOK, TmpOK, MigrationRuns
<1>6. PushOK
  BY HostFacts DEF Init, PushOK, CarryOK, Pushing
<1> QED BY <1>1, <1>3, <1>4, <1>5, <1>6 DEF StoreInv

LEMMA StoreNext == StoreInv /\ [Next]_vars => StoreInv'
<1> SUFFICES ASSUME StoreInv, [Next]_vars PROVE StoreInv'
  OBVIOUS
<1> USE DEF StoreInv
<1>1. StoreTypeOK' /\ FollowerNew'
  BY TypeNext, FollowerNext
<1>2. ASSUME NEW p \in Procs, Step(p) PROVE JobOK' /\ LockOK' /\ OldOK' /\ WholeOK' /\ PushOK'
  <2>1. CASE Lock(p) \/ Open(p) \/ Write(p) \/ RenameTmp(p)
    BY <2>1, JobSave, LockSave, OldSave, WholeSave, PushSave
  <2>2. CASE Read(p) \/ MigrateLock(p) \/ Recheck(p) \/ Backup(p)
    BY <2>2, JobLoad, LockLoad, OldLoad, WholeLoad, PushLoad
  <2>3. CASE p \in Requests /\ (Send(p) \/ Answered(p))
    BY <2>3, JobPush, LockPush, OldPush, WholePush, PushPush
  <2> QED BY <1>2, <2>1, <2>2, <2>3 DEF Step
<1>3. ASSUME NEW r \in Requests, Post(r) \/ Look(r) \/ Push(r)
      PROVE  JobOK' /\ LockOK' /\ OldOK' /\ WholeOK' /\ PushOK'
  <2>1. JobOK'
    BY <1>3, JobArrive
  <2> QED BY <1>3, <2>1, LockArrive, OldArrive, WholeArrive, PushArrive
<1>4. CASE Fault \/ PutBack
  <2>1. CASE \E r \in Requests : PushTimesOut(r) \/ PushLost(r)
    BY <1>1, <2>1, JobPush, LockPush, OldPush, WholePush, PushPush
  <2>2. CASE (\E p \in Procs : WriteFails(p)) \/ (\E h \in Hosts : Crash(h)) \/ PutBack
    BY <1>1, <2>2, JobOther, LockOther, OldOther, WholeOther, PushOther
  <2> QED BY <1>4, <2>1, <2>2 DEF Fault
<1>5. CASE UNCHANGED vars
  <2> USE <1>5 DEF vars
  <2>1. JobOK' /\ LockOK'
    BY DEF JobOK, LockOK, SaveRuns, MigrationRuns, Replacing, Saving
  <2>2. OldOK' /\ WholeOK'
    BY DEF OldOK, WholeOK, TmpOK, MigrationRuns, Replacing, Saving
  <2>3. PushOK'
    BY DEF PushOK, CarryOK, Pushing
  <2> QED BY <1>1, <2>1, <2>2, <2>3
<1> QED BY <1>1, <1>2, <1>3, <1>4, <1>5 DEF Next, Arrive

\* Every reachable state satisfies what the promises rest on: types, locks, the
\* origin of old rules, the temporaries, and what pushes carry.
THEOREM StoreInvariant == Spec => []StoreInv
  BY StoreInit, StoreNext, PTL DEF Spec

\* No failed write, crash, timeout or migration leaves rules.json cut off,
\* unless a save and a migration have met (rules.writeAtomic).
THEOREM RulesStayWhole == Spec => []RulesWhole
<1>1. StoreInv => RulesWhole
  BY DEF StoreInv, WholeOK, RulesWhole
<1> QED BY <1>1, StoreInvariant, PTL

\* rules.json holds what was saved last (rules.Save, rules.Load): a migration
\* that waited for its lock brings no older rules back.
THEOREM SavedStays == Spec => []SavedIsServed
<1>1. StoreInv => SavedIsServed
  BY DEF StoreInv, WholeOK, SavedIsServed
<1> QED BY <1>1, StoreInvariant, PTL

\* A push that succeeded leaves the follower with the leader's rules
\* (Server.peersPush, Server.peersReceive), pushes made one after the other.
THEOREM FollowerHasRules == Spec => []FollowerFollows
<1>1. StoreInv => FollowerFollows
  BY HostFacts DEF StoreInv, WholeOK, PushOK, FollowerFollows, SamePeers
<1> QED BY <1>1, StoreInvariant, PTL

\* A migration replaces old rules only when the backup holds them (rules.Load).
THEOREM BackupComesFirst == Spec => BackupFirst
<1>1. ASSUME StoreInv, NEW p \in Procs, MigrationRuns(p), At(p, "rename"),
             live[HostOf(p)] \in OldForms
      PROVE  bak[HostOf(p)] = live[HostOf(p)]
  <2>1. PICK b \in Bodies :
          /\ \A h \in Hosts : {bak[h], live[h]} \cap OldForms \subseteq {Old(b)}
          /\ \A q \in Procs : bytes[q] \in OldForms => bytes[q] = Old(b)
    <3>1. OldOK
      BY <1>1 DEF StoreInv
    <3> QED BY <3>1 DEF OldOK
  <2>2. live[HostOf(p)] = Old(b)
    BY <1>1, <2>1, HostFacts
  <2>3. bytes[p] \in OldForms /\ bak[HostOf(p)] = bytes[p]
    BY <1>1, FormFacts DEF StoreInv, OldOK, JobOK, Replacing, MigrationRuns, Saving, At
  <2> QED BY <2>1, <2>2, <2>3
<1>2. StoreInv => (\A p \in Procs : LET h == HostOf(p) IN
          (MigrationRuns(p) /\ At(p, "rename") /\ live'[h] # live[h] /\ live[h] \in OldForms)
              => bak[h] = live[h])
  BY <1>1
<1> QED BY <1>2, StoreInvariant, PTL DEF BackupFirst
=============================================================================
