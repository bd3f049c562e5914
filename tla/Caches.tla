------------------------------- MODULE Caches -------------------------------
(***************************************************************************)
(* The files that requests share besides rules.json: the list of a country *)
(* and its ipset-restore form (geo.Manager), and the audit history.        *)
(*                                                                         *)
(* geo.Manager.Ensure holds no lock: prefetchForCompile calls it before    *)
(* Server.mu is taken.  The reverse index is guarded by indexMu, the       *)
(* history by auditMu.  One country is modelled: the files of two do not   *)
(* meet.  A list is [list |-> n], n its edition; edition 0 is a 200 answer *)
(* without a single valid CIDR.                                            *)
(***************************************************************************)
EXTENDS Files, Sequences

CONSTANTS
    Procs,         \* requests that can run at the same time
    Nobody,
    MaxHistory,    \* maxHistoryPerFinding
    Faults,        \* subset of FaultKinds
    MaxEdition,    \* bound: editions the source publishes
    MaxBegun       \* bound: requests

FaultKinds == {"no_network", "junk", "write_fails", "crash"}

Paths == {"zone", "ipset", "history"}
List(n) == [list |-> n]
Junk == List(0)
Usable == {List(n) : n \in 1..MaxEdition}
Statuses == {"open", "fixed"}
Rows == Seq(Statuses)

ASSUME CachesAssumption ==
    /\ Nobody \notin Procs
    /\ Absent # Empty /\ Absent # Torn /\ Empty # Torn
    /\ \A c \in {Absent, Empty, Torn} : c \notin Usable \cup {Junk} /\ c \notin Rows /\ c \notin Nat
    /\ Faults \subseteq FaultKinds
    /\ {MaxHistory, MaxEdition} \subseteq Nat \ {0} /\ MaxBegun \in Nat

VARIABLES
    fresh,         \* the list is younger than maxAge
    mtime,         \* of the list, counted
    edition,       \* what the source publishes
    index, indexFP, indexMu, auditMu,
    pc, job, path, \* step, request and file of each process
    got,           \* what it has read or is to write
    reply,         \* the error it ended with, if any
    overlap,       \* ghost: two processes have written a file at once
    cached,        \* ghost: a usable list was there when Ensure began
    seen,          \* ghost: lists there were during a lookup
    begun

memory == <<index, indexFP, indexMu, auditMu>>
world == <<fresh, mtime, edition>>
vars == <<live, tmp, fd, fresh, mtime, edition, index, indexFP, indexMu, auditMu,
          pc, job, path, got, reply, overlap, cached, seen, begun>>

Init ==
    /\ \E c \in {Absent, List(1)} : live = [f \in Paths |-> IF f = "history" THEN Absent ELSE c]
    /\ tmp = [f \in Paths |-> Absent] /\ fd = [p \in Procs |-> Closed]
    /\ fresh = TRUE /\ mtime = 0 /\ edition = 1
    /\ index = Absent /\ indexFP = Absent
    /\ indexMu = Nobody /\ auditMu = Nobody
    /\ pc = [p \in Procs |-> "idle"] /\ job = [p \in Procs |-> "none"]
    /\ path = [p \in Procs |-> "zone"] /\ got = [p \in Procs |-> Absent]
    /\ reply = [p \in Procs |-> "none"]
    /\ overlap = [f \in Paths |-> FALSE] /\ cached = [p \in Procs |-> FALSE]
    /\ seen = [p \in Procs |-> {}] /\ begun = 0

----------------------------------------------------------------------------
(* Steps of a process. *)

At(p, step) == pc[p] = step
Goto(p, step) == pc' = [pc EXCEPT ![p] = step]
Get(p, c) == got' = [got EXCEPT ![p] = c]

Begin(p, kind, step, file) ==
    /\ At(p, "idle") /\ begun < MaxBegun /\ begun' = begun + 1
    /\ Goto(p, step)
    /\ job' = [job EXCEPT ![p] = kind]
    /\ path' = [path EXCEPT ![p] = file]
    /\ reply' = [reply EXCEPT ![p] = "none"]
    /\ cached' = [cached EXCEPT ![p] = kind = "ensure" /\ live["zone"] \in Usable]
    /\ UNCHANGED <<disk, world, memory, got, overlap>>

Ensure(p) == Begin(p, "ensure", "stat", "zone")
Lookup(p) == Begin(p, "lookup", "check", "zone")
Audit(p) == Begin(p, "audit", "posture", "history")

\* The request ends; auditMu is given back (defer).
End(p, answer) ==
    /\ Goto(p, "idle")
    /\ job' = [job EXCEPT ![p] = "none"]
    /\ reply' = [reply EXCEPT ![p] = answer]
    /\ Get(p, Absent)
    /\ auditMu' = IF auditMu = p THEN Nobody ELSE auditMu
    /\ path' = [path EXCEPT ![p] = "zone"]
    /\ UNCHANGED <<index, indexFP, indexMu>>

\* On to the next step with c in hand.
On(p, step, file, c) ==
    /\ Goto(p, step)
    /\ path' = [path EXCEPT ![p] = file]
    /\ Get(p, c)
    /\ UNCHANGED <<job, reply, memory>>

Stat(p) ==
    /\ At(p, "stat")
    /\ On(p, IF live["zone"] # Absent /\ fresh THEN "render" ELSE "fetch", "zone", Absent)
    /\ UNCHANGED <<disk, world, overlap>>

Fetch(p) ==
    /\ At(p, "fetch")
    /\ \/ On(p, "open", "zone", List(edition))
       \/ "junk" \in Faults /\ On(p, "open", "zone", Junk)
       \/ "no_network" \in Faults /\ On(p, "fallback", "zone", Absent)
    /\ UNCHANGED <<disk, world, overlap>>

Writers(f) == {p \in Procs : path[p] = f /\ pc[p] \in {"write", "rename"}}

Open(p) ==
    /\ At(p, "open")
    /\ OpenTmp(p, path[p])
    /\ overlap' = [overlap EXCEPT ![path[p]] = @ \/ Writers(path[p]) # {}]
    /\ On(p, "write", path[p], got[p])
    /\ UNCHANGED world

\* A list that is written has a new mtime.
Touch(written) ==
    /\ fresh' = (fresh \/ written)
    /\ mtime' = IF written THEN mtime + 1 ELSE mtime

Write(p) ==
    /\ At(p, "write")
    /\ WriteTmp(p, path[p], got[p])
    /\ On(p, "rename", path[p], got[p])
    /\ Touch(fd[p] = <<"live", "zone">>) /\ UNCHANGED <<edition, overlap>>

\* What follows when a file could not be replaced.
GiveUp(p) ==
    IF path[p] = "zone" THEN On(p, "fallback", "zone", Absent) ELSE End(p, "disk")

RenameTmp(p) ==
    /\ At(p, "rename")
    /\ \/ /\ Rename(path[p])
          /\ IF path[p] = "zone" THEN On(p, "render", "zone", Absent) ELSE End(p, "none")
          /\ Touch(path[p] = "zone")
       \/ RenameFails(path[p]) /\ GiveUp(p) /\ UNCHANGED <<disk, fresh, mtime>>
    /\ UNCHANGED <<edition, overlap>>

WriteFails(p) ==
    /\ "write_fails" \in Faults
    /\ pc[p] \in {"open", "write"}
    /\ CloseAll({p}) /\ GiveUp(p)
    /\ UNCHANGED <<live, tmp, world, overlap>>

\* Mutant: a download that fails fails Ensure.
FallbackNever(p) ==
    /\ At(p, "fallback") /\ End(p, "no_cache")
    /\ UNCHANGED <<disk, world, overlap>>

\* A download that failed is tolerated when there is a cache.
Fallback(p) ==
    /\ At(p, "fallback")
    /\ IF live["zone"] = Absent THEN End(p, "no_cache") ELSE On(p, "render", "zone", Absent)
    /\ UNCHANGED <<disk, world, overlap>>

\* Mutant: a list without a CIDR is rendered all the same.
RenderAnything(p) ==
    /\ At(p, "render") /\ On(p, "open", "ipset", live["zone"])
    /\ UNCHANGED <<disk, world, overlap>>

Render(p) ==
    /\ At(p, "render")
    /\ IF live["zone"] \in Usable \cup {Torn}
       THEN On(p, "open", "ipset", live["zone"])
       ELSE End(p, "no_cidr")
    /\ UNCHANGED <<disk, world, overlap>>

----------------------------------------------------------------------------
(* ensureIndex and Lookup. *)

\* zoneFingerprint; empty without a list, as it is at the start.
Fingerprint == IF live["zone"] = Absent THEN Absent ELSE mtime

EntriesOf(c) == IF c \in {Empty, Junk} THEN Absent ELSE c

\* The fingerprint is taken and compared under the read lock.
Check(p) ==
    /\ At(p, "check") /\ indexMu = Nobody
    /\ On(p, IF Fingerprint = indexFP THEN "answer" ELSE "lock", "zone", Fingerprint)
    /\ UNCHANGED <<disk, world, overlap>>

BuildIndex(p) ==
    /\ At(p, "lock") /\ indexMu = Nobody
    /\ IF got[p] = indexFP
       THEN Goto(p, "answer") /\ UNCHANGED <<index, indexMu>>
       ELSE Goto(p, "build") /\ indexMu' = p /\ index' = EntriesOf(live["zone"])
    /\ UNCHANGED <<disk, world, overlap, job, path, got, reply, indexFP, auditMu>>

\* Mutant: the fingerprint is taken again after the files were read.
StoreLatestFP(p) ==
    /\ At(p, "build")
    /\ indexFP' = Fingerprint /\ indexMu' = Nobody
    /\ Goto(p, "answer")
    /\ UNCHANGED <<disk, world, overlap, job, path, got, reply, index, auditMu>>

StoreFP(p) ==
    /\ At(p, "build")
    /\ indexFP' = got[p] /\ indexMu' = Nobody
    /\ Goto(p, "answer")
    /\ UNCHANGED <<disk, world, overlap, job, path, got, reply, index, auditMu>>

AnswerLookup(p) ==
    /\ At(p, "answer") /\ indexMu = Nobody
    /\ End(p, "none")
    /\ UNCHANGED <<disk, world, overlap>>

----------------------------------------------------------------------------
(* GET /api/audit. *)

\* The posture of the one finding followed, fw.Status then: it is read before
\* auditMu is asked for.
Posture(p) ==
    /\ At(p, "posture")
    /\ \E s \in Statuses : On(p, "load", "history", s)
    /\ UNCHANGED <<disk, world, overlap>>

\* History.Update: a row for a status that differs from the newest; the
\* oldest rows go when there are too many.
Newest(h) == h[Len(h)]

Recorded(h, s) ==
    LET all == Append(h, s)
    IN  IF Len(all) > MaxHistory THEN Tail(all) ELSE all

\* Mutant: a row for every request, as before the status was compared.
LoadAlways(p) ==
    /\ At(p, "load") /\ auditMu = Nobody
    /\ LET h == IF live["history"] = Absent THEN <<>> ELSE live["history"]
       IN  /\ Goto(p, "open") /\ auditMu' = p
           /\ Get(p, Recorded(h, got[p]))
           /\ UNCHANGED <<path, job, reply, index, indexFP, indexMu>>
    /\ UNCHANGED <<disk, world, overlap>>

Load(p) ==
    /\ At(p, "load") /\ auditMu = Nobody
    /\ LET h == IF live["history"] = Absent THEN <<>> ELSE live["history"]
       IN  IF h # <<>> /\ Newest(h) = got[p]
           THEN End(p, "none")
           ELSE /\ Goto(p, "open") /\ auditMu' = p
                /\ Get(p, Recorded(h, got[p]))
                /\ UNCHANGED <<path, job, reply, index, indexFP, indexMu>>
    /\ UNCHANGED <<disk, world, overlap>>

----------------------------------------------------------------------------
(* The world. *)

\* The daemon dies and starts again: memory is lost, files stay.
Crash ==
    /\ "crash" \in Faults
    /\ \E p \in Procs : ~At(p, "idle")
    /\ CloseAll(Procs)
    /\ index' = Absent /\ indexFP' = Absent /\ indexMu' = Nobody /\ auditMu' = Nobody
    /\ pc' = [p \in Procs |-> "idle"] /\ job' = [p \in Procs |-> "none"]
    /\ got' = [p \in Procs |-> Absent] /\ reply' = [p \in Procs |-> "none"]
    /\ path' = [p \in Procs |-> "zone"] /\ UNCHANGED <<live, tmp, world, overlap>>

Outside == UNCHANGED <<disk, memory, pc, job, path, got, reply, overlap>>
Age == fresh /\ fresh' = FALSE /\ UNCHANGED <<mtime, edition>> /\ Outside
Publish == edition < MaxEdition /\ edition' = edition + 1 /\ UNCHANGED <<fresh, mtime>> /\ Outside

Watch ==
    seen' = [p \in Procs |->
                IF job'[p] # "lookup" THEN {}
                ELSE {live["zone"], live'["zone"]} \cup seen[p]]

Step(p) ==
    /\ \/ Stat(p) \/ Fetch(p) \/ Open(p) \/ Write(p) \/ RenameTmp(p) \/ Fallback(p) \/ Render(p)
       \/ Check(p) \/ BuildIndex(p) \/ StoreFP(p) \/ AnswerLookup(p)
       \/ Posture(p) \/ Load(p)
    /\ UNCHANGED <<cached, begun>> /\ Watch

Arrive == \E p \in Procs : (Ensure(p) \/ Lookup(p) \/ Audit(p)) /\ Watch

Trouble ==
    /\ (\E p \in Procs : WriteFails(p)) \/ Crash \/ Age \/ Publish
    /\ UNCHANGED <<cached, begun>> /\ Watch

Next == Arrive \/ (\E p \in Procs : Step(p)) \/ Trouble

Spec == Init /\ [][Next]_vars

----------------------------------------------------------------------------
(* What the caches promise. *)

\* As long as no two Ensures have written a file at the same time, neither a
\* failed write, a crash nor a worthless download leaves a list or an ipset
\* that is cut off or empty; the history never is, auditMu sees to that.
FilesWhole ==
    /\ live["history"] \notin {Empty, Torn}
    /\ ~overlap["zone"] => live["zone"] \notin {Empty, Torn}
    /\ ~(overlap["zone"] \/ overlap["ipset"]) => live["ipset"] \in Usable \cup {Absent}

\* Ensure fails for want of a list only when there was none to begin with, or
\* a worthless download replaced it (geo.go:96-97: "A network error is
\* tolerated when a cache already exists").
CacheOutlivesNetwork ==
    [][\A p \in Procs :
          (reply[p] = "none" /\ reply'[p] \in {"no_cache", "no_cidr"})
              => ~cached[p] \/ overlap["zone"] \/ live["zone"] = Junk]_vars

\* A lookup answers from a list that was there while it ran: an index built
\* before the list changed is not taken for current (geo.go:209-233).
LookupIsCurrent ==
    \A p \in Procs :
        (At(p, "answer") /\ indexMu = Nobody) => index \in {EntriesOf(c) : c \in seen[p]}

\* The history only gains rows, one at a time, each different from the one
\* before: no request writes over the row of another (handlers.go:712-733).
HistoryGrows ==
    [][live'["history"] # live["history"] =>
          LET h == IF live["history"] = Absent THEN <<>> ELSE live["history"]
          IN  \E s \in Statuses :
                  (h = <<>> \/ Newest(h) # s) /\ live'["history"] = Recorded(h, s)]_vars

----------------------------------------------------------------------------
(* Why these hold. *)

Steps == {"idle", "stat", "fetch", "fallback", "render", "open", "write", "rename",
          "check", "lock", "build", "answer", "posture", "load"}
Lists == Usable \cup {Junk}
Contents(f) == {Absent, Empty, Torn} \cup (IF f = "history" THEN Rows ELSE Lists)
Prints == Nat \cup {Absent}

\* Every variable has its type: the files, the requests and the index.
FileTypes ==
    /\ live = [f \in Paths |-> live[f]] /\ tmp = [f \in Paths |-> tmp[f]]
    /\ \A f \in Paths : live[f] \in Contents(f) /\ tmp[f] \in Contents(f)
    /\ fd \in [Procs -> {Closed} \cup ({"tmp", "live", "gone"} \X Paths)]
    /\ fresh \in BOOLEAN /\ mtime \in Nat /\ edition \in 1..MaxEdition
    /\ overlap \in [Paths -> BOOLEAN]
RequestTypes ==
    /\ pc \in [Procs -> Steps] /\ job \in [Procs -> {"none", "ensure", "lookup", "audit"}]
    /\ path \in [Procs -> Paths] /\ got = [p \in Procs |-> got[p]]
    /\ reply \in [Procs -> {"none", "disk", "no_cache", "no_cidr"}]
    /\ auditMu \in Procs \cup {Nobody}
CachesTypeOK ==
    /\ FileTypes /\ RequestTypes
    /\ index \in {Absent, Torn} \cup Lists /\ indexFP \in Prints
    /\ indexMu \in Procs \cup {Nobody}
    /\ cached \in [Procs -> BOOLEAN] /\ begun \in 0..MaxBegun
    /\ seen \in [Procs -> SUBSET Contents("zone")]

\* What a request does at a step fits its kind, its file and what it holds.
Replacing(p) == pc[p] \in {"open", "write", "rename"}
Writing(p) == pc[p] \in {"write", "rename"}
Holds(f) == CASE f = "zone"    -> Lists
              [] f = "ipset"   -> Usable \cup {Torn}
              [] f = "history" -> Rows
Fits(p) ==
    /\ pc[p] \in {"stat", "fetch", "fallback", "render"} => path[p] = "zone"
    /\ pc[p] \in {"check", "lock", "build", "answer"} => job[p] = "lookup"
    /\ pc[p] \in {"lock", "build"} => got[p] \in Prints
    /\ pc[p] \in {"posture", "load"} => path[p] = "history"
    /\ pc[p] = "load" => got[p] \in Statuses
    /\ Replacing(p) => got[p] \in Holds(path[p])
StepOK == \A p \in Procs : Fits(p)

\* Without an overlap a temporary has one writer and holds what it has written.
TmpOK ==
    \A p \in Procs : ~overlap[path[p]] =>
        /\ pc[p] = "write" => fd[p] = <<"tmp", path[p]>> /\ tmp[path[p]] = Empty
        /\ pc[p] = "rename" => tmp[path[p]] = got[p]
        /\ Writing(p) => \A q \in Procs \ {p} : path[q] = path[p] => ~Writing(q)
FilesOK ==
    /\ TmpOK
    /\ ~overlap["zone"] =>
          /\ live["zone"] \in Lists \cup {Absent}
          /\ \A p \in Procs : Replacing(p) /\ path[p] = "ipset" => got[p] \in Usable
    /\ ~(overlap["zone"] \/ overlap["ipset"]) => live["ipset"] \in Usable \cup {Absent}

\* The history is replaced under auditMu, by what it holds and one new row.
History == IF live["history"] = Absent THEN <<>> ELSE live["history"]
NewRow(h) == \E s \in Statuses : (History = <<>> \/ Newest(History) # s) /\ h = Recorded(History, s)
AuditOK ==
    /\ ~overlap["history"] /\ live["history"] \in Rows \cup {Absent}
    /\ \A p \in Procs : Replacing(p) /\ path[p] = "history" => auditMu = p /\ NewRow(got[p])

\* A list that is there stays there, be it another one.
CachedOK == \A p \in Procs : cached[p] => live["zone"] # Absent

\* The index is built under indexMu from a list that everyone past its check
\* has seen; it goes by a fingerprint no younger than that list.
Current == index = EntriesOf(live["zone"])
Built(p) == \E c \in seen[p] : index = EntriesOf(c)
Reading(p) ==
    /\ pc[p] = "build" => indexMu = p /\ (got[p] = Fingerprint => Current)
    /\ pc[p] \in {"lock", "build"} /\ got[p] \in Nat => got[p] <= mtime
    /\ pc[p] \in {"lock", "build", "answer"} /\ indexMu # Nobody => Built(p)
    /\ pc[p] = "lock" /\ indexMu = Nobody /\ got[p] = indexFP => Built(p)
    /\ pc[p] = "answer" /\ indexMu = Nobody => Built(p)
    /\ job[p] = "lookup" => live["zone"] \in seen[p]
IndexOK ==
    /\ indexMu # Nobody => pc[indexMu] = "build"
    /\ indexFP \in Nat => indexFP <= mtime
    /\ indexMu = Nobody /\ indexFP = Fingerprint => Current
    /\ \A p \in Procs : Reading(p)

CachesInv == CachesTypeOK /\ StepOK /\ FilesOK /\ AuditOK /\ CachedOK /\ IndexOK
=============================================================================
