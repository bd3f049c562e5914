---------------------------- MODULE CachesProofs ----------------------------
(* What Caches promises holds for any number of requests, of editions and  *)
(* of rows of the history.                                                 *)
EXTENDS Caches, TLAPS

LEMMA ContentFacts ==
    /\ Absent # Empty /\ Absent # Torn /\ Empty # Torn
    /\ \A c \in {Absent, Empty, Torn} : c \notin Lists /\ c \notin Usable /\ c \notin Rows /\ c \notin Nat
    /\ Junk \in Lists /\ Usable \subseteq Lists
    /\ \A c \in Lists : c \in Usable \/ c = Junk
    /\ \A n \in 1..MaxEdition : List(n) \in Usable
    /\ Contents("zone") = {Absent, Empty, Torn} \cup Lists
    /\ Contents("ipset") = {Absent, Empty, Torn} \cup Lists
    /\ Contents("history") = {Absent, Empty, Torn} \cup Rows
    /\ Holds("zone") = Lists /\ Holds("ipset") = Usable \cup {Torn} /\ Holds("history") = Rows
    /\ Nobody \notin Procs
  BY CachesAssumption DEF Lists, Usable, Contents, Holds

LEMMA PathFacts ==
    /\ "zone" \in Paths /\ "ipset" \in Paths /\ "history" \in Paths
    /\ \A f \in Paths : f = "zone" \/ f = "ipset" \/ f = "history"
    /\ \A f \in Paths : Holds(f) \subseteq Contents(f) /\ Absent \notin Holds(f) /\ Empty \notin Holds(f)
    /\ \A f \in Paths : Absent \in Contents(f) /\ Empty \in Contents(f) /\ Torn \in Contents(f)
<1>1. \A f \in Paths : f = "zone" \/ f = "ipset" \/ f = "history"
  BY DEF Paths
<1>2. \A f \in Paths : Holds(f) \subseteq Contents(f) /\ Absent \notin Holds(f) /\ Empty \notin Holds(f)
  BY <1>1, ContentFacts
<1> QED BY <1>1, <1>2, ContentFacts DEF Paths

LEMMA FdFacts ==
    /\ \A f \in Paths, w \in {"tmp", "live", "gone"} :
          <<w, f>> \in {"tmp", "live", "gone"} \X Paths /\ <<w, f>> # Closed
    /\ \A f, g \in Paths, w, v \in {"tmp", "live", "gone"} : <<w, f>> = <<v, g>> => w = v /\ f = g
  BY DEF Closed

\* Two renames of a file apart, what was open is gone.
LEMMA RenamedFacts ==
    ASSUME NEW f \in Paths, NEW d \in {Closed} \cup ({"tmp", "live", "gone"} \X Paths)
    PROVE  /\ Renamed(f, d) \in {Closed} \cup ({"tmp", "live", "gone"} \X Paths)
           /\ \A g \in Paths \ {f} : d = <<"tmp", g>> => Renamed(f, d) = d
  BY FdFacts DEF Renamed

LEMMA OverFacts ==
    ASSUME NEW old, NEW new
    PROVE  /\ \A c \in Over(old, new) : c = new \/ c = Torn
           /\ old = Empty => Over(old, new) = {new}
  BY DEF Over

LEMMA ExceptFacts ==
    ASSUME NEW S, NEW g, NEW x \in S, NEW c, g = [y \in S |-> g[y]]
    PROVE  /\ [g EXCEPT ![x] = c] = [y \in S |-> [g EXCEPT ![x] = c][y]]
           /\ [g EXCEPT ![x] = c][x] = c
           /\ \A y \in S \ {x} : [g EXCEPT ![x] = c][y] = g[y]
<1>1. DOMAIN g = S
  <2>1. DOMAIN [y \in S |-> g[y]] = S
    OBVIOUS
  <2> QED BY <2>1
<1>2. [g EXCEPT ![x] = c] = [y \in S |-> IF y = x THEN c ELSE g[y]]
  BY <1>1
<1> QED BY <1>2

LEMMA RecordedFacts ==
    ASSUME NEW h \in Rows, NEW s \in Statuses
    PROVE  Recorded(h, s) \in Rows
<1> DEFINE all == Append(h, s)
<1>1. all \in Seq(Statuses) /\ Len(all) = Len(h) + 1 /\ Len(h) \in Nat
  BY DEF Rows
<1>2. all # <<>>
  <2>1. Len(<<>>) = 0
    OBVIOUS
  <2> QED BY <1>1, <2>1
<1>3. Tail(all) \in Seq(Statuses)
  BY <1>1, <1>2
<1> QED BY <1>1, <1>3 DEF Recorded, Rows

-----------------------------------------------------------------------------
(* What the parts of an action do. *)

\* The other requests are where they were; what they hold they keep.
Others(p) ==
    \A q \in Procs \ {p} :
        /\ pc'[q] = pc[q] /\ job'[q] = job[q] /\ path'[q] = path[q]
        /\ got'[q] = got[q] /\ reply'[q] = reply[q]
        /\ auditMu = q => auditMu' = q

LEMMA EndMoves ==
    ASSUME CachesTypeOK, NEW p \in Procs, NEW answer, End(p, answer)
    PROVE  /\ pc'[p] = "idle" /\ job'[p] = "none" /\ path'[p] = "zone" /\ reply'[p] = answer
           /\ Others(p)
           /\ UNCHANGED <<index, indexFP, indexMu>>
           /\ answer \in {"none", "disk", "no_cache", "no_cidr"} => RequestTypes'
<1>1. got' = [q \in Procs |-> got'[q]] /\ \A q \in Procs \ {p} : got'[q] = got[q]
  BY ExceptFacts DEF CachesTypeOK, FileTypes, RequestTypes, End, Get
<1> QED BY <1>1 DEF CachesTypeOK, FileTypes, RequestTypes, End, Goto, Others, Steps, Paths

LEMMA OnMoves ==
    ASSUME CachesTypeOK, NEW p \in Procs, NEW step \in Steps, NEW file \in Paths, NEW c,
           On(p, step, file, c)
    PROVE  /\ pc'[p] = step /\ job'[p] = job[p] /\ path'[p] = file /\ got'[p] = c 
           /\ reply'[p] = reply[p]
           /\ Others(p)
           /\ UNCHANGED <<index, indexFP, indexMu, auditMu>>
           /\ RequestTypes'
<1>1. /\ got' = [q \in Procs |-> got'[q]] /\ \A q \in Procs \ {p} : got'[q] = got[q]
      /\ got'[p] = c
  BY ExceptFacts DEF CachesTypeOK, FileTypes, RequestTypes, On, Get
<1> QED BY <1>1 DEF CachesTypeOK, FileTypes, RequestTypes, On, Goto, Others, memory

LEMMA BeginMoves ==
    ASSUME CachesTypeOK, NEW p \in Procs, Ensure(p) \/ Lookup(p) \/ Audit(p)
    PROVE  /\ pc[p] = "idle" /\ Others(p) /\ reply'[p] = "none"
           /\ \/ pc'[p] = "stat" /\ job'[p] = "ensure" /\ path'[p] = "zone"
              \/ pc'[p] = "check" /\ job'[p] = "lookup" /\ path'[p] = "zone"
              \/ pc'[p] = "posture" /\ job'[p] = "audit" /\ path'[p] = "history"
           /\ UNCHANGED <<disk, world, memory, overlap>>
           /\ cached'[p] => live["zone"] \in Usable
           /\ \A q \in Procs \ {p} : cached'[q] = cached[q]
           /\ RequestTypes'
           /\ cached' \in [Procs -> BOOLEAN] /\ begun' \in 0..MaxBegun
<1>1. PICK kind \in {"ensure", "lookup", "audit"}, step \in {"stat", "check", "posture"}, file \in Paths : 
         /\ Begin(p, kind, step, file)
         /\ \/ kind = "ensure" /\ step = "stat" /\ file = "zone"
            \/ kind = "lookup" /\ step = "check" /\ file = "zone"
            \/ kind = "audit" /\ step = "posture" /\ file = "history"
  BY PathFacts DEF Ensure, Lookup, Audit
<1>2. pc[p] = "idle" /\ reply'[p] = "none" /\ UNCHANGED <<disk, world, memory, overlap, got>>
  BY <1>1 DEF Begin, At, CachesTypeOK, FileTypes, RequestTypes
<1>3. pc'[p] = step /\ job'[p] = kind /\ path'[p] = file
  BY <1>1 DEF Begin, Goto, CachesTypeOK, FileTypes, RequestTypes
<1>4. Others(p)
  BY <1>1 DEF Begin, Goto, CachesTypeOK, FileTypes, RequestTypes, Others, memory
<1>5. /\ cached' \in [Procs -> BOOLEAN]
      /\ cached'[p] => live["zone"] \in Usable
      /\ \A q \in Procs \ {p} : cached'[q] = cached[q]
  <2>1. cached' = [cached EXCEPT ![p] = (kind = "ensure" /\ live["zone"] \in Usable)]
    BY <1>1 DEF Begin
  <2>2. (kind = "ensure" /\ live["zone"] \in Usable) \in BOOLEAN
    OBVIOUS
  <2> QED BY <2>1, <2>2 DEF CachesTypeOK, FileTypes, RequestTypes
<1>6. begun' \in 0..MaxBegun
  BY <1>1, CachesAssumption DEF Begin, CachesTypeOK, FileTypes, RequestTypes
<1>7. RequestTypes'
  BY <1>1, <1>2 DEF Begin, Goto, CachesTypeOK, RequestTypes, Steps, memory
<1>8. \/ pc'[p] = "stat" /\ job'[p] = "ensure" /\ path'[p] = "zone"
      \/ pc'[p] = "check" /\ job'[p] = "lookup" /\ path'[p] = "zone"
      \/ pc'[p] = "posture" /\ job'[p] = "audit" /\ path'[p] = "history"
  BY <1>1, <1>3
<1> QED BY <1>2, <1>4, <1>5, <1>6, <1>7, <1>8

LEMMA WatchSees ==
    ASSUME CachesTypeOK, Watch
    PROVE  /\ \A p \in Procs : job'[p] = "lookup" =>
                 seen[p] \subseteq seen'[p] /\ live["zone"] \in seen'[p] /\ live'["zone"] \in seen'[p]
           /\ live'["zone"] \in Contents("zone") => seen' \in [Procs -> SUBSET Contents("zone")]
<1>1. \A p \in Procs : seen'[p] = IF job'[p] # "lookup" THEN {} ELSE {live["zone"], live'["zone"]} \cup seen[p]
  BY DEF Watch
<1>2. live["zone"] \in Contents("zone") /\ \A p \in Procs : seen[p] \subseteq Contents("zone")
  BY PathFacts DEF CachesTypeOK, FileTypes, RequestTypes
<1>3. seen' = [p \in Procs |-> seen'[p]]
  BY DEF Watch
<1>4. ASSUME live'["zone"] \in Contents("zone"), NEW p \in Procs PROVE seen'[p] \in SUBSET Contents("zone")
  BY <1>1, <1>2, <1>4
<1> QED BY <1>1, <1>3, <1>4
-----------------------------------------------------------------------------
(* Every variable keeps its type. *)

LEMMA TypeInit == Init => CachesTypeOK
<1> SUFFICES ASSUME Init PROVE CachesTypeOK
  OBVIOUS
<1>1. FileTypes
  <2>1. List(1) \in Usable
    BY CachesAssumption, ContentFacts
  <2>2. PICK c \in {Absent, List(1)} : live = [f \in Paths |-> IF f = "history" THEN Absent ELSE c]
    BY DEF Init
  <2>3. live = [f \in Paths |-> live[f]] /\ \A f \in Paths : live[f] \in Contents(f)
    BY <2>1, <2>2, ContentFacts, PathFacts
  <2>4. tmp = [f \in Paths |-> tmp[f]] /\ \A f \in Paths : tmp[f] \in Contents(f)
    BY PathFacts DEF Init
  <2>5. fresh \in BOOLEAN /\ mtime \in Nat /\ edition \in 1..MaxEdition
    BY CachesAssumption DEF Init
  <2> QED BY <2>3, <2>4, <2>5 DEF Init, FileTypes
<1>2. RequestTypes
  BY PathFacts DEF Init, RequestTypes, Steps
<1>3. begun \in 0..MaxBegun
  BY CachesAssumption DEF Init
<1> QED BY <1>1, <1>2, <1>3 DEF Init, CachesTypeOK, Prints

LEMMA HoldsContents ==
    ASSUME CachesTypeOK, NEW p \in Procs, Fits(p), Replacing(p)
    PROVE  /\ path[p] \in Paths /\ got[p] \in Holds(path[p]) /\ got[p] \in Contents(path[p])
           /\ got[p] # Absent /\ got[p] # Empty
  BY PathFacts DEF CachesTypeOK, RequestTypes, Fits

\* The files after a step of p.
LEMMA FileStep ==
    ASSUME CachesTypeOK, NEW p \in Procs, Fits(p),
           Open(p) \/ Write(p) \/ RenameTmp(p) \/ WriteFails(p)
    PROVE  FileTypes'
<1>1. CASE Open(p)
  <2> DEFINE f == path[p]
  <2>1. f \in Paths
    BY DEF CachesTypeOK, RequestTypes
  <2>2. tmp' = [g \in Paths |-> tmp'[g]] /\ \A g \in Paths : tmp'[g] \in Contents(g)
    BY <1>1, <2>1, ExceptFacts, PathFacts DEF Open, OpenTmp, CachesTypeOK, FileTypes
  <2>3. fd' \in [Procs -> {Closed} \cup ({"tmp", "live", "gone"} \X Paths)]
    BY <1>1, <2>1, FdFacts DEF Open, OpenTmp, CachesTypeOK, FileTypes
  <2>4. overlap' \in [Paths -> BOOLEAN]
    BY <1>1 DEF Open, CachesTypeOK, FileTypes
  <2>5. UNCHANGED <<live, fresh, mtime, edition>>
    BY <1>1 DEF Open, OpenTmp, world
  <2> QED BY <2>2, <2>3, <2>4, <2>5 DEF CachesTypeOK, FileTypes
<1>2. CASE Write(p)
  <2> DEFINE f == path[p]
  <2>1. f \in Paths /\ got[p] \in Contents(f)
    BY <1>2, HoldsContents DEF Write, At, Replacing
  <2>2. \A old : \A c \in Over(old, got[p]) : c \in Contents(f)
    BY <2>1, OverFacts, PathFacts
  <2>3. live' = [g \in Paths |-> live'[g]] /\ \A g \in Paths : live'[g] \in Contents(g)
    <3>1. CASE UNCHANGED live
      BY <3>1 DEF CachesTypeOK, FileTypes
    <3>2. CASE \E c \in Over(live[f], got[p]) : live' = [live EXCEPT ![f] = c]
      BY <3>2, <2>1, <2>2, ExceptFacts DEF CachesTypeOK, FileTypes
    <3> QED BY <1>2, <3>1, <3>2 DEF Write, WriteTmp
  <2>4. tmp' = [g \in Paths |-> tmp'[g]] /\ \A g \in Paths : tmp'[g] \in Contents(g)
    <3>1. CASE UNCHANGED tmp
      BY <3>1 DEF CachesTypeOK, FileTypes
    <3>2. CASE \E c \in Over(tmp[f], got[p]) : tmp' = [tmp EXCEPT ![f] = c]
      BY <3>2, <2>1, <2>2, ExceptFacts DEF CachesTypeOK, FileTypes
    <3> QED BY <1>2, <3>1, <3>2 DEF Write, WriteTmp
  <2>5. fd' \in [Procs -> {Closed} \cup ({"tmp", "live", "gone"} \X Paths)]
    BY <1>2 DEF Write, WriteTmp, CachesTypeOK, FileTypes
  <2>6. fresh' \in BOOLEAN /\ mtime' \in Nat /\ UNCHANGED <<edition, overlap>>
    BY <1>2 DEF Write, Touch, CachesTypeOK, FileTypes
  <2> QED BY <2>3, <2>4, <2>5, <2>6 DEF CachesTypeOK, FileTypes
<1>3. CASE RenameTmp(p)
  <2> DEFINE f == path[p]
  <2>1. f \in Paths
    BY DEF CachesTypeOK, RequestTypes
  <2>2. CASE Rename(f) /\ Touch(f = "zone") /\ UNCHANGED <<edition, overlap>>
    <3>1. live' = [g \in Paths |-> live'[g]] /\ \A g \in Paths : live'[g] \in Contents(g)
      BY <2>1, <2>2, ExceptFacts DEF Rename, CachesTypeOK, FileTypes
    <3>2. tmp' = [g \in Paths |-> tmp'[g]] /\ \A g \in Paths : tmp'[g] \in Contents(g)
      BY <2>1, <2>2, ExceptFacts, PathFacts DEF Rename, CachesTypeOK, FileTypes
    <3>3. fd' \in [Procs -> {Closed} \cup ({"tmp", "live", "gone"} \X Paths)]
      BY <2>1, <2>2, RenamedFacts DEF Rename, CachesTypeOK, FileTypes
    <3>4. fresh' \in BOOLEAN /\ mtime' \in Nat
      BY <2>2 DEF Touch, CachesTypeOK, FileTypes
    <3> QED BY <2>2, <3>1, <3>2, <3>3, <3>4 DEF CachesTypeOK, FileTypes
  <2>3. CASE UNCHANGED <<disk, fresh, mtime, edition, overlap>>
    BY <2>3 DEF disk, CachesTypeOK, FileTypes
  <2> QED BY <1>3, <2>2, <2>3 DEF RenameTmp
<1>4. CASE WriteFails(p)
  BY <1>4 DEF WriteFails, CloseAll, world, CachesTypeOK, FileTypes
<1> QED BY <1>1, <1>2, <1>3, <1>4

-----------------------------------------------------------------------------
(* The requests go from step to step. *)

LEMMA EndFits ==
    ASSUME NEW p \in Procs, pc'[p] = "idle"
    PROVE  Fits(p)'
  BY DEF Fits, Replacing

\* A request that fetches a list, or renders one.
LEMMA StepEnsure ==
    ASSUME CachesTypeOK, NEW p \in Procs, Fits(p), Stat(p) \/ Fetch(p) \/ Fallback(p) \/ Render(p)
    PROVE  RequestTypes' /\ Others(p) /\ Fits(p)' /\ UNCHANGED <<index, indexFP, indexMu>>
<1> USE DEF Steps
<1>1. CASE Stat(p)
  <2>1. PICK step \in {"render", "fetch"} : On(p, step, "zone", Absent)
    BY <1>1 DEF Stat
  <2> QED BY <2>1, OnMoves, PathFacts DEF Fits, Replacing
<1>2. CASE Fetch(p)
  <2>1. CASE On(p, "open", "zone", List(edition)) \/ On(p, "open", "zone", Junk)
    <3>1. List(edition) \in Holds("zone") /\ Junk \in Holds("zone")
      BY ContentFacts DEF CachesTypeOK, FileTypes
    <3> QED BY <2>1, <3>1, OnMoves, PathFacts DEF Fits, Replacing
  <2>2. CASE On(p, "fallback", "zone", Absent)
    BY <2>2, OnMoves, PathFacts DEF Fits, Replacing
  <2> QED BY <1>2, <2>1, <2>2 DEF Fetch
<1>3. CASE End(p, "no_cache") \/ End(p, "no_cidr")
  BY <1>3, EndMoves, EndFits
<1>4. CASE On(p, "render", "zone", Absent)
  BY <1>4, OnMoves, PathFacts DEF Fits, Replacing
<1>5. CASE live["zone"] \in Usable \cup {Torn} /\ On(p, "open", "ipset", live["zone"])
  <2>1. live["zone"] \in Holds("ipset")
    BY <1>5, ContentFacts
  <2> QED BY <1>5, <2>1, OnMoves, PathFacts DEF Fits, Replacing
<1> QED BY <1>1, <1>2, <1>3, <1>4, <1>5 DEF Fallback, Render

\* A request that replaces a file.
LEMMA StepReplace ==
    ASSUME CachesTypeOK, NEW p \in Procs, Fits(p),
           Open(p) \/ Write(p) \/ RenameTmp(p) \/ WriteFails(p)
    PROVE  RequestTypes' /\ Others(p) /\ Fits(p)' /\ UNCHANGED <<index, indexFP, indexMu>>
<1> USE DEF Steps
<1>0. path[p] \in Paths
  BY DEF CachesTypeOK, RequestTypes
<1>1. CASE Open(p)
  <2>1. On(p, "write", path[p], got[p]) /\ got[p] \in Holds(path[p])
    BY <1>1 DEF Open, At, Fits, Replacing
  <2> QED BY <1>0, <2>1, OnMoves DEF Fits, Replacing
<1>2. CASE Write(p)
  <2>1. On(p, "rename", path[p], got[p]) /\ got[p] \in Holds(path[p])
    BY <1>2 DEF Write, At, Fits, Replacing
  <2> QED BY <1>0, <2>1, OnMoves DEF Fits, Replacing
<1>3. CASE End(p, "disk") \/ End(p, "none")
  BY <1>3, EndMoves, EndFits
<1>4. CASE On(p, "fallback", "zone", Absent)
  BY <1>4, OnMoves, PathFacts DEF Fits, Replacing
<1>5. CASE On(p, "render", "zone", Absent)
  BY <1>5, OnMoves, PathFacts DEF Fits, Replacing
<1>6. GiveUp(p) => End(p, "disk") \/ On(p, "fallback", "zone", Absent)
  BY DEF GiveUp
<1>7. WriteFails(p) => GiveUp(p)
  BY DEF WriteFails
<1>8. RenameTmp(p) => GiveUp(p) \/ End(p, "none") \/ On(p, "render", "zone", Absent)
  BY DEF RenameTmp
<1> QED BY <1>1, <1>2, <1>3, <1>4, <1>5, <1>6, <1>7, <1>8

\* A lookup.
LEMMA StepLookup ==
    ASSUME CachesTypeOK, NEW p \in Procs, Fits(p),
           Check(p) \/ BuildIndex(p) \/ StoreFP(p) \/ AnswerLookup(p)
    PROVE  /\ RequestTypes' /\ Others(p) /\ Fits(p)'
           /\ index' \in {Absent, Torn} \cup Lists /\ indexFP' \in Prints
           /\ indexMu' \in Procs \cup {Nobody}
<1> USE DEF Steps
<1>1. CASE Check(p)
  <2>1. Fingerprint \in Prints
    BY DEF Fingerprint, Prints, CachesTypeOK, FileTypes
  <2>2. PICK step \in {"answer", "lock"} : On(p, step, "zone", Fingerprint)
    BY <1>1 DEF Check
  <2>3. job[p] = "lookup"
    BY <1>1 DEF Check, At, Fits
  <2> QED BY <2>1, <2>2, <2>3, OnMoves, PathFacts DEF Fits, Replacing, CachesTypeOK
<1>2. CASE BuildIndex(p) \/ StoreFP(p)
  <2>1. PICK step \in {"answer", "build"} : Goto(p, step)
    BY <1>2 DEF BuildIndex, StoreFP
  <2>2. job[p] = "lookup" /\ got[p] \in Prints /\ UNCHANGED <<job, path, got, reply, auditMu>>
    BY <1>2 DEF BuildIndex, StoreFP, At, Fits
  <2>3. RequestTypes' /\ Others(p) /\ pc'[p] = step
    BY <2>1, <2>2 DEF Goto, CachesTypeOK, RequestTypes, Others
  <2>4. EntriesOf(live["zone"]) \in {Absent, Torn} \cup Lists
    BY ContentFacts, PathFacts DEF EntriesOf, CachesTypeOK, FileTypes
  <2>5. index' \in {Absent, Torn} \cup Lists
    BY <1>2, <2>4 DEF BuildIndex, StoreFP, CachesTypeOK
  <2>6. indexFP' \in Prints /\ indexMu' \in Procs \cup {Nobody}
    BY <1>2, <2>2 DEF BuildIndex, StoreFP, CachesTypeOK
  <2>7. Fits(p)'
    BY <2>2, <2>3 DEF Fits, Replacing
  <2> QED BY <2>3, <2>5, <2>6, <2>7
<1>3. CASE AnswerLookup(p)
  BY <1>3, EndMoves, EndFits DEF AnswerLookup, CachesTypeOK
<1> QED BY <1>1, <1>2, <1>3

\* An audit.
LEMMA HistoryRows ==
    ASSUME AuditOK
    PROVE  History \in Rows
<1>1. <<>> \in Rows
  BY DEF Rows
<1> QED BY <1>1 DEF AuditOK, History

LEMMA LoadSteps ==
    ASSUME CachesTypeOK, NEW p \in Procs, Load(p)
    PROVE  \/ End(p, "none")
           \/ /\ pc'[p] = "open" /\ job'[p] = job[p] /\ path'[p] = path[p]
              /\ auditMu = Nobody /\ auditMu' = p
              /\ got'[p] = Recorded(History, got[p])
              /\ History = <<>> \/ Newest(History) # got[p]
              /\ RequestTypes' /\ Others(p) /\ UNCHANGED <<index, indexFP, indexMu>>
<1>1. CASE End(p, "none")
  BY <1>1
<1>2. CASE /\ ~(History # <<>> /\ Newest(History) = got[p])
           /\ Goto(p, "open") /\ auditMu' = p /\ Get(p, Recorded(History, got[p]))
           /\ UNCHANGED <<path, job, reply, index, indexFP, indexMu>> /\ auditMu = Nobody
  <2>1. /\ got' = [q \in Procs |-> got'[q]] /\ got'[p] = Recorded(History, got[p])
        /\ \A q \in Procs \ {p} : got'[q] = got[q]
    BY <1>2, ExceptFacts DEF Get, CachesTypeOK, RequestTypes
  <2>2. pc'[p] = "open" /\ Others(p) /\ RequestTypes'
    BY <1>2, <2>1, ContentFacts DEF Goto, CachesTypeOK, RequestTypes, Others, Steps
  <2> QED BY <1>2, <2>1, <2>2
<1> QED BY <1>1, <1>2 DEF Load, History

LEMMA StepAudit ==
    ASSUME CachesTypeOK, AuditOK, NEW p \in Procs, Fits(p), Posture(p) \/ Load(p)
    PROVE  RequestTypes' /\ Others(p) /\ Fits(p)' /\ UNCHANGED <<index, indexFP, indexMu>>
<1>1. CASE Posture(p)
  <2>1. PICK s \in Statuses : On(p, "load", "history", s)
    BY <1>1 DEF Posture
  <2> QED BY <2>1, OnMoves, PathFacts DEF Fits, Replacing, Steps
<1>2. CASE End(p, "none")
  BY <1>2, EndMoves, EndFits
<1>3. CASE Load(p) /\ ~End(p, "none")
  <2>1. path[p] = "history" /\ got[p] \in Statuses
    BY <1>3 DEF Load, At, Fits
  <2>2. Recorded(History, got[p]) \in Holds("history")
    BY <2>1, HistoryRows, RecordedFacts, ContentFacts
  <2> QED BY <1>3, <2>1, <2>2, LoadSteps DEF Fits, Replacing
<1> QED BY <1>1, <1>2, <1>3

LEMMA StepArrive ==
    ASSUME CachesTypeOK, NEW p \in Procs, Ensure(p) \/ Lookup(p) \/ Audit(p)
    PROVE  Others(p) /\ Fits(p)'
  BY BeginMoves DEF Fits, Replacing

LEMMA RequestSteps ==
    ASSUME CachesTypeOK, StepOK, AuditOK, NEW p \in Procs, Step(p) \/ WriteFails(p)
    PROVE  /\ FileTypes' /\ RequestTypes' /\ Others(p) /\ Fits(p)'
           /\ index' \in {Absent, Torn} \cup Lists /\ indexFP' \in Prints
           /\ indexMu' \in Procs \cup {Nobody}
<1>1. Fits(p)
  BY DEF StepOK
<1>2. CASE Open(p) \/ Write(p) \/ RenameTmp(p) \/ WriteFails(p)
  BY <1>1, <1>2, FileStep, StepReplace DEF CachesTypeOK
<1>3. ASSUME UNCHANGED <<disk, world, overlap>> PROVE FileTypes'
  BY <1>3 DEF disk, world, CachesTypeOK, FileTypes
<1>4. CASE Stat(p) \/ Fetch(p) \/ Fallback(p) \/ Render(p)
  <2>1. UNCHANGED <<disk, world, overlap>>
    BY <1>4 DEF Stat, Fetch, Fallback, Render
  <2> QED BY <2>1, <1>1, <1>3, <1>4, StepEnsure DEF CachesTypeOK
<1>5. CASE Check(p) \/ BuildIndex(p) \/ StoreFP(p) \/ AnswerLookup(p)
  <2>1. UNCHANGED <<disk, world, overlap>>
    BY <1>5 DEF Check, BuildIndex, StoreFP, AnswerLookup
  <2> QED BY <2>1, <1>1, <1>3, <1>5, StepLookup
<1>6. CASE Posture(p) \/ Load(p)
  <2>1. UNCHANGED <<disk, world, overlap>>
    BY <1>6 DEF Posture, Load
  <2> QED BY <2>1, <1>1, <1>3, <1>6, StepAudit DEF CachesTypeOK
<1> QED BY <1>2, <1>4, <1>5, <1>6 DEF Step

LEMMA CrashTypes ==
    ASSUME CachesTypeOK, Crash
    PROVE  /\ FileTypes' /\ RequestTypes' /\ \A p \in Procs : Fits(p)'
           /\ index' = Absent /\ indexFP' = Absent /\ indexMu' = Nobody
<1>1. FileTypes'
  BY DEF Crash, CloseAll, world, CachesTypeOK, FileTypes
<1>2. RequestTypes'
  BY PathFacts DEF Crash, RequestTypes, Steps
<1>3. \A p \in Procs : Fits(p)'
  BY EndFits DEF Crash
<1> QED BY <1>1, <1>2, <1>3 DEF Crash

LEMMA TypeNext ==
    ASSUME CachesTypeOK, StepOK, AuditOK, [Next]_vars
    PROVE  CachesTypeOK' /\ StepOK'
<1>1. ASSUME NEW p \in Procs, Others(p), Fits(p)' PROVE StepOK'
  <2>1. \A q \in Procs \ {p} : Fits(q)'
    BY <1>1 DEF StepOK, Fits, Others, Replacing
  <2> QED BY <1>1, <2>1 DEF StepOK
<1>2. ASSUME FileTypes', Watch PROVE seen' \in [Procs -> SUBSET Contents("zone")]
  BY <1>2, WatchSees, PathFacts DEF FileTypes
<1>3. ASSUME NEW p \in Procs, Step(p) \/ WriteFails(p), Watch, UNCHANGED <<cached, begun>>
      PROVE  CachesTypeOK' /\ StepOK'
  BY <1>3, <1>1, <1>2, RequestSteps DEF CachesTypeOK
<1>4. ASSUME NEW p \in Procs, Ensure(p) \/ Lookup(p) \/ Audit(p), Watch
      PROVE  CachesTypeOK' /\ StepOK'
  <2>1. FileTypes'
    BY <1>4, BeginMoves DEF disk, world, CachesTypeOK, FileTypes
  <2> QED BY <1>4, <1>1, <1>2, <2>1, BeginMoves, StepArrive DEF CachesTypeOK, memory
<1>5. CASE Crash /\ Watch /\ UNCHANGED <<cached, begun>>
  BY <1>5, <1>2, CrashTypes DEF CachesTypeOK, StepOK, Prints
<1>6. CASE (Age \/ Publish) /\ Watch /\ UNCHANGED <<cached, begun>>
  <2>1. FileTypes'
    <3>1. edition' \in 1..MaxEdition /\ fresh' \in BOOLEAN /\ mtime' \in Nat
      <4>1. /\ edition \in 1..MaxEdition /\ MaxEdition \in Nat
            /\ fresh \in BOOLEAN /\ mtime \in Nat
        BY CachesAssumption DEF CachesTypeOK, FileTypes
      <4>2. CASE Age
        BY <4>1, <4>2 DEF Age
      <4>3. CASE Publish
        BY <4>1, <4>3 DEF Publish
      <4> QED BY <1>6, <4>2, <4>3
    <3>2. UNCHANGED <<live, tmp, fd, overlap>>
      BY <1>6 DEF Age, Publish, Outside, disk
    <3> QED BY <3>1, <3>2 DEF CachesTypeOK, FileTypes
  <2>2. RequestTypes'
    BY <1>6 DEF Age, Publish, Outside, memory, CachesTypeOK, RequestTypes
  <2>3. UNCHANGED <<index, indexFP, indexMu>>
    BY <1>6 DEF Age, Publish, Outside, memory
  <2>4. StepOK'
    BY <1>6 DEF Age, Publish, Outside, StepOK, Fits, Replacing
  <2> QED BY <1>6, <1>2, <2>1, <2>2, <2>3, <2>4 DEF CachesTypeOK
<1>7. CASE UNCHANGED vars
  BY <1>7 DEF vars, CachesTypeOK, FileTypes, RequestTypes, StepOK, Fits, Replacing
<1> QED BY <1>3, <1>4, <1>5, <1>6, <1>7 DEF Next, Arrive, Trouble, Step

-----------------------------------------------------------------------------
(* The files. *)

\* A step of p that leaves the files alone, and with which it does not become
\* a writer.
LEMMA FilesKept ==
    ASSUME CachesTypeOK, FilesOK, NEW p \in Procs, Others(p),
           UNCHANGED <<live, tmp, overlap>>,
           \A q \in Procs \ {p} : fd'[q] = fd[q],
           ~Writing(p)',
           ~overlap["zone"] /\ Replacing(p)' /\ path'[p] = "ipset" => got'[p] \in Usable
    PROVE  FilesOK'
<1>1. TmpOK'
  BY DEF FilesOK, TmpOK, Others, Writing
<1> QED BY <1>1 DEF FilesOK, Others, Replacing

LEMMA FilesOpen ==
    ASSUME CachesTypeOK, StepOK, FilesOK, NEW p \in Procs, Open(p)
    PROVE  FilesOK'
<1> DEFINE f == path[p]
<1>1. f \in Paths /\ pc[p] = "open"
  BY DEF CachesTypeOK, RequestTypes, Open, At
<1>2. /\ pc'[p] = "write" /\ path'[p] = f /\ got'[p] = got[p] /\ Others(p)
  BY <1>1, OnMoves DEF Open, Steps
<1>3. /\ live' = live /\ tmp'[f] = Empty /\ \A g \in Paths \ {f} : tmp'[g] = tmp[g]
  BY <1>1, ExceptFacts DEF Open, OpenTmp, CachesTypeOK, FileTypes
<1>4. fd'[p] = <<"tmp", f>> /\ \A q \in Procs \ {p} : fd'[q] = fd[q]
  BY DEF Open, OpenTmp, CachesTypeOK, FileTypes
<1>5. /\ ~overlap'[f] => ~overlap[f] /\ \A q \in Procs : path[q] = f => ~Writing(q)
      /\ \A g \in Paths \ {f} : overlap'[g] = overlap[g]
  BY <1>1 DEF Open, Writers, Writing, CachesTypeOK, FileTypes
<1>6. TmpOK'
  <2> SUFFICES ASSUME NEW q \in Procs, ~overlap'[path'[q]]
               PROVE  /\ pc'[q] = "write" => fd'[q] = <<"tmp", path'[q]>> /\ tmp'[path'[q]] = Empty
                      /\ pc'[q] = "rename" => tmp'[path'[q]] = got'[q]
                      /\ Writing(q)' => \A r \in Procs \ {q} : path'[r] = path'[q] => ~Writing(r)'
    BY DEF TmpOK
  <2>1. CASE q = p
    BY <2>1, <1>2, <1>3, <1>4, <1>5 DEF Others, Writing
  <2>2. CASE q # p /\ path[q] = f
    BY <2>2, <1>2, <1>5 DEF Others, Writing
  <2>3. CASE q # p /\ path[q] # f
    <3>1. path[q] \in Paths \ {f}
      BY <2>3 DEF CachesTypeOK, RequestTypes
    <3> QED BY <2>3, <3>1, <1>2, <1>3, <1>4, <1>5 DEF Others, Writing, FilesOK, TmpOK
  <2> QED BY <2>1, <2>2, <2>3
<1>7. ~overlap'["zone"] => ~overlap["zone"]
  BY <1>1, <1>5, PathFacts
<1>8. ~overlap'["ipset"] => ~overlap["ipset"]
  BY <1>1, <1>5, PathFacts
<1>9. ~overlap["zone"] => \A q \in Procs : (Replacing(q) /\ path[q] = "ipset")' => got'[q] \in Usable
  BY <1>1, <1>2 DEF FilesOK, Others, Replacing
<1> QED BY <1>3, <1>6, <1>7, <1>8, <1>9 DEF FilesOK

\* What a write leaves, and what a rename does.
LEMMA WriteMoves ==
    ASSUME CachesTypeOK, StepOK, TmpOK, NEW p \in Procs, Write(p)
    PROVE  /\ pc[p] = "write" /\ pc'[p] = "rename" /\ path[p] \in Paths /\ path'[p] = path[p] 
           /\ got'[p] = got[p] /\ got[p] \in Holds(path[p]) /\ Others(p)
           /\ \A g \in Paths \ {path[p]} : tmp'[g] = tmp[g] /\ live'[g] = live[g]
           /\ \A q \in Procs \ {p} : fd'[q] = fd[q]
           /\ ~overlap[path[p]] => UNCHANGED live /\ tmp'[path[p]] = got[p]
           /\ UNCHANGED <<edition, overlap, index, indexFP, indexMu, auditMu>>
           /\ \/ live'["zone"] = live["zone"] /\ mtime' = mtime
              \/ live'["zone"] # Absent /\ mtime' = mtime + 1
<1> DEFINE f == path[p]
<1>1. f \in Paths /\ pc[p] = "write" /\ got[p] \in Holds(f) /\ got[p] # Absent
  BY HoldsContents DEF CachesTypeOK, RequestTypes, Write, At, StepOK, Fits, Replacing
<1>2. /\ pc'[p] = "rename" /\ path'[p] = f /\ got'[p] = got[p] /\ Others(p)
      /\ UNCHANGED <<index, indexFP, indexMu, auditMu>>
  BY <1>1, OnMoves DEF Write, Steps
<1>3. /\ \A q \in Procs \ {p} : fd'[q] = fd[q]
      /\ UNCHANGED <<edition, overlap>>
      /\ mtime' = IF fd[p] = <<"live", "zone">> THEN mtime + 1 ELSE mtime
  BY DEF Write, WriteTmp, Touch, CachesTypeOK, FileTypes
<1>4. \A old : \A c \in Over(old, got[p]) : c # Absent
  BY <1>1, OverFacts, ContentFacts
<1>5. CASE fd[p] = <<"tmp", f>>
  <2>1. PICK c \in Over(tmp[f], got[p]) : tmp' = [tmp EXCEPT ![f] = c] /\ UNCHANGED live
    BY <1>1, <1>5, FdFacts DEF Write, WriteTmp
  <2>2. tmp'[f] = c /\ \A g \in Paths \ {f} : tmp'[g] = tmp[g]
    BY <1>1, <2>1, ExceptFacts DEF CachesTypeOK, FileTypes
  <2>3. ~overlap[f] => c = got[p]
    BY <1>1, <2>1, OverFacts DEF TmpOK
  <2>4. fd[p] # <<"live", "zone">>
    BY <1>1, <1>5, FdFacts, PathFacts
  <2> QED BY <1>1, <1>2, <1>3, <2>1, <2>2, <2>3, <2>4
<1>6. CASE fd[p] = <<"live", f>>
  <2>1. PICK c \in Over(live[f], got[p]) : live' = [live EXCEPT ![f] = c] /\ UNCHANGED tmp
    BY <1>1, <1>6, FdFacts DEF Write, WriteTmp
  <2>2. live'[f] = c /\ c # Absent /\ \A g \in Paths \ {f} : live'[g] = live[g]
    BY <1>1, <1>4, <2>1, ExceptFacts DEF CachesTypeOK, FileTypes
  <2>3. overlap[f]
    BY <1>1, <1>6, FdFacts DEF TmpOK
  <2>4. CASE f = "zone"
    BY <1>1, <1>2, <1>3, <1>6, <2>1, <2>2, <2>3, <2>4
  <2>5. CASE f # "zone"
    <3>1. fd[p] # <<"live", "zone">> /\ live'["zone"] = live["zone"]
      BY <1>1, <1>6, <2>2, <2>5, FdFacts, PathFacts
    <3> QED BY <1>1, <1>2, <1>3, <2>1, <2>2, <2>3, <3>1
  <2> QED BY <2>4, <2>5
<1>7. CASE fd[p] = <<"gone", f>>
  <2>1. UNCHANGED <<live, tmp>>
    BY <1>1, <1>7, FdFacts DEF Write, WriteTmp
  <2>2. overlap[f] /\ fd[p] # <<"live", "zone">>
    BY <1>1, <1>7, FdFacts, PathFacts DEF TmpOK
  <2> QED BY <1>1, <1>2, <1>3, <2>1, <2>2
<1> QED BY <1>5, <1>6, <1>7 DEF Write, WriteTmp

LEMMA FilesWrite ==
    ASSUME CachesTypeOK, StepOK, FilesOK, NEW p \in Procs, Write(p)
    PROVE  FilesOK'
<1> DEFINE f == path[p]
<1>0. TmpOK
  BY DEF FilesOK
<1>1. /\ pc[p] = "write" /\ pc'[p] = "rename" /\ f \in Paths /\ path'[p] = f /\ got'[p] = got[p]
      /\ Others(p)
      /\ \A g \in Paths \ {f} : tmp'[g] = tmp[g] /\ live'[g] = live[g]
      /\ \A q \in Procs \ {p} : fd'[q] = fd[q]
      /\ ~overlap[f] => UNCHANGED live /\ tmp'[f] = got[p]
      /\ UNCHANGED overlap
  BY <1>0, WriteMoves
<1>2. \A q \in Procs : path'[q] = path[q] /\ got'[q] = got[q] /\ (Writing(q)' <=> Writing(q))
                        /\ (Replacing(q)' <=> Replacing(q))
  BY <1>1 DEF Others, Writing, Replacing
<1>3. TmpOK'
  <2> SUFFICES ASSUME NEW q \in Procs, ~overlap[path[q]]
               PROVE  /\ pc'[q] = "write" => fd'[q] = <<"tmp", path[q]>> /\ tmp'[path[q]] = Empty
                      /\ pc'[q] = "rename" => tmp'[path[q]] = got[q]
                      /\ Writing(q) => \A r \in Procs \ {q} : path[r] = path[q] => ~Writing(r)
    BY <1>1, <1>2 DEF TmpOK
  <2>1. CASE q = p
    BY <2>1, <1>0, <1>1 DEF TmpOK
  <2>2. CASE q # p /\ path[q] = f
    <3>1. ~Writing(q)
      BY <2>2, <1>0, <1>1 DEF TmpOK, Writing
    <3> QED BY <2>2, <3>1, <1>0, <1>1 DEF Others, Writing, TmpOK
  <2>3. CASE q # p /\ path[q] # f
    <3>1. path[q] \in Paths \ {f}
      BY <2>3 DEF CachesTypeOK, RequestTypes
    <3> QED BY <2>3, <3>1, <1>0, <1>1 DEF Others, TmpOK
  <2> QED BY <2>1, <2>2, <2>3
<1>4. \A g \in Paths : ~overlap[g] => live'[g] = live[g]
  BY <1>1
<1> QED BY <1>1, <1>2, <1>3, <1>4, PathFacts DEF FilesOK

LEMMA RenameMoves ==
    ASSUME CachesTypeOK, StepOK, FilesOK, NEW p \in Procs, RenameTmp(p), ~UNCHANGED disk
    PROVE  /\ pc[p] = "rename" /\ path[p] \in Paths /\ ~Writing(p)' /\ ~Replacing(p)' /\ Others(p)
           /\ tmp[path[p]] # Absent /\ live'[path[p]] = tmp[path[p]]
           /\ \A g \in Paths \ {path[p]} : tmp'[g] = tmp[g] /\ live'[g] = live[g]
           /\ \A q \in Procs, g \in Paths \ {path[p]} : fd[q] = <<"tmp", g>> => fd'[q] = fd[q]
           /\ mtime' = IF path[p] = "zone" THEN mtime + 1 ELSE mtime
           /\ UNCHANGED <<edition, overlap, index, indexFP, indexMu>>
<1> DEFINE f == path[p]
<1>1. f \in Paths /\ pc[p] = "rename"
  BY DEF CachesTypeOK, RequestTypes, RenameTmp, At
<1>2. /\ Rename(f) /\ Touch(f = "zone") /\ UNCHANGED <<edition, overlap>>
      /\ End(p, "none") \/ On(p, "render", "zone", Absent)
  BY DEF RenameTmp
<1>3. Others(p) /\ pc'[p] \in {"idle", "render"} /\ UNCHANGED <<index, indexFP, indexMu>>
  BY <1>2, EndMoves, OnMoves, PathFacts DEF Steps
<1>4. /\ tmp[f] # Absent /\ live'[f] = tmp[f]
      /\ \A g \in Paths \ {f} : tmp'[g] = tmp[g] /\ live'[g] = live[g]
  BY <1>1, <1>2, ExceptFacts DEF Rename, CachesTypeOK, FileTypes
<1>5. \A q \in Procs, g \in Paths \ {f} : fd[q] = <<"tmp", g>> => fd'[q] = fd[q]
  BY <1>1, <1>2, RenamedFacts DEF Rename, CachesTypeOK, FileTypes
<1> QED BY <1>1, <1>2, <1>3, <1>4, <1>5 DEF Touch, Writing, Replacing

LEMMA FilesRename ==
    ASSUME CachesTypeOK, StepOK, FilesOK, NEW p \in Procs, RenameTmp(p), ~UNCHANGED disk
    PROVE  FilesOK'
<1> DEFINE f == path[p]
<1>1. /\ pc[p] = "rename" /\ f \in Paths /\ ~Writing(p)' /\ ~Replacing(p)' /\ Others(p)
      /\ live'[f] = tmp[f]
      /\ \A g \in Paths \ {f} : tmp'[g] = tmp[g] /\ live'[g] = live[g]
      /\ \A q \in Procs, g \in Paths \ {f} : fd[q] = <<"tmp", g>> => fd'[q] = fd[q]
      /\ UNCHANGED overlap
  BY RenameMoves
<1>2. ~overlap[f] => tmp[f] = got[p] /\ \A q \in Procs \ {p} : path[q] = f => ~Writing(q)
  BY <1>1 DEF FilesOK, TmpOK, Writing
<1>3. TmpOK'
  <2> SUFFICES ASSUME NEW q \in Procs, ~overlap[path'[q]], Writing(q)'
               PROVE  /\ pc'[q] = "write" => fd'[q] = <<"tmp", path'[q]>> /\ tmp'[path'[q]] = Empty
                      /\ pc'[q] = "rename" => tmp'[path'[q]] = got'[q]
                      /\ \A r \in Procs \ {q} : path'[r] = path'[q] => ~Writing(r)'
    BY <1>1 DEF TmpOK, Writing
  <2>1. q # p /\ Writing(q) /\ path'[q] = path[q] /\ pc'[q] = pc[q] /\ got'[q] = got[q]
    BY <1>1 DEF Others, Writing
  <2>2. path[q] \in Paths \ {f}
    BY <2>1, <1>2 DEF CachesTypeOK, RequestTypes
  <2>3. \A r \in Procs \ {q} : path'[r] = path'[q] => ~Writing(r)'
    BY <2>1, <1>1 DEF Others, Writing, FilesOK, TmpOK
  <2> QED BY <2>1, <2>2, <2>3, <1>1 DEF FilesOK, TmpOK
<1>4. got[p] \in Holds(f)
  BY <1>1 DEF StepOK, Fits, Replacing
<1>5. ~overlap["zone"] => live'["zone"] \in Lists \cup {Absent}
  BY <1>1, <1>2, <1>4, PathFacts, ContentFacts DEF FilesOK
<1>6. ~overlap["zone"] /\ ~overlap["ipset"] => live'["ipset"] \in Usable \cup {Absent}
  BY <1>1, <1>2, <1>4, PathFacts DEF FilesOK, Replacing
<1>7. ~overlap["zone"] => \A q \in Procs : (Replacing(q) /\ path[q] = "ipset")' => got'[q] \in Usable
  BY <1>1 DEF FilesOK, Others, Replacing
<1> QED BY <1>1, <1>3, <1>5, <1>6, <1>7 DEF FilesOK

LEMMA RenameChanges ==
    ASSUME CachesTypeOK, NEW p \in Procs, Rename(path[p])
    PROVE  ~UNCHANGED disk
<1>1. path[p] \in Paths
  BY DEF CachesTypeOK, RequestTypes
<1> QED BY <1>1, ExceptFacts DEF Rename, disk, CachesTypeOK, FileTypes

LEMMA GiveUpEnds ==
    ASSUME CachesTypeOK, NEW p \in Procs, GiveUp(p)
    PROVE  pc'[p] \in {"idle", "fallback"}
  BY EndMoves, OnMoves, PathFacts DEF GiveUp, Steps

LEMMA FilesNext ==
    ASSUME CachesTypeOK, StepOK, FilesOK, AuditOK, [Next]_vars
    PROVE  FilesOK'
<1>1. ASSUME NEW p \in Procs, Step(p) PROVE FilesOK'
  <2>0. Others(p)
    BY <1>1, RequestSteps
  <2>1. CASE Open(p)
    BY <2>1, FilesOpen
  <2>2. CASE Write(p)
    BY <2>2, FilesWrite
  <2>3. CASE RenameTmp(p) /\ ~UNCHANGED disk
    BY <2>3, FilesRename
  <2>4. CASE RenameTmp(p) /\ UNCHANGED disk
    <3>1. GiveUp(p) /\ UNCHANGED overlap
      BY <2>4, RenameChanges DEF RenameTmp
    <3>2. pc'[p] \in {"idle", "fallback"}
      BY <3>1, GiveUpEnds
    <3> QED BY <2>0, <2>4, <3>1, <3>2, FilesKept DEF disk, Writing, Replacing
  <2>5. CASE Render(p)
    <3>1. UNCHANGED <<disk, overlap>>
      BY <2>5 DEF Render
    <3>2. CASE live["zone"] \in Usable \cup {Torn} /\ On(p, "open", "ipset", live["zone"])
      <4>1. ~overlap["zone"] => live["zone"] \in Usable
        BY <3>2, ContentFacts DEF FilesOK
      <4>2. pc'[p] = "open" /\ got'[p] = live["zone"]
        BY <3>2, OnMoves, PathFacts DEF Steps
      <4> QED BY <2>0, <3>1, <4>1, <4>2, FilesKept DEF disk, Writing
    <3>3. CASE End(p, "no_cidr")
      BY <2>0, <3>1, <3>3, EndMoves, FilesKept DEF disk, Writing, Replacing
    <3> QED BY <2>5, <3>2, <3>3 DEF Render
  <2>6. CASE Fetch(p)
    <3>1. path'[p] = "zone" /\ pc'[p] \in {"open", "fallback"} /\ UNCHANGED <<disk, overlap>>
      BY <2>6, OnMoves, PathFacts DEF Fetch, Steps
    <3> QED BY <2>0, <3>1, FilesKept DEF disk, Writing
  <2>7. CASE Load(p)
    <3>1. UNCHANGED <<disk, overlap>> /\ path[p] = "history"
      BY <2>7 DEF Load, At, StepOK, Fits
    <3>2. pc'[p] = "idle" \/ (pc'[p] = "open" /\ path'[p] = "history")
      BY <2>7, <3>1, LoadSteps, EndMoves
    <3> QED BY <2>0, <3>1, <3>2, FilesKept DEF disk, Writing, Replacing
  <2>8. CASE Stat(p) \/ Fallback(p) \/ Check(p) \/ AnswerLookup(p) \/ Posture(p)
    <3>1. UNCHANGED <<disk, overlap>>
      BY <2>8 DEF Stat, Fallback, Check, AnswerLookup, Posture
    <3>2. ~Replacing(p)' /\ ~Writing(p)'
      BY <2>8, OnMoves, EndMoves, PathFacts 
         DEF Stat, Fallback, Check, AnswerLookup, Posture, Steps, Replacing, Writing
    <3> QED BY <2>0, <3>1, <3>2, FilesKept DEF disk
  <2>9. CASE BuildIndex(p) \/ StoreFP(p)
    <3>1. UNCHANGED <<disk, overlap>> /\ pc'[p] \in {"answer", "build"}
      BY <2>9 DEF BuildIndex, StoreFP, Goto, CachesTypeOK, RequestTypes
    <3> QED BY <2>0, <3>1, FilesKept DEF disk, Writing, Replacing
  <2> QED BY <1>1, <2>1, <2>2, <2>3, <2>4, <2>5, <2>6, <2>7, <2>8, <2>9 DEF Step
<1>2. ASSUME NEW p \in Procs, Ensure(p) \/ Lookup(p) \/ Audit(p) PROVE FilesOK'
  BY <1>2, BeginMoves, FilesKept DEF disk, Writing, Replacing
<1>3. ASSUME NEW p \in Procs, WriteFails(p) PROVE FilesOK'
  <2>1. Others(p) /\ pc'[p] \in {"idle", "fallback"}
    BY <1>3, RequestSteps, GiveUpEnds DEF WriteFails
  <2>2. UNCHANGED <<live, tmp, overlap>> /\ \A q \in Procs \ {p} : fd'[q] = fd[q]
    BY <1>3 DEF WriteFails, CloseAll, CachesTypeOK, FileTypes
  <2> QED BY <2>1, <2>2, FilesKept DEF Writing, Replacing
<1>4. CASE Crash
  BY <1>4 DEF Crash, FilesOK, TmpOK, Writing, Replacing
<1>5. CASE Age \/ Publish \/ UNCHANGED vars
  <2>1. UNCHANGED <<live, tmp, fd, overlap, pc, path, got>>
    BY <1>5 DEF Age, Publish, Outside, disk, vars
  <2> QED BY <2>1 DEF FilesOK, TmpOK, Writing, Replacing
<1> QED BY <1>1, <1>2, <1>3, <1>4, <1>5 DEF Next, Arrive, Trouble

-----------------------------------------------------------------------------
(* The audit history. *)

\* A step of p that leaves the history alone, and with which it does not start
\* to replace it.
LEMMA AuditKept ==
    ASSUME CachesTypeOK, AuditOK, NEW p \in Procs, Others(p),
           live'["history"] = live["history"], overlap'["history"] = overlap["history"],
           Replacing(p)' /\ path'[p] = "history" =>
              Replacing(p) /\ path[p] = "history" /\ got'[p] = got[p] /\ auditMu' = auditMu
    PROVE  AuditOK'
<1>1. History' = History
  BY DEF History
<1>2. ASSUME NEW q \in Procs, Replacing(q)', path'[q] = "history"
      PROVE  (auditMu = q /\ NewRow(got[q]))'
  <2>1. Replacing(q) /\ path[q] = "history" /\ got'[q] = got[q] /\ auditMu' = q
    BY <1>2 DEF AuditOK, Others, Replacing
  <2>2. NewRow(got[q])
    BY <2>1 DEF AuditOK
  <2> QED BY <1>1, <2>1, <2>2 DEF NewRow
<1> QED BY <1>2 DEF AuditOK

LEMMA AuditRename ==
    ASSUME CachesTypeOK, StepOK, FilesOK, AuditOK, NEW p \in Procs, RenameTmp(p), ~UNCHANGED disk,
           path[p] = "history"
    PROVE  AuditOK' /\ NewRow(live'["history"])
<1>1. /\ Replacing(p) /\ ~Replacing(p)' /\ Others(p) /\ UNCHANGED overlap
      /\ live'["history"] = tmp["history"]
  BY RenameMoves DEF Replacing
<1>2. tmp["history"] = got[p] /\ auditMu = p /\ NewRow(got[p])
  BY <1>1, RenameMoves DEF FilesOK, TmpOK, AuditOK
<1>3. got[p] \in Rows
  BY <1>1, ContentFacts DEF StepOK, Fits
<1>4. \A q \in Procs : ~(Replacing(q)' /\ path'[q] = "history")
  BY <1>1, <1>2 DEF AuditOK, Others, Replacing
<1> QED BY <1>1, <1>2, <1>3, <1>4 DEF AuditOK

LEMMA AuditLoad ==
    ASSUME CachesTypeOK, StepOK, AuditOK, NEW p \in Procs, Load(p)
    PROVE  AuditOK'
<1>1. UNCHANGED <<live, overlap>> /\ path[p] = "history" /\ got[p] \in Statuses
  BY DEF Load, disk, At, StepOK, Fits
<1>2. CASE End(p, "none")
  BY <1>1, <1>2, EndMoves, AuditKept DEF Replacing
<1>3. CASE ~End(p, "none")
  <2>1. /\ auditMu = Nobody /\ auditMu' = p /\ Others(p) /\ got'[p] = Recorded(History, got[p])
        /\ History = <<>> \/ Newest(History) # got[p]
    BY <1>3, LoadSteps
  <2>2. NewRow(got'[p])
    BY <1>1, <2>1 DEF NewRow
  <2>3. History' = History
    BY <1>1 DEF History
  <2>4. \A q \in Procs \ {p} : ~(Replacing(q) /\ path[q] = "history")
    BY <2>1, ContentFacts DEF AuditOK
  <2>5. \A q \in Procs \ {p} : ~(Replacing(q)' /\ path'[q] = "history")
    BY <2>1, <2>4 DEF Others, Replacing
  <2>6. ASSUME NEW q \in Procs, Replacing(q)', path'[q] = "history"
        PROVE  (auditMu = q /\ NewRow(got[q]))'
    <3>1. q = p
      BY <2>5, <2>6
    <3> QED BY <2>1, <2>2, <2>3, <3>1 DEF NewRow
  <2> QED BY <1>1, <2>6 DEF AuditOK
<1> QED BY <1>2, <1>3

\* What a step does to the history.
LEMMA AuditNext ==
    ASSUME CachesTypeOK, StepOK, FilesOK, AuditOK, [Next]_vars
    PROVE  AuditOK' /\ (live'["history"] # live["history"] => NewRow(live'["history"]))
<1> USE PathFacts
<1>1. ASSUME NEW p \in Procs, Step(p)
      PROVE AuditOK' /\ (live'["history"] # live["history"] => NewRow(live'["history"]))
  <2>0. Others(p)
    BY <1>1, RequestSteps
  <2>1. CASE Open(p)
    <3> DEFINE f == path[p]
    <3>1. /\ f \in Paths /\ pc[p] = "open"
      BY <2>1 DEF CachesTypeOK, RequestTypes, Open, At
    <3>2. path'[p] = f /\ got'[p] = got[p] /\ UNCHANGED <<live, auditMu>>
      BY <2>1, <3>1, OnMoves DEF Open, OpenTmp, Steps
    <3>3. overlap'["history"] = overlap["history"]
      <4>1. CASE f = "history"
        <5>1. \A q \in Procs : path[q] = "history" => ~Writing(q)
          BY <3>1, <4>1 DEF AuditOK, Replacing, Writing
        <5>2. Writers("history") = {}
          BY <5>1 DEF Writers, Writing
        <5> QED BY <2>1, <4>1, <5>2 DEF Open, AuditOK, CachesTypeOK, FileTypes
      <4>2. CASE f # "history"
        BY <2>1, <4>2 DEF Open, CachesTypeOK, FileTypes
      <4> QED BY <4>1, <4>2
    <3> QED BY <2>0, <3>1, <3>2, <3>3, AuditKept DEF Replacing
  <2>2. CASE Write(p)
    <3>1. /\ pc[p] = "write" /\ path'[p] = path[p] /\ got'[p] = got[p] /\ path[p] \in Paths
          /\ \A g \in Paths \ {path[p]} : live'[g] = live[g]
          /\ ~overlap[path[p]] => UNCHANGED live
          /\ UNCHANGED <<overlap, auditMu>>
      BY <2>2, WriteMoves DEF FilesOK
    <3>2. live'["history"] = live["history"]
      BY <3>1 DEF AuditOK
    <3> QED BY <2>0, <3>1, <3>2, AuditKept DEF Replacing
  <2>3. CASE RenameTmp(p) /\ ~UNCHANGED disk
    <3>1. CASE path[p] = "history"
      BY <2>3, <3>1, AuditRename
    <3>2. CASE path[p] # "history"
      <4>1. live'["history"] = live["history"] /\ UNCHANGED overlap /\ ~Replacing(p)'
        BY <2>3, <3>2, RenameMoves
      <4> QED BY <2>0, <4>1, AuditKept
    <3> QED BY <3>1, <3>2
  <2>4. CASE RenameTmp(p) /\ UNCHANGED disk
    <3>1. GiveUp(p) /\ UNCHANGED overlap
      BY <2>4, RenameChanges DEF RenameTmp
    <3>2. pc'[p] \in {"idle", "fallback"}
      BY <3>1, GiveUpEnds
    <3> QED BY <2>0, <2>4, <3>1, <3>2, AuditKept DEF disk, Replacing
  <2>5. CASE Load(p)
    BY <2>5, AuditLoad DEF Load, disk
  <2>6. CASE Stat(p) \/ Fetch(p) \/ Fallback(p) \/ Render(p) \/ Check(p) \/ AnswerLookup(p) 
             \/ Posture(p)
    <3>1. UNCHANGED <<disk, overlap>>
      BY <2>6 DEF Stat, Fetch, Fallback, Render, Check, AnswerLookup, Posture
    <3>2. ~Replacing(p)' \/ path'[p] # "history"
      BY <2>6, OnMoves, EndMoves
         DEF Stat, Fetch, Fallback, Render, Check, AnswerLookup, Posture, Steps, Replacing
    <3> QED BY <2>0, <3>1, <3>2, AuditKept DEF disk
  <2>7. CASE BuildIndex(p) \/ StoreFP(p)
    <3>1. UNCHANGED <<disk, overlap>> /\ pc'[p] \in {"answer", "build"}
      BY <2>7 DEF BuildIndex, StoreFP, Goto, CachesTypeOK, RequestTypes
    <3> QED BY <2>0, <3>1, AuditKept DEF disk, Replacing
  <2> QED BY <1>1, <2>1, <2>2, <2>3, <2>4, <2>5, <2>6, <2>7 DEF Step
<1>2. ASSUME NEW p \in Procs, Ensure(p) \/ Lookup(p) \/ Audit(p) 
      PROVE  AuditOK' /\ UNCHANGED live
  BY <1>2, BeginMoves, AuditKept DEF disk, Replacing
<1>3. ASSUME NEW p \in Procs, WriteFails(p) PROVE AuditOK' /\ UNCHANGED live
  <2>1. Others(p) /\ pc'[p] \in {"idle", "fallback"} /\ UNCHANGED <<live, overlap>>
    BY <1>3, RequestSteps, GiveUpEnds DEF WriteFails
  <2> QED BY <2>1, AuditKept DEF Replacing
<1>4. CASE Crash
  BY <1>4 DEF Crash, AuditOK, Replacing
<1>5. CASE Age \/ Publish \/ UNCHANGED vars
  <2>1. UNCHANGED <<live, overlap, pc, path, got, auditMu>>
    BY <1>5 DEF Age, Publish, Outside, disk, memory, vars
  <2> QED BY <2>1 DEF AuditOK, Replacing, NewRow, History
<1> QED BY <1>1, <1>2, <1>3, <1>4, <1>5 DEF Next, Arrive, Trouble

-----------------------------------------------------------------------------
(* The list of the country. *)

\* The list stays, or another takes its place and has a new mtime.
ListMoves ==
    \/ live'["zone"] = live["zone"] /\ mtime' = mtime
    \/ live'["zone"] # Absent /\ mtime' = mtime + 1

LEMMA ListNext ==
    ASSUME CachesTypeOK, StepOK, FilesOK, AuditOK, [Next]_vars
    PROVE  ListMoves
<1>1. ASSUME NEW p \in Procs, Step(p) PROVE ListMoves
  <2>1. CASE Write(p)
    BY <2>1, WriteMoves DEF FilesOK, ListMoves
  <2>2. CASE RenameTmp(p) /\ ~UNCHANGED disk
    BY <2>2, RenameMoves, PathFacts DEF ListMoves
  <2>3. CASE RenameTmp(p) /\ UNCHANGED disk
    <3>1. UNCHANGED mtime
      BY <2>3, RenameChanges DEF RenameTmp
    <3> QED BY <2>3, <3>1 DEF disk, ListMoves
  <2>4. CASE Open(p)
    BY <2>4 DEF Open, OpenTmp, world, ListMoves
  <2>5. CASE UNCHANGED <<disk, world>>
    BY <2>5 DEF disk, world, ListMoves
  <2>6. \/ Write(p) \/ RenameTmp(p) \/ Open(p) \/ UNCHANGED <<disk, world>>
    BY <1>1 DEF Step, Stat, Fetch, Fallback, Render, Check, BuildIndex, StoreFP, AnswerLookup,
                Posture, Load
  <2> QED BY <2>1, <2>2, <2>3, <2>4, <2>5, <2>6
<1>2. ASSUME NEW p \in Procs, Ensure(p) \/ Lookup(p) \/ Audit(p) PROVE ListMoves
  BY <1>2, BeginMoves DEF disk, world, ListMoves
<1>3. ASSUME NEW p \in Procs, WriteFails(p) PROVE ListMoves
  BY <1>3 DEF WriteFails, world, ListMoves
<1>4. CASE Crash \/ Age \/ Publish \/ UNCHANGED vars
  BY <1>4 DEF Crash, Age, Publish, Outside, disk, world, vars, ListMoves
<1> QED BY <1>1, <1>2, <1>3, <1>4 DEF Next, Arrive, Trouble

LEMMA CachedNext ==
    ASSUME CachesTypeOK, StepOK, FilesOK, AuditOK, CachedOK, [Next]_vars
    PROVE  CachedOK'
<1>1. live["zone"] # Absent => live'["zone"] # Absent
  BY ListNext DEF ListMoves
<1>2. \A q \in Procs : cached'[q] => cached[q] \/ live["zone"] \in Usable
  <2>1. ASSUME NEW p \in Procs, Ensure(p) \/ Lookup(p) \/ Audit(p), NEW q \in Procs, cached'[q]
        PROVE  cached[q] \/ live["zone"] \in Usable
    BY <2>1, BeginMoves
  <2>2. ASSUME UNCHANGED cached, NEW q \in Procs, cached'[q] PROVE cached[q]
    BY <2>2
  <2> QED BY <2>1, <2>2 DEF Next, Arrive, Trouble, Step, vars
<1> QED BY <1>1, <1>2, ContentFacts DEF CachedOK

-----------------------------------------------------------------------------
(* The index. *)

\* A step that leaves the index alone: a lookup in the course of it stays
\* where it is, the others do not enter that course.
LEMMA IndexKept ==
    ASSUME CachesTypeOK, StepOK, IndexOK, Watch, ListMoves,
           UNCHANGED <<index, indexFP, indexMu>>,
           \A q \in Procs :
              \/ pc'[q] = pc[q] /\ job'[q] = job[q] /\ got'[q] = got[q]
              \/ pc[q] # "build" /\ pc'[q] \notin {"lock", "build", "answer"}
    PROVE  IndexOK'
<1>1. mtime \in Nat /\ mtime' \in Nat /\ mtime <= mtime'
  BY DEF CachesTypeOK, FileTypes, ListMoves
<1>2. \/ Fingerprint' = Fingerprint /\ Current' = Current
      \/ Fingerprint' = mtime + 1
  BY DEF ListMoves, Fingerprint, Current
<1>3. indexFP \in Prints /\ indexFP # mtime + 1
  BY <1>1, ContentFacts DEF CachesTypeOK, IndexOK, Prints
<1>4. ASSUME NEW q \in Procs PROVE Reading(q)'
  <2>0. Reading(q) /\ Fits(q)
    BY DEF IndexOK, StepOK
  <2>1. job'[q] = "lookup" => 
           seen[q] \subseteq seen'[q] /\ live["zone"] \in seen'[q] /\ live'["zone"] \in seen'[q]
    BY WatchSees
  <2>2. CASE pc'[q] = pc[q] /\ job'[q] = job[q] /\ got'[q] = got[q]
    <3>1. pc[q] \in {"lock", "build", "answer"} /\ Built(q) => Built(q)'
      BY <2>0, <2>1, <2>2 DEF Built, Fits
    <3>2. pc[q] \in {"lock", "build"} => got[q] # mtime + 1
      BY <2>0, <1>1, ContentFacts DEF Reading, Fits, Prints
    <3>3. pc[q] \in {"lock", "build"} /\ got[q] \in Nat => got[q] <= mtime'
      BY <2>0, <1>1 DEF Reading
    <3>4. pc[q] = "build" /\ got[q] = Fingerprint' => Current'
      BY <2>0, <1>2, <3>2 DEF Reading
    <3> QED BY <2>0, <2>1, <2>2, <3>1, <3>3, <3>4 DEF Reading
  <2>3. CASE pc'[q] \notin {"lock", "build", "answer"}
    BY <2>1, <2>3 DEF Reading
  <2> QED BY <2>2, <2>3
<1>5. indexMu # Nobody => indexMu \in Procs /\ pc'[indexMu] = "build"
  BY DEF IndexOK, CachesTypeOK
<1>6. indexFP \in Nat => indexFP <= mtime'
  BY <1>1 DEF IndexOK
<1>7. indexMu = Nobody /\ indexFP = Fingerprint' => Current'
  BY <1>2, <1>3 DEF IndexOK
<1> QED BY <1>4, <1>5, <1>6, <1>7 DEF IndexOK

LEMMA IndexCheck ==
    ASSUME CachesTypeOK, StepOK, IndexOK, Watch, ListMoves, NEW p \in Procs, Check(p)
    PROVE  IndexOK'
<1>1. /\ indexMu = Nobody /\ UNCHANGED <<live, mtime, index, indexFP, indexMu>> /\ Others(p)
      /\ job[p] = "lookup" /\ job'[p] = "lookup" /\ got'[p] = Fingerprint
      /\ \/ pc'[p] = "answer" /\ Fingerprint = indexFP
         \/ pc'[p] = "lock" /\ Fingerprint # indexFP
  <2>1. PICK step \in {"answer", "lock"} : 
           /\ On(p, step, "zone", Fingerprint) 
           /\ IF Fingerprint = indexFP THEN step = "answer" ELSE step = "lock"
    BY DEF Check
  <2>2. job[p] = "lookup"
    BY DEF Check, At, StepOK, Fits
  <2> QED BY <2>1, <2>2, OnMoves, PathFacts DEF Check, Steps, disk, world
<1>2. Fingerprint' = Fingerprint /\ Current' = Current
  BY <1>1 DEF Fingerprint, Current
<1>3. seen[p] \subseteq seen'[p] /\ live["zone"] \in seen'[p]
  BY <1>1, WatchSees
<1>4. Reading(p)'
  <2>1. pc'[p] = "answer" => Built(p)'
    BY <1>1, <1>3 DEF IndexOK, Current, Built
  <2>2. Fingerprint \in Nat => Fingerprint <= mtime
    BY ContentFacts DEF Fingerprint, CachesTypeOK, FileTypes
  <2> QED BY <1>1, <1>3, <2>1, <2>2 DEF Reading
<1>5. ASSUME NEW q \in Procs \ {p} PROVE Reading(q)'
  <2>1. Reading(q) /\ Fits(q) /\ pc'[q] = pc[q] /\ job'[q] = job[q] /\ got'[q] = got[q]
    BY <1>1 DEF IndexOK, StepOK, Others
  <2>2. job[q] = "lookup" => seen[q] \subseteq seen'[q] /\ live'["zone"] \in seen'[q]
    BY <2>1, WatchSees
  <2>3. pc[q] \in {"lock", "build", "answer"} /\ Built(q) => Built(q)'
    BY <1>1, <2>1, <2>2 DEF Built, Fits
  <2> QED BY <1>1, <1>2, <2>1, <2>2, <2>3 DEF Reading
<1> QED BY <1>1, <1>2, <1>4, <1>5 DEF IndexOK

LEMMA IndexBuild ==
    ASSUME CachesTypeOK, StepOK, IndexOK, Watch, NEW p \in Procs, BuildIndex(p)
    PROVE  IndexOK'
<1>1. /\ pc[p] = "lock" /\ indexMu = Nobody 
      /\ UNCHANGED <<live, mtime, indexFP, job, got>>
      /\ \A q \in Procs \ {p} : pc'[q] = pc[q]
      /\ \/ /\ got[p] = indexFP /\ pc'[p] = "answer" /\ UNCHANGED <<index, indexMu>>
         \/ /\ pc'[p] = "build" /\ indexMu' = p /\ index' = EntriesOf(live["zone"])
  BY DEF BuildIndex, At, Goto, disk, world, CachesTypeOK, RequestTypes
<1>2. Fingerprint' = Fingerprint
  BY <1>1 DEF Fingerprint
<1>3. \A q \in Procs : /\ Reading(q) /\ Fits(q)
                       /\ job[q] = "lookup" => seen[q] \subseteq seen'[q] /\ live["zone"] \in seen'[q]
  BY <1>1, WatchSees DEF IndexOK, StepOK
<1>4. job[p] = "lookup"
  BY <1>1, <1>3 DEF Fits
<1>5. CASE got[p] = indexFP /\ pc'[p] = "answer" /\ UNCHANGED <<index, indexMu>>
  <2>1. Current' = Current
    BY <1>1, <1>5 DEF Current
  <2>2. \A q \in Procs : pc[q] \in {"lock", "build", "answer"} /\ Built(q) => Built(q)'
    BY <1>1, <1>3, <1>5 DEF Built, Fits
  <2>3. Reading(p)'
    BY <1>1, <1>3, <1>4, <1>5, <2>2 DEF Reading
  <2>4. \A q \in Procs \ {p} : Reading(q)'
    BY <1>1, <1>2, <1>3, <1>5, <2>1, <2>2 DEF Reading
  <2> QED BY <1>1, <1>2, <1>5, <2>1, <2>3, <2>4 DEF IndexOK
<1>6. CASE pc'[p] = "build" /\ indexMu' = p /\ index' = EntriesOf(live["zone"])
  <2>1. Current' /\ \A q \in Procs : job[q] = "lookup" => Built(q)'
    BY <1>1, <1>3, <1>6 DEF Current, Built
  <2>2. p # Nobody
    BY ContentFacts
  <2>3. Reading(p)'
    BY <1>1, <1>3, <1>4, <1>6, <2>1 DEF Reading
  <2>4. ASSUME NEW q \in Procs \ {p} PROVE Reading(q)'
    <3>1. pc[q] # "build"
      BY <1>1, <1>3, ContentFacts DEF Reading
    <3>2. pc[q] \in {"lock", "answer"} => Built(q)'
      BY <1>3, <2>1 DEF Fits
    <3> QED BY <1>1, <1>3, <1>6, <2>2, <3>1, <3>2 DEF Reading
  <2> QED BY <1>1, <1>6, <2>2, <2>3, <2>4 DEF IndexOK
<1> QED BY <1>1, <1>5, <1>6

LEMMA IndexStore ==
    ASSUME CachesTypeOK, StepOK, IndexOK, Watch, NEW p \in Procs, StoreFP(p)
    PROVE  IndexOK'
<1>1. /\ pc[p] = "build" /\ pc'[p] = "answer" /\ indexFP' = got[p] /\ indexMu' = Nobody
      /\ UNCHANGED <<live, mtime, index, job, got>>
      /\ \A q \in Procs \ {p} : pc'[q] = pc[q]
  BY DEF StoreFP, At, Goto, disk, world, CachesTypeOK, RequestTypes
<1>2. Fingerprint' = Fingerprint /\ Current' = Current
  BY <1>1 DEF Fingerprint, Current
<1>3. \A q \in Procs : /\ Reading(q) /\ Fits(q)
                       /\ job[q] = "lookup" => seen[q] \subseteq seen'[q] /\ live["zone"] \in seen'[q]
  BY <1>1, WatchSees DEF IndexOK, StepOK
<1>4. indexMu = p /\ p # Nobody /\ (got[p] = Fingerprint => Current) /\ (got[p] \in Nat => got[p] <= mtime)
  BY <1>1, <1>3, ContentFacts DEF Reading
<1>5. ASSUME NEW q \in Procs PROVE Reading(q)'
  <2>1. q # p => pc[q] # "build"
    BY <1>3, <1>4 DEF Reading
  <2>2. pc[q] \in {"lock", "build", "answer"} => Built(q)'
    <3>1. pc[q] \in {"lock", "build", "answer"} => Built(q) /\ job[q] = "lookup"
      BY <1>3, <1>4 DEF Reading, Fits
    <3> QED BY <1>1, <1>3, <3>1 DEF Built
  <2> QED BY <1>1, <1>3, <2>1, <2>2 DEF Reading
<1> QED BY <1>1, <1>2, <1>4, <1>5 DEF IndexOK

LEMMA IndexNext ==
    ASSUME CachesTypeOK, StepOK, FilesOK, AuditOK, IndexOK, [Next]_vars
    PROVE  IndexOK'
<1>0. ListMoves
  BY ListNext
<1>1. ASSUME NEW p \in Procs, Step(p) PROVE IndexOK'
  <2>0. Others(p) /\ Watch
    BY <1>1, RequestSteps DEF Step
  <2>1. CASE Check(p)
    BY <1>0, <2>0, <2>1, IndexCheck
  <2>2. CASE BuildIndex(p)
    BY <2>0, <2>2, IndexBuild
  <2>3. CASE StoreFP(p)
    BY <2>0, <2>3, IndexStore
  <2>4. CASE AnswerLookup(p)
    <3>1. pc[p] = "answer" /\ pc'[p] = "idle" /\ UNCHANGED <<index, indexFP, indexMu>>
      BY <2>4, EndMoves DEF AnswerLookup, At
    <3> QED BY <1>0, <2>0, <3>1, IndexKept DEF Others
  <2>5. CASE Stat(p) \/ Fetch(p) \/ Fallback(p) \/ Render(p)
    <3>1. UNCHANGED <<index, indexFP, indexMu>>
      BY <2>5, StepEnsure DEF StepOK
    <3>2. pc[p] # "build"
      BY <2>5 DEF Stat, Fetch, Fallback, Render, At
    <3>3. pc'[p] \in {"render", "fetch", "open", "fallback", "idle"}
      BY <2>5, OnMoves, EndMoves, PathFacts DEF Stat, Fetch, Fallback, Render, Steps
    <3> QED BY <1>0, <2>0, <3>1, <3>2, <3>3, IndexKept DEF Others
  <2>6. CASE Open(p) \/ Write(p) \/ RenameTmp(p)
    <3>1. UNCHANGED <<index, indexFP, indexMu>>
      BY <2>6, StepReplace DEF StepOK
    <3>2. pc[p] # "build" /\ path[p] \in Paths
      BY <2>6 DEF Open, Write, RenameTmp, At, CachesTypeOK, RequestTypes
    <3>3. pc'[p] \in {"write", "rename", "render", "fallback", "idle"}
      BY <2>6, <3>2, OnMoves, EndMoves, GiveUpEnds, PathFacts DEF Open, Write, RenameTmp, Steps
    <3> QED BY <1>0, <2>0, <3>1, <3>2, <3>3, IndexKept DEF Others
  <2>7. CASE Posture(p) \/ Load(p)
    <3>1. UNCHANGED <<index, indexFP, indexMu>>
      BY <2>7, StepAudit DEF StepOK
    <3>2. pc[p] # "build"
      BY <2>7 DEF Posture, Load, At
    <3>3. pc'[p] \in {"load", "open", "idle"}
      BY <2>7, OnMoves, EndMoves, LoadSteps, PathFacts DEF Posture, Steps
    <3> QED BY <1>0, <2>0, <3>1, <3>2, <3>3, IndexKept DEF Others
  <2> QED BY <1>1, <2>1, <2>2, <2>3, <2>4, <2>5, <2>6, <2>7 DEF Step
<1>2. ASSUME NEW p \in Procs, Ensure(p) \/ Lookup(p) \/ Audit(p), Watch PROVE IndexOK'
  <2>1. /\ pc[p] = "idle" /\ pc'[p] \in {"stat", "check", "posture"} /\ Others(p)
        /\ UNCHANGED <<index, indexFP, indexMu>>
    BY <1>2, BeginMoves DEF memory
  <2> QED BY <1>0, <1>2, <2>1, IndexKept DEF Others
<1>3. ASSUME NEW p \in Procs, WriteFails(p), Watch PROVE IndexOK'
  <2>1. /\ pc[p] # "build" /\ pc'[p] \in {"idle", "fallback"} /\ Others(p)
        /\ UNCHANGED <<index, indexFP, indexMu>>
    BY <1>3, StepReplace, GiveUpEnds DEF WriteFails, StepOK
  <2> QED BY <1>0, <1>3, <2>1, IndexKept DEF Others
<1>4. CASE Crash
  <2>1. \A q \in Procs : pc'[q] = "idle" /\ job'[q] = "none"
    BY <1>4 DEF Crash
  <2>2. index' = Absent /\ indexFP' = Absent /\ indexMu' = Nobody
    BY <1>4 DEF Crash
  <2>3. Absent = Fingerprint' => Current'
    <3>1. mtime' \in Nat
      BY <1>0 DEF ListMoves, CachesTypeOK, FileTypes
    <3> QED BY <2>2, <3>1, ContentFacts DEF Fingerprint, Current, EntriesOf
  <2> QED BY <2>1, <2>2, <2>3, ContentFacts DEF IndexOK, Reading
<1>5. CASE (Age \/ Publish) /\ Watch
  <2>1. UNCHANGED <<index, indexFP, indexMu, pc, job, got>>
    BY <1>5 DEF Age, Publish, Outside, memory
  <2> QED BY <1>0, <1>5, <2>1, IndexKept
<1>6. CASE UNCHANGED vars
  <2>1. UNCHANGED <<index, indexFP, indexMu, pc, job, got, live, mtime, seen>>
    BY <1>6 DEF vars
  <2> QED BY <2>1 DEF IndexOK, Reading, Built, Current, Fingerprint
<1> QED BY <1>1, <1>2, <1>3, <1>4, <1>5, <1>6 DEF Next, Arrive, Trouble

-----------------------------------------------------------------------------
(* What follows. *)

LEMMA InvInit == Init => CachesInv
<1> SUFFICES ASSUME Init PROVE CachesInv
  OBVIOUS
<1>1. CachesTypeOK
  BY TypeInit
<1>2. \A p \in Procs : pc[p] = "idle" /\ job[p] = "none" /\ cached[p] = FALSE
  BY DEF Init
<1>3. StepOK /\ CachedOK
  BY <1>2 DEF StepOK, Fits, Replacing, CachedOK
<1>4. PICK c \in {Absent, List(1)} : live = [f \in Paths |-> IF f = "history" THEN Absent ELSE c]
  BY DEF Init
<1>5. live["history"] = Absent /\ live["zone"] \in Usable \cup {Absent} /\ live["ipset"] \in Usable \cup {Absent}
  <2>1. List(1) \in Usable
    BY CachesAssumption, ContentFacts
  <2> QED BY <1>4, <2>1, PathFacts
<1>6. FilesOK /\ AuditOK
  BY <1>2, <1>5, PathFacts, ContentFacts DEF Init, FilesOK, TmpOK, AuditOK, Writing, Replacing
<1>7. IndexOK
  <2>1. indexMu = Nobody /\ indexFP = Absent /\ index = Absent /\ mtime = 0
    BY DEF Init
  <2>2. indexFP = Fingerprint => Current
    BY <2>1, ContentFacts DEF Fingerprint, Current, EntriesOf
  <2> QED BY <1>2, <2>1, <2>2, ContentFacts DEF IndexOK, Reading
<1> QED BY <1>1, <1>3, <1>6, <1>7 DEF CachesInv

LEMMA InvNext == CachesInv /\ [Next]_vars => CachesInv'
  BY TypeNext, FilesNext, AuditNext, CachedNext, IndexNext DEF CachesInv

\* The files, the locks and the requests stay consistent: the invariant behind
\* what geo.Manager and audit.History promise.
THEOREM CachesInvariant == Spec => []CachesInv
<1>1. Init => CachesInv
  BY InvInit
<1>2. CachesInv /\ [Next]_vars => CachesInv'
  BY InvNext
<1> QED BY <1>1, <1>2, PTL DEF Spec

\* No list, ipset or history is left cut off or empty: writeFileAtomic and
\* rules.writeAtomic replace a file as a whole unless two writers meet, and at
\* the history auditMu keeps them apart.
THEOREM FilesStayWhole == Spec => []FilesWhole
<1>1. CachesInv => FilesWhole
  BY ContentFacts DEF CachesInv, FilesOK, AuditOK, FilesWhole
<1> QED BY <1>1, CachesInvariant, PTL

\* geo.Manager.Lookup answers from a list that was there while it ran.
THEOREM LookupsAreCurrent == Spec => []LookupIsCurrent
<1>1. CachesInv => LookupIsCurrent
  <2> SUFFICES ASSUME CachesInv, NEW p \in Procs, pc[p] = "answer", indexMu = Nobody
               PROVE  index \in {EntriesOf(c) : c \in seen[p]}
    BY DEF LookupIsCurrent, At
  <2>1. Built(p)
    BY DEF CachesInv, IndexOK, Reading
  <2> QED BY <2>1 DEF Built
<1> QED BY <1>1, CachesInvariant, PTL

\* The history gains one row at a time: GET /api/audit reads and writes it
\* under auditMu.
THEOREM HistoryOnlyGrows == Spec => HistoryGrows
<1> DEFINE Grows == live'["history"] # live["history"] =>
          LET h == IF live["history"] = Absent THEN <<>> ELSE live["history"]
          IN  \E s \in Statuses :
                  (h = <<>> \/ Newest(h) # s) /\ live'["history"] = Recorded(h, s)
<1>1. CachesInv /\ [Next]_vars => Grows
  BY AuditNext DEF CachesInv, NewRow, History
<1>2. CachesInv /\ [Next]_vars => [Grows]_vars
  BY <1>1
<1>3. Spec => [][Grows]_vars
  BY <1>2, CachesInvariant, PTL DEF Spec
<1> QED BY <1>3 DEF HistoryGrows

\* What a step answers for want of a list.
LEMMA Failing ==
    ASSUME CachesInv, [Next]_vars, NEW p \in Procs, 
           reply[p] = "none", reply'[p] \in {"no_cache", "no_cidr"}
    PROVE  ~cached[p] \/ overlap["zone"] \/ live["zone"] = Junk
<1>0. CachesTypeOK /\ StepOK /\ FilesOK /\ AuditOK /\ CachedOK
  BY DEF CachesInv
<1>1. ASSUME NEW q \in Procs, Step(q) PROVE ~cached[p] \/ overlap["zone"] \/ live["zone"] = Junk
  <2>1. q = p
    BY <1>0, <1>1, RequestSteps DEF Others
  <2>2. CASE Fallback(p) /\ live["zone"] = Absent
    BY <1>0, <2>2 DEF CachedOK
  <2>3. CASE Render(p) /\ live["zone"] \notin Usable \cup {Torn}
    BY <1>0, <2>3, ContentFacts DEF CachedOK, FilesOK
  <2>4. CASE \E step \in Steps, file \in Paths : \E c : On(p, step, file, c)
    BY <1>0, <2>4, OnMoves
  <2>5. CASE End(p, "none") \/ End(p, "disk")
    BY <1>0, <2>5, EndMoves
  <2>6. CASE UNCHANGED reply
    BY <2>6
  <2>7. path[p] \in Paths
    BY <1>0 DEF CachesTypeOK, RequestTypes
  <2>8. CASE Stat(p) \/ Fetch(p) \/ Open(p) \/ Write(p) \/ Check(p) \/ Posture(p)
    BY <2>4, <2>7, <2>8, PathFacts DEF Stat, Fetch, Open, Write, Check, Posture, Steps
  <2>9. CASE RenameTmp(p) \/ AnswerLookup(p) \/ Load(p)
    BY <2>4, <2>5, <2>6, <2>9, PathFacts DEF RenameTmp, GiveUp, AnswerLookup, Load, Steps
  <2>10. CASE BuildIndex(p) \/ StoreFP(p)
    BY <2>6, <2>10 DEF BuildIndex, StoreFP
  <2>11. CASE Fallback(p) /\ live["zone"] # Absent
    BY <2>4, <2>11, PathFacts DEF Fallback, Steps
  <2>12. CASE Render(p) /\ live["zone"] \in Usable \cup {Torn}
    BY <2>4, <2>12, PathFacts DEF Render, Steps
  <2> QED BY <1>1, <2>1, <2>2, <2>3, <2>8, <2>9, <2>10, <2>11, <2>12 DEF Step
<1>2. ASSUME NEW q \in Procs, Ensure(q) \/ Lookup(q) \/ Audit(q) PROVE FALSE
  BY <1>0, <1>2, BeginMoves DEF Others
<1>3. ASSUME NEW q \in Procs, WriteFails(q) PROVE FALSE
  <2>1. End(q, "disk") \/ On(q, "fallback", "zone", Absent)
    BY <1>3 DEF WriteFails, GiveUp
  <2> QED BY <1>0, <2>1, EndMoves, OnMoves, PathFacts DEF Steps, Others
<1>4. ASSUME Crash \/ Age \/ Publish \/ UNCHANGED vars PROVE FALSE
  <2>1. reply'[p] = "none"
    BY <1>4 DEF Crash, Age, Publish, Outside, vars
  <2> QED BY <2>1
<1> QED BY <1>1, <1>2, <1>3, <1>4 DEF Next, Arrive, Trouble

\* geo.Manager.Ensure tolerates a failed download when a list is cached.
THEOREM CacheOutlives == Spec => CacheOutlivesNetwork
<1> DEFINE Tolerated == \A p \in Procs :
          (reply[p] = "none" /\ reply'[p] \in {"no_cache", "no_cidr"})
              => ~cached[p] \/ overlap["zone"] \/ live["zone"] = Junk
<1>1. CachesInv /\ [Next]_vars => Tolerated
  BY Failing
<1>2. CachesInv /\ [Next]_vars => [Tolerated]_vars
  BY <1>1
<1>3. Spec => [][Tolerated]_vars
  BY <1>2, CachesInvariant, PTL DEF Spec
<1> QED BY <1>3 DEF CacheOutlivesNetwork
=============================================================================
