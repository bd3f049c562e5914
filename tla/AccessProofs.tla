---------------------------- MODULE AccessProofs ----------------------------
(* What a request to the API passes, for every value of the constants: the *)
(* rate limiter (AggregateCeiling, ClientCeiling and FewClientsPass of     *)
(* Limiter), the session check (RevokedDies and PublishedWorks of          *)
(* KeyCache) and the gateway's route (RouteTypeOK and RouteReturns of      *)
(* Gateway).  The three share no state, and so do their proofs.            *)
EXTENDS Limiter, KeyCache, Gateway, TLAPS, WellFoundedInduction, FiniteSetTheorems

-----------------------------------------------------------------------------
(* Limiter, for any number of clients and requests and any rates.  What a  *)
(* bucket has given out since the observer began and what it holds now are *)
(* together within its capacity and what time has brought (Fills), and a   *)
(* client's bucket changes only with its being evicted (ClientDue).        *)

\* The later of a time and the beginning of the observation.
Counted(t) == IF t < since THEN since ELSE t

\* Bucket b has given n tokens since the observer began.
Fills(b, n, rate, most) ==
    /\ Cost * n + b.tokens <= most + rate * (Counted(b.last) - since)
    /\ b.last < since => n = 0

Past ==
    /\ since <= now /\ aggregate.last <= now
    /\ \A b \in Buckets : bucket[b].last <= now

Working == \A p \in Procs : pc[p] # "idle" => client[p] \in Clients /\ mine[p] \in Buckets

AggregateDue == Fills(aggregate, passed, AggRate, AggCapacity)

Followed == whom \in Clients /\ table[whom] \in Buckets
ClientDue ==
    /\ Followed => Fills(bucket[table[whom]], taken, Rate, Capacity)
    /\ ~Followed => taken = 0

LimitInv == LimitTypeOK /\ Past /\ Working /\ AggregateDue /\ ClientDue

----------------------------------------------------------------------------
(* Buckets. *)

LEMMA BucketFields ==
    ASSUME NEW most \in Nat, NEW b \in BucketOf(most)
    PROVE  b.tokens \in 0..most /\ b.last \in 0..MaxNow
  BY DEF BucketOf

\* A bucket that has not given any token.
LEMMA FreshFills ==
    ASSUME NEW most \in Nat, NEW rate \in Nat, NEW b \in BucketOf(most), since \in Nat
    PROVE  Fills(b, 0, rate, most)
<1>1. b.tokens \in Int /\ b.tokens <= most /\ Counted(b.last) - since \in Nat /\ Cost * 0 = 0
  BY BucketFields, LimiterAssumption, SMT DEF Counted
<1>2. \A x \in Nat : rate * x \in Nat
  BY SMT
<1> QED
  BY <1>1, <1>2, SMT DEF Fills

\* Refilling a bucket keeps the account, and so does giving a token, counted or
\* not.
LEMMA RefillFills ==
    ASSUME NEW most \in Nat, NEW rate \in Nat, NEW b \in BucketOf(most), NEW n \in Nat,
           now \in 0..MaxNow, since \in Nat, since <= now, b.last <= now
    PROVE  /\ Refilled(b, rate, most) \in BucketOf(most)
           /\ Refilled(b, rate, most).last = now
           /\ Fills(b, n, rate, most) => Fills(Refilled(b, rate, most), n, rate, most)
<1> DEFINE r == Refilled(b, rate, most)
<1>0. b.tokens \in 0..most /\ b.last \in 0..MaxNow /\ MaxNow \in Nat /\ Cost \in Nat
  BY BucketFields, LimiterAssumption
<1>1. PICK gain \in Nat : gain = (now - b.last) * rate
  <2>1. now - b.last \in Nat
    BY <1>0, SMT
  <2>2. \A x \in Nat : x * rate \in Nat
    BY SMT
  <2> QED
    BY <2>1, <2>2
<1>2. r.last = now /\ r.tokens = AtMost(most, b.tokens + gain) /\ r = [tokens |-> r.tokens, last |-> r.last]
  BY <1>1 DEF Refilled
<1>3. r.tokens \in 0..most /\ r.tokens <= b.tokens + gain
  BY <1>0, <1>2, SMT DEF AtMost
<1>4. r \in BucketOf(most)
  BY <1>2, <1>3 DEF BucketOf
<1>5. ASSUME Fills(b, n, rate, most) PROVE Fills(r, n, rate, most)
  <2>1. Counted(r.last) = now
    BY <1>2, <1>0, SMT DEF Counted
  <2>2. CASE b.last < since
    <3>1. n = 0 /\ Cost * n = 0
      BY <1>0, <1>5, <2>2, SMT DEF Fills
    <3>2. rate * (now - since) \in Nat
      <4>1. now - since \in Nat
        BY <1>0, SMT
      <4>2. \A x \in Nat : rate * x \in Nat
        BY SMT
      <4> QED
        BY <4>1, <4>2
    <3> QED
      BY <1>2, <1>3, <2>1, <3>1, <3>2, SMT DEF Fills
  <2>3. CASE ~(b.last < since)
    <3>1. Counted(b.last) = b.last
      BY <2>3 DEF Counted
    <3>2. Cost * n + b.tokens <= most + rate * (b.last - since)
      BY <1>5, <3>1 DEF Fills
    <3>3. rate * (now - since) = gain + rate * (b.last - since)
      BY <1>0, <1>1, SMT
    <3>4. Cost * n \in Int /\ rate * (b.last - since) \in Int
      BY <1>0, SMT
    <3>5. Cost * n + r.tokens <= most + rate * (now - since)
      BY <1>0, <1>3, <3>2, <3>3, <3>4, SMT
    <3>6. ~(r.last < since)
      BY <1>0, <1>2, SMT
    <3> QED
      BY <2>1, <3>5, <3>6 DEF Fills
  <2> QED
    BY <2>2, <2>3
<1> QED
  BY <1>2, <1>4, <1>5

LEMMA LessFills ==
    ASSUME NEW most \in Nat, NEW rate \in Nat, NEW b \in BucketOf(most), NEW n \in Nat,
           since \in Nat, Has(b)
    PROVE  /\ Less(b) \in BucketOf(most) /\ Less(b).last = b.last
           /\ Fills(b, n, rate, most) => Fills(Less(b), n, rate, most)
           /\ Fills(b, n, rate, most) /\ since <= b.last => Fills(Less(b), n + 1, rate, most)
<1>1. b.tokens \in 0..most /\ b.last \in 0..MaxNow /\ MaxNow \in Nat /\ Cost \in Nat /\ Cost > 0
  BY BucketFields, LimiterAssumption, SMT
<1>2. Less(b) = [tokens |-> b.tokens - Cost, last |-> b.last]
  BY DEF Less, BucketOf
<1>3. b.tokens - Cost \in 0..most
  BY <1>1, SMT DEF Has
<1>4. Less(b) \in BucketOf(most) /\ Less(b).last = b.last /\ Less(b).tokens = b.tokens - Cost
  BY <1>1, <1>2, <1>3 DEF BucketOf
<1>5. Cost * n \in Int /\ rate * (Counted(b.last) - since) \in Int /\ Cost * (n + 1) = Cost * n + Cost
  BY <1>1, SMT DEF Counted
<1>6. Fills(b, n, rate, most) => Fills(Less(b), n, rate, most)
  BY <1>1, <1>4, <1>5, SMT DEF Fills
<1>7. Fills(b, n, rate, most) /\ since <= b.last => Fills(Less(b), n + 1, rate, most)
  BY <1>1, <1>4, <1>5, SMT DEF Fills
<1> QED
  BY <1>4, <1>6, <1>7
----------------------------------------------------------------------------
(* The invariant. *)

LEMMA Constants ==
    /\ Cost \in Nat /\ Rate \in Nat /\ Capacity \in Nat /\ AggRate \in Nat /\ AggCapacity \in Nat
    /\ MaxNow \in Nat /\ MaxMade \in Nat /\ None \notin Buckets /\ None \notin Clients
  BY LimiterAssumption

LEMMA LimitInitially == LimitInit => LimitInv
<1> SUFFICES ASSUME LimitInit PROVE LimitInv
  OBVIOUS
<1>1. /\ 0 \in 0..MaxNow /\ 0 \in 0..Capacity /\ 0 \in Nat /\ 0 \in 0..MaxMade
      /\ AggCapacity \in 0..AggCapacity /\ 0 <= 0
  BY Constants, SMT
<1>2. aggregate \in BucketOf(AggCapacity) /\ Unmade \in BucketOf(Capacity)
      /\ aggregate.last = 0 /\ Unmade.last = 0
  BY <1>1 DEF LimitInit, BucketOf, Unmade
<1>3. LimitTypeOK
  BY <1>1, <1>2 DEF LimitInit, LimitTypeOK
<1>4. Past /\ Working
  BY <1>1, <1>2 DEF LimitInit, Past, Working
<1>5. AggregateDue
  BY <1>1, <1>2, FreshFills, Constants DEF LimitInit, AggregateDue
<1>6. ClientDue
  BY Constants DEF LimitInit, ClientDue, Followed
<1> QED
  BY <1>3, <1>4, <1>5, <1>6 DEF LimitInv

LEMMA KnownStep == ASSUME LimitInv, NEW p \in Procs, NEW c \in Clients, Known(p, c) PROVE LimitInv'
<1> USE DEF LimitInv
<1>1. /\ pc' = [pc EXCEPT ![p] = "own"] /\ client' = [client EXCEPT ![p] = c]
      /\ mine' = [mine EXCEPT ![p] = table[c]] /\ lastSeen' = [lastSeen EXCEPT ![c] = now]
      /\ now' = now /\ aggregate' = aggregate /\ stalled' = stalled /\ table' = table
      /\ bucket' = bucket /\ since' = since /\ whom' = whom /\ passed' = passed /\ taken' = taken
      /\ made' = made /\ table[c] # None
  BY DEF Known, Found, observer
<1>2. table[c] \in Buckets
  BY <1>1 DEF LimitTypeOK
<1>3. LimitTypeOK'
  BY <1>1, <1>2 DEF LimitTypeOK
<1>4. Past' /\ Working'
  BY <1>1, <1>2 DEF Past, Working, LimitTypeOK
<1>5. AggregateDue' /\ ClientDue'
  BY <1>1 DEF AggregateDue, ClientDue, Followed, Fills, Counted
<1> QED
  BY <1>3, <1>4, <1>5

\* A new bucket is full; the bucket of every other client that keeps its own
\* stays as it is.
LEMMA NewStep == ASSUME LimitInv, NEW p \in Procs, NEW c \in Clients, New(p, c) PROVE LimitInv'
<1> USE DEF LimitInv
<1>1. PICK b \in Buckets, o \in {None} \cup Clients :
         /\ (IF Cardinality(Tracked) < MaxTracked THEN o = None ELSE Oldest(o))
         /\ Make(p, c, b, o) /\ taken' = (IF o = whom THEN 0 ELSE taken)
         /\ UNCHANGED <<since, whom, passed>>
  BY DEF New
<1>2. /\ b \in Buckets \ InUse /\ table[c] = None
      /\ pc' = [pc EXCEPT ![p] = "own"] /\ client' = [client EXCEPT ![p] = c]
      /\ mine' = [mine EXCEPT ![p] = b] /\ table' = [Evict(o) EXCEPT ![c] = b]
      /\ bucket' = [x \in Buckets |-> IF x = b THEN [tokens |-> Capacity, last |-> now]
                                      ELSE IF x \in InUse THEN bucket[x] ELSE Unmade]
      /\ lastSeen' = [d \in Clients |-> IF d = c THEN now ELSE IF d = o THEN 0 ELSE lastSeen[d]]
      /\ made' = AtMost(MaxMade, made + 1)
      /\ now' = now /\ aggregate' = aggregate /\ stalled' = stalled
      /\ since' = since /\ whom' = whom /\ passed' = passed
  BY <1>1 DEF New, Make, Found
<1>3. /\ 0 \in 0..MaxNow /\ 0 \in Nat /\ made' \in 0..MaxMade /\ Capacity \in 0..Capacity
      /\ 0 \in 0..Capacity /\ 0 <= now /\ now <= now
  BY <1>2, Constants, SMT DEF LimitTypeOK, AtMost
<1>4. /\ Unmade \in BucketOf(Capacity) /\ Unmade.last = 0
      /\ [tokens |-> Capacity, last |-> now] \in BucketOf(Capacity)
      /\ [tokens |-> Capacity, last |-> now].last = now
  BY <1>3 DEF BucketOf, Unmade, LimitTypeOK
<1>5. /\ table' \in [Clients -> Buckets \cup {None}] /\ table'[c] = b
      /\ \A d \in Clients \ {c, o} : table'[d] = table[d]
      /\ o # c => o = None \/ table'[o] = None
  BY <1>2, Constants DEF Evict, LimitTypeOK
<1>6. LimitTypeOK'
  <2>1. bucket' \in [Buckets -> BucketOf(Capacity)]
    BY <1>2, <1>4 DEF LimitTypeOK
  <2>2. lastSeen' \in [Clients -> 0..MaxNow]
    BY <1>2, <1>3 DEF LimitTypeOK
  <2>3. taken' \in Nat
    BY <1>1, <1>3 DEF LimitTypeOK
  <2> QED
    BY <1>2, <1>3, <1>5, <2>1, <2>2, <2>3 DEF LimitTypeOK
<1>7. Past' /\ Working'
  BY <1>2, <1>3, <1>4 DEF Past, Working, LimitTypeOK
<1>8. AggregateDue'
  BY <1>2 DEF AggregateDue, Fills, Counted
<1>9. ClientDue'
  <2>1. c # o
    BY <1>1, <1>2, Constants DEF Oldest, Tracked
  <2>2. CASE whom = c
    <3>1. taken = 0 /\ taken' = 0
      BY <1>1, <1>2, <2>2, Constants DEF ClientDue, Followed
    <3>2. bucket'[b] \in BucketOf(Capacity)
      BY <1>2, <1>4
    <3>3. Fills(bucket'[b], 0, Rate, Capacity)
      BY <3>2, FreshFills, Constants, SMT DEF LimitTypeOK
    <3> QED
      BY <1>2, <1>5, <2>2, <3>1, <3>3 DEF ClientDue, Followed, Fills, Counted
  <2>3. CASE whom = o
    BY <1>1, <1>2, <1>5, <2>1, <2>3, Constants DEF ClientDue, Followed
  <2>4. CASE whom # c /\ whom # o
    <3>1. taken' = taken
      BY <1>1, <2>4
    <3>2. Followed' <=> Followed
      BY <1>2, <1>5, <2>4 DEF Followed
    <3>3. ASSUME Followed PROVE table'[whom] = table[whom] /\ bucket'[table[whom]] = bucket[table[whom]]
      <4>1. table[whom] \in InUse /\ table'[whom] = table[whom]
        BY <1>5, <2>4, <3>3, Constants DEF Followed, InUse, Tracked
      <4> QED
        BY <1>2, <3>3, <4>1 DEF Followed
    <3> QED
      BY <1>2, <3>1, <3>2, <3>3 DEF ClientDue, Fills, Counted
  <2> QED
    BY <2>2, <2>3, <2>4
<1> QED
  BY <1>6, <1>7, <1>8, <1>9
\* A bucket x takes the place of the one the request found: it keeps that
\* bucket's account, and one more token on it if one is counted.
LEMMA OwnAccount ==
    ASSUME LimitInv, NEW p \in Procs, pc[p] = "own", NEW x \in BucketOf(Capacity),
           bucket' = [bucket EXCEPT ![mine[p]] = x],
           UNCHANGED <<since, whom, table>>, taken' \in Nat,
           taken' = taken \/ (Followed /\ mine[p] = table[whom]),
           Followed /\ mine[p] = table[whom] => Fills(x, taken', Rate, Capacity)
    PROVE  ClientDue'
<1>1. mine[p] \in Buckets
  BY DEF LimitInv, Working
<1>2. CASE Followed /\ mine[p] = table[whom]
  BY <1>1, <1>2 DEF LimitInv, LimitTypeOK, ClientDue, Followed, Fills, Counted
<1>3. CASE ~(Followed /\ mine[p] = table[whom])
  <2>1. taken' = taken
    BY <1>3
  <2>2. ASSUME Followed PROVE bucket'[table[whom]] = bucket[table[whom]]
    BY <1>1, <1>3, <2>2 DEF Followed, LimitInv, LimitTypeOK
  <2> QED
    BY <2>1, <2>2 DEF LimitInv, ClientDue, Followed, Fills, Counted
<1> QED
  BY <1>2, <1>3

LEMMA OwnStep == ASSUME LimitInv, NEW p \in Procs, Own(p) PROVE LimitInv'
<1> USE DEF LimitInv
<1> DEFINE b == Refilled(bucket[mine[p]], Rate, Capacity)
<1>1. /\ pc[p] = "own" /\ now' = now /\ table' = table /\ lastSeen' = lastSeen
      /\ aggregate' = aggregate /\ since' = since /\ whom' = whom /\ passed' = passed
      /\ made' = made /\ stalled' = stalled
  BY DEF Own
<1>2. /\ client[p] \in Clients /\ mine[p] \in Buckets /\ bucket[mine[p]] \in BucketOf(Capacity)
      /\ bucket[mine[p]].last <= now /\ now \in 0..MaxNow /\ since \in Nat /\ since <= now
      /\ taken \in Nat
  BY <1>1, Constants, SMT DEF Working, Past, LimitTypeOK
<1>3. /\ b \in BucketOf(Capacity) /\ b.last = now
      /\ \A n \in Nat : Fills(bucket[mine[p]], n, Rate, Capacity) => Fills(b, n, Rate, Capacity)
  BY <1>2, RefillFills, Constants
<1>4. Followed /\ mine[p] = table[whom] => Fills(b, taken, Rate, Capacity)
  BY <1>2, <1>3 DEF ClientDue
<1>5. CASE /\ Has(b) /\ bucket' = [bucket EXCEPT ![mine[p]] = Less(b)]
           /\ taken' = taken + (IF client[p] = whom /\ mine[p] = table[whom] THEN 1 ELSE 0)
           /\ pc' = [pc EXCEPT ![p] = "shared"] /\ UNCHANGED <<client, mine>>
  <2>1. /\ Less(b) \in BucketOf(Capacity) /\ Less(b).last = now
        /\ Fills(b, taken, Rate, Capacity) => Fills(Less(b), taken, Rate, Capacity)
        /\ Fills(b, taken, Rate, Capacity) => Fills(Less(b), taken + 1, Rate, Capacity)
    BY <1>2, <1>3, <1>5, LessFills, Constants
  <2>2. taken' \in Nat /\ (taken' = taken \/ taken' = taken + 1)
    BY <1>2, <1>5, SMT
  <2>3. taken' = taken \/ (client[p] = whom /\ mine[p] = table[whom])
    BY <1>2, <1>5, SMT
  <2>4. ClientDue'
    <3>1. taken' = taken \/ (Followed /\ mine[p] = table[whom])
      BY <1>2, <2>3 DEF Followed
    <3>2. Followed /\ mine[p] = table[whom] => Fills(Less(b), taken', Rate, Capacity)
      BY <1>4, <2>1, <2>2
    <3> QED
      BY <1>1, <1>5, <2>1, <2>2, <3>1, <3>2, OwnAccount
  <2>5. LimitTypeOK'
    BY <1>1, <1>5, <2>1, <2>2 DEF LimitTypeOK
  <2>6. Past' /\ Working'
    BY <1>1, <1>2, <1>5, <2>1 DEF Past, Working, LimitTypeOK
  <2>7. AggregateDue'
    BY <1>1 DEF AggregateDue, Fills, Counted
  <2> QED
    BY <2>4, <2>5, <2>6, <2>7
<1>6. CASE /\ ~Has(b) /\ bucket' = [bucket EXCEPT ![mine[p]] = b]
           /\ Done(p) /\ UNCHANGED taken
  <2>1. ClientDue'
    BY <1>1, <1>2, <1>3, <1>4, <1>6, OwnAccount
  <2>2. LimitTypeOK'
    BY <1>1, <1>3, <1>6 DEF LimitTypeOK, Done
  <2>3. Past' /\ Working'
    BY <1>1, <1>2, <1>3, <1>6 DEF Past, Working, LimitTypeOK, Done
  <2>4. AggregateDue'
    BY <1>1 DEF AggregateDue, Fills, Counted
  <2> QED
    BY <2>1, <2>2, <2>3, <2>4
<1> QED
  BY <1>5, <1>6 DEF Own

LEMMA SharedStep == ASSUME LimitInv, NEW p \in Procs, Shared(p) PROVE LimitInv'
<1> USE DEF LimitInv
<1> DEFINE b == Refilled(aggregate, AggRate, AggCapacity)
<1>1. /\ pc[p] = "shared" /\ now' = now /\ table' = table /\ lastSeen' = lastSeen
      /\ bucket' = bucket /\ since' = since /\ whom' = whom /\ taken' = taken
      /\ made' = made /\ stalled' = stalled /\ Done(p)
  BY DEF Shared
<1>2. /\ aggregate \in BucketOf(AggCapacity) /\ aggregate.last <= now /\ now \in 0..MaxNow
      /\ since \in Nat /\ since <= now /\ passed \in Nat /\ passed + 1 \in Nat
  BY Constants, SMT DEF Past, LimitTypeOK
<1>3. b \in BucketOf(AggCapacity) /\ b.last = now /\ Fills(b, passed, AggRate, AggCapacity)
  BY <1>2, RefillFills, Constants DEF AggregateDue
<1>4. /\ aggregate' \in BucketOf(AggCapacity) /\ aggregate'.last = now /\ passed' \in Nat
      /\ Fills(aggregate', passed', AggRate, AggCapacity)
  <2>1. CASE Has(b) /\ aggregate' = Less(b) /\ passed' = passed + 1
    BY <1>2, <1>3, <2>1, LessFills, Constants
  <2>2. CASE ~Has(b) /\ aggregate' = b /\ UNCHANGED passed
    BY <1>2, <1>3, <2>2
  <2> QED
    BY <2>1, <2>2 DEF Shared
<1>5. LimitTypeOK'
  BY <1>1, <1>4 DEF LimitTypeOK, Done
<1>6. Past' /\ Working'
  BY <1>1, <1>2, <1>4 DEF Past, Working, LimitTypeOK, Done
<1>7. AggregateDue' /\ ClientDue'
  BY <1>1, <1>4 DEF AggregateDue, ClientDue, Followed, Fills, Counted
<1> QED
  BY <1>5, <1>6, <1>7

LEMMA TickStep == ASSUME LimitInv, Tick PROVE LimitInv'
<1>1. /\ now < MaxNow /\ now' = now + 1
      /\ stalled' = (stalled \/ \E p \in Procs : pc[p] # "idle")
      /\ UNCHANGED <<table, lastSeen, bucket, aggregate, pc, client, mine, observer, made>>
  BY DEF Tick
<1>2. now' \in 0..MaxNow
  BY <1>1, Constants, SMT DEF LimitInv, LimitTypeOK
<1>3. stalled' \in BOOLEAN
  BY <1>1
<1>4. LimitTypeOK'
  BY <1>1, <1>2, <1>3 DEF LimitInv, LimitTypeOK, observer
<1>5. Past'
  <2>1. \A t \in Int : t <= now => t <= now'
    BY <1>1, Constants, SMT DEF LimitInv, LimitTypeOK
  <2>2. since \in Int /\ aggregate.last \in Int /\ \A b \in Buckets : bucket[b].last \in Int
    BY BucketFields, Constants, SMT DEF LimitInv, LimitTypeOK
  <2> QED
    BY <1>1, <2>1, <2>2 DEF LimitInv, Past, observer
<1>6. Working' /\ AggregateDue' /\ ClientDue'
  BY <1>1 DEF LimitInv, Working, AggregateDue, ClientDue, Followed, Fills, Counted, observer
<1> QED
  BY <1>4, <1>5, <1>6 DEF LimitInv

LEMMA ObserveStep == ASSUME LimitInv, NEW c \in Clients, Observe(c) PROVE LimitInv'
<1> USE DEF LimitInv
<1>1. /\ since' = now /\ whom' = c /\ passed' = 0 /\ taken' = 0
      /\ UNCHANGED <<now, table, lastSeen, bucket, aggregate, pc, client, mine, made, stalled>>
  BY DEF Observe
<1>2. 0 \in Nat /\ now \in Nat /\ now <= now
  BY Constants, SMT DEF LimitTypeOK
<1>3. LimitTypeOK' /\ Past' /\ Working'
  BY <1>1, <1>2 DEF LimitTypeOK, Past, Working
<1>4. ASSUME NEW most \in Nat, NEW rate \in Nat, NEW b \in BucketOf(most), b.last <= now
      PROVE  Fills(b, 0, rate, most)'
  <2>1. b.tokens \in 0..most /\ b.last \in 0..MaxNow
    BY BucketFields
  <2>2. Counted(b.last)' - since' = 0
    BY <1>1, <1>2, <1>4, <2>1, Constants, SMT DEF Counted
  <2>3. Cost * 0 = 0 /\ rate * 0 = 0
    BY Constants, SMT
  <2> QED
    BY <2>1, <2>2, <2>3, SMT DEF Fills
<1>5. AggregateDue'
  BY <1>1, <1>4, Constants DEF AggregateDue, Fills, Counted, LimitTypeOK, Past
<1>6. ClientDue'
  BY <1>1, <1>4, Constants DEF ClientDue, Followed, Fills, Counted, LimitTypeOK, Past
<1> QED
  BY <1>3, <1>5, <1>6

LEMMA LimitStep == LimitInv /\ [LimitNext]_limitVars => LimitInv'
<1> SUFFICES ASSUME LimitInv, [LimitNext]_limitVars PROVE LimitInv'
  OBVIOUS
<1>1. CASE LimitNext
  BY <1>1, KnownStep, NewStep, OwnStep, SharedStep, TickStep, ObserveStep DEF LimitNext
<1>2. CASE UNCHANGED limitVars
  BY <1>2 DEF limitVars, LimitInv, LimitTypeOK, Past, Working, AggregateDue, ClientDue, Followed,
     Fills, Counted
<1> QED
  BY <1>1, <1>2

\* The invariant behind the three: what was spent and what is left.
THEOREM LimitInductive == LimitSpec => []LimitInv
  BY LimitInitially, LimitStep, PTL DEF LimitSpec

----------------------------------------------------------------------------
\* No bucket is overfilled or overdrawn, and the table holds buckets only.
THEOREM LimitTypeCorrect == LimitSpec => []LimitTypeOK
<1>1. LimitInv => LimitTypeOK
  BY DEF LimitInv
<1> QED
  BY <1>1, LimitInductive, PTL

\* An account that holds bounds what was given by what time has allowed.
LEMMA AccountBounds ==
    ASSUME LimitInv, NEW most \in Nat, NEW rate \in Nat, NEW b \in BucketOf(most), NEW n \in Nat,
           b.last <= now, Fills(b, n, rate, most)
    PROVE  Cost * n <= most + rate * (now - since)
<1>1. /\ b.tokens \in 0..most /\ b.last \in 0..MaxNow /\ now \in Nat /\ since \in Nat
      /\ since <= now /\ Cost \in Nat
  BY BucketFields, Constants, SMT DEF LimitInv, LimitTypeOK, Past
<1>2. PICK early \in Nat : early = Counted(b.last) - since
  BY <1>1, SMT DEF Counted
<1>3. PICK late \in Nat : now - since = early + late
  <2>1. (now - since) - early \in Nat
    BY <1>1, <1>2, SMT DEF Counted
  <2>2. now - since = early + ((now - since) - early)
    BY <1>1, SMT
  <2> QED
    BY <2>1, <2>2
<1>4. rate * late \in Nat /\ rate * early \in Nat /\ rate * (early + late) = rate * early + rate * late
  BY SMT
<1>5. Cost * n \in Nat
  BY <1>1, SMT
<1> QED
  BY <1>1, <1>2, <1>3, <1>4, <1>5, SMT DEF Fills

\* The ceiling no choice of client keys evades (middleware.go:74-79).
THEOREM CeilingHolds == LimitSpec => []AggregateCeiling
<1>1. ASSUME LimitInv PROVE AggregateCeiling
  BY <1>1, AccountBounds, Constants DEF LimitInv, LimitTypeOK, Past, AggregateDue, AggregateCeiling
<1> QED
  BY <1>1, LimitInductive, PTL

\* Two concurrent requests of a client never get a bucket each.
THEOREM ClientBound == LimitSpec => []ClientCeiling
<1>1. ASSUME LimitInv PROVE ClientCeiling
  <2>1. CASE Followed
    BY <1>1, <2>1, AccountBounds, Constants
       DEF LimitInv, LimitTypeOK, Past, ClientDue, Followed, ClientCeiling
  <2>2. CASE ~Followed
    <3>1. taken = 0 /\ now - since \in Nat /\ Cost * 0 = 0
      BY <1>1, <2>2, Constants, SMT DEF LimitInv, LimitTypeOK, Past, ClientDue
    <3>2. \A x \in Nat : Capacity + Rate * x \in Nat
      BY Constants, SMT
    <3> QED
      BY <3>1, <3>2, SMT DEF ClientCeiling
  <2> QED
    BY <2>1, <2>2
<1> QED
  BY <1>1, LimitInductive, PTL

----------------------------------------------------------------------------
(* FewClientsPass.  While few clients have come, what the aggregate has    *)
(* given and not got back, with what the requests between their two tokens *)
(* will take of it, is within what the client buckets have given and not   *)
(* got back (Paid): a client's bucket gets its tokens back no faster than  *)
(* its share of the aggregate's rate.  Buckets that are evicted and        *)
(* collected count on, so the sum runs over all that were ever made, in    *)
(* the order of their making.                                              *)

\* A bucket's tokens as of now.
Holds(b) == Refilled(bucket[b], Rate, Capacity).tokens
SharedHolds == Refilled(aggregate, AggRate, AggCapacity).tokens

Used == InUse \ {None}
Sharing == {p \in Procs : pc[p] = "shared"}
Few == made * Capacity <= AggCapacity /\ made * Rate <= AggRate

\* s[i] - s[i-1] of bucket i is out, at most most of it: s adds up n of them.
AddsUp(s, n, most) ==
    /\ s \in [0..n -> Nat] /\ s[0] = 0
    /\ \A i \in 1..n : s[i-1] <= s[i] /\ s[i] <= s[i-1] + most

\* Bucket b is the number[b]-th that was made.
Paid(s, number) ==
    /\ AddsUp(s, made, Capacity)
    /\ number \in [Buckets -> Nat]
    /\ \A b \in Used : number[b] \in 1..made /\ s[number[b]] + Holds(b) <= s[number[b]-1] + Capacity
    /\ \A b, d \in Used : number[b] = number[d] => b = d
    /\ AggCapacity + Cost * Cardinality(Sharing) <= s[made] + SharedHolds

FewInv == LimitInv /\ (~stalled /\ Few => \E s, number : Paid(s, number))

LEMMA LeastNumber ==
    ASSUME NEW T, T \subseteq Nat, T # {}
    PROVE  \E x \in T : \A y \in T : x <= y
<1> DEFINE R == {ss \in Nat \X Nat : ss[1] < ss[2]}
<1>1. IsWellFoundedOn(R, Nat)
  BY NatLessThanWellFounded DEF OpToRel
<1>2. PICK x \in T : \A y \in T : ~ (<<y, x>> \in R)
  <2> HIDE DEF R
  <2> QED BY <1>1, WFMin
<1>3. \A y \in T : ~(y < x)
  BY <1>2
<1> QED
  BY <1>3

\* A sum of n parts is at most n times the largest.
LEMMA SumBounded ==
    ASSUME NEW n \in Nat, NEW most \in Nat, NEW s, AddsUp(s, n, most)
    PROVE  s[n] <= n * most
<1> DEFINE T == {k \in 0..n : ~(s[k] <= k * most)}
<1>1. SUFFICES ASSUME T # {} PROVE FALSE
  BY DEF T
<1>2. PICK k \in T : \A j \in T : k <= j
  <2>1. T \subseteq Nat
    OBVIOUS
  <2> HIDE DEF T
  <2> QED BY <1>1, <2>1, LeastNumber
<1>3. k \in 0..n /\ ~(s[k] <= k * most)
  OBVIOUS
<1>4. k # 0
  BY <1>3, SMT DEF AddsUp
<1>5. k - 1 \in 0..n /\ k \in 1..n /\ ~(k <= k - 1)
  BY <1>3, <1>4, SMT
<1>6. s[k-1] <= (k - 1) * most
  BY <1>2, <1>5
<1>7. k * most = (k - 1) * most + most /\ (k - 1) * most \in Int /\ k * most \in Int
  BY <1>3, SMT
<1>8. s[k] <= s[k-1] + most /\ s[k] \in Nat /\ s[k-1] \in Nat
  BY <1>3, <1>5 DEF AddsUp
<1> HIDE DEF T
<1> QED
  BY <1>3, <1>6, <1>7, <1>8, SMT

\* Of every part comes back what time brings: the sum falls by n times that at
\* the most.
Shrinks(s, t, n, by) ==
    /\ t \in [0..n -> Nat] /\ t[0] = 0
    /\ \A i \in 1..n : t[i] = t[i-1] + (IF s[i] - s[i-1] >= by THEN s[i] - s[i-1] - by ELSE 0)
    /\ s[n] <= t[n] + n * by

LEMMA SumShrinks ==
    ASSUME NEW n \in Nat, NEW most \in Nat, NEW by \in Nat, NEW s, AddsUp(s, n, most)
    PROVE  \E t : Shrinks(s, t, n, by)
<1> DEFINE T == {k \in 0..n : ~ \E t : Shrinks(s, t, k, by)}
<1>1. SUFFICES ASSUME T # {} PROVE FALSE
  <2>1. n \in 0..n
    BY SMT
  <2> QED BY <2>1
<1>2. PICK k \in T : \A j \in T : k <= j
  <2>1. T \subseteq Nat
    OBVIOUS
  <2> HIDE DEF T
  <2> QED BY <1>1, <2>1, LeastNumber
<1>3. k \in 0..n /\ ~ \E t : Shrinks(s, t, k, by)
  OBVIOUS
<1>4. k # 0
  <2>1. Shrinks(s, [i \in 0..0 |-> 0], 0, by)
    BY SMT DEF Shrinks, AddsUp
  <2> QED BY <1>3, <2>1
<1>5. k - 1 \in 0..n /\ k \in 1..n /\ ~(k <= k - 1)
  BY <1>3, <1>4, SMT
<1>6. PICK t : Shrinks(s, t, k - 1, by)
  <2>1. k - 1 \notin T
    <3> HIDE DEF T
    <3> QED BY <1>2, <1>5
  <2> QED BY <1>5, <2>1
<1> HIDE DEF T
<1>7. s[k] \in Nat /\ s[k-1] \in Nat /\ s[k-1] <= s[k]
  BY <1>5 DEF AddsUp
<1> DEFINE d == IF s[k] - s[k-1] >= by THEN s[k] - s[k-1] - by ELSE 0
           u == [i \in 0..k |-> IF i = k THEN t[k-1] + d ELSE t[i]]
<1>8. d \in Nat /\ s[k] <= s[k-1] + d + by
  BY <1>7, SMT
<1>9. t[k-1] \in Nat
  <2>1. k - 1 \in 0..(k-1)
    BY <1>5, SMT
  <2> QED BY <1>6, <2>1 DEF Shrinks
<1>10. \A i \in 0..k : i # k => i \in 0..(k-1)
  BY <1>5, SMT
<1>11. u[k] = t[k-1] + d /\ u[k] \in Nat /\ \A i \in 0..(k-1) : u[i] = t[i] /\ t[i] \in Nat
  <2>1. k \in 0..k /\ \A i \in 0..(k-1) : i \in 0..k /\ i # k
    BY <1>5, SMT
  <2>2. t[k-1] + d \in Nat
    BY <1>8, <1>9, SMT
  <2> HIDE DEF d
  <2> QED BY <1>6, <2>1, <2>2 DEF Shrinks
<1>12. u \in [0..k -> Nat] /\ u[0] = 0
  <2>1. 0 \in 0..(k-1)
    BY <1>5, SMT
  <2>2. u \in [0..k -> Nat]
    <3>1. \A i \in 0..k : u[i] \in Nat
      BY <1>10, <1>11
    <3> HIDE DEF d
    <3> QED BY <3>1
  <2>3. t[0] = 0
    BY <1>6 DEF Shrinks
  <2> HIDE DEF u
  <2> QED BY <1>11, <2>1, <2>2, <2>3
<1>13. ASSUME NEW i \in 1..k
       PROVE  u[i] = u[i-1] + (IF s[i] - s[i-1] >= by THEN s[i] - s[i-1] - by ELSE 0)
  <2>1. CASE i = k
    <3>1. k - 1 \in 0..(k-1)
      BY <1>5, SMT
    <3> HIDE DEF u
    <3> QED BY <1>11, <2>1, <3>1
  <2>2. CASE i # k
    <3>1. i \in 1..(k-1) /\ i \in 0..(k-1) /\ i - 1 \in 0..(k-1)
      BY <1>5, <2>2, SMT
    <3> HIDE DEF u
    <3> QED BY <1>6, <1>11, <3>1 DEF Shrinks
  <2> QED BY <2>1, <2>2
<1>14. s[k] <= u[k] + k * by
  <2>1. s[k-1] <= t[k-1] + (k - 1) * by
    BY <1>6 DEF Shrinks
  <2>2. k * by = (k - 1) * by + by /\ (k - 1) * by \in Int /\ k * by \in Int
    BY <1>5, SMT
  <2> HIDE DEF u, d
  <2> QED BY <1>7, <1>8, <1>9, <1>11, <2>1, <2>2, SMT
<1>15. Shrinks(s, u, k, by)
  <2> HIDE DEF u
  <2> QED BY <1>12, <1>13, <1>14, Zenon DEF Shrinks
<1> QED
  <2> HIDE DEF u
  <2> QED BY <1>3, <1>15

----------------------------------------------------------------------------
(* What the steps do to the sum. *)

\* What a bucket holds a tick later.
LEMMA HoldsTick ==
    ASSUME NEW most \in Nat, NEW rate \in Nat, NEW b \in BucketOf(most), now \in Nat,
           b.last <= now, now' = now + 1
    PROVE  AtMost(most, b.tokens + (now' - b.last) * rate)
             = AtMost(most, Refilled(b, rate, most).tokens + rate)
<1>1. b.tokens \in 0..most /\ b.last \in Nat /\ now - b.last \in Nat
  BY BucketFields, Constants, SMT
<1>2. \A x \in Nat : x * rate \in Nat /\ (x + 1) * rate = x * rate + rate
  BY SMT
<1>3. PICK gain \in Nat : gain = (now - b.last) * rate
  BY <1>1, <1>2
<1>4. Refilled(b, rate, most).tokens = AtMost(most, b.tokens + gain)
  BY <1>3 DEF Refilled
<1>5. (now' - b.last) * rate = gain + rate
  <2>1. now' - b.last = (now - b.last) + 1
    BY <1>1, SMT
  <2> QED
    BY <1>1, <1>2, <1>3, <2>1
<1>6. AtMost(most, b.tokens + (gain + rate)) = AtMost(most, AtMost(most, b.tokens + gain) + rate)
  BY <1>1, SMT DEF AtMost
<1> QED
  BY <1>4, <1>5, <1>6

LEMMA HoldsBounds ==
    ASSUME NEW most \in Nat, NEW rate \in Nat, NEW b \in BucketOf(most),
           now \in Nat, b.last <= now
    PROVE  Refilled(b, rate, most).tokens \in 0..most
<1>1. b.tokens \in 0..most /\ b.last \in Nat /\ now - b.last \in Nat
  BY BucketFields, Constants, SMT
<1>2. PICK gain \in Nat : gain = (now - b.last) * rate
  <2>1. \A x \in Nat : x * rate \in Nat
    BY SMT
  <2> QED
    BY <1>1, <2>1
<1> QED
  BY <1>1, <1>2, SMT DEF Refilled, AtMost

\* A bucket that has just been counted holds what it was left with.
LEMMA HoldsCounted ==
    ASSUME NEW most \in Nat, NEW rate \in Nat, NEW b \in BucketOf(most),
           now \in Nat, b.last = now
    PROVE  Refilled(b, rate, most).tokens = b.tokens
<1>1. b.tokens \in 0..most
  BY BucketFields
<1>2. (now - b.last) * rate = 0
  BY SMT
<1> QED
  BY <1>1, <1>2, SMT DEF Refilled, AtMost

LEMMA HoldsType ==
    ASSUME LimitInv
    PROVE  /\ now \in Nat /\ made \in Nat
           /\ \A b \in Buckets : Holds(b) \in 0..Capacity
           /\ SharedHolds \in 0..AggCapacity
           /\ Used \subseteq Buckets
<1>1. now \in Nat /\ made \in Nat
  BY Constants, SMT DEF LimitInv, LimitTypeOK
<1>2. ASSUME NEW b \in Buckets PROVE Holds(b) \in 0..Capacity
  <2>1. bucket[b] \in BucketOf(Capacity) /\ bucket[b].last <= now
    BY DEF LimitInv, LimitTypeOK, Past
  <2> QED
    BY <1>1, <2>1, HoldsBounds, Constants DEF Holds
<1>3. SharedHolds \in 0..AggCapacity
  BY <1>1, HoldsBounds, Constants DEF SharedHolds, LimitInv, LimitTypeOK, Past
<1>4. Used \subseteq Buckets
  BY DEF Used, InUse, Tracked, LimitInv, LimitTypeOK
<1> QED
  BY <1>1, <1>2, <1>3, <1>4

LEMMA SharingFinite ==
    /\ IsFiniteSet(Sharing) /\ Cardinality(Sharing) \in Nat
    /\ Sharing = {} => Cardinality(Sharing) = 0
<1>1. IsFiniteSet(Sharing)
  BY FewAssumption, FS_Subset DEF Sharing
<1> QED
  BY <1>1, FS_CardinalityType, FS_EmptySet

\* Where no bucket is taken into use and what buckets hold stays, the sum stays.
LEMMA PaidStays ==
    ASSUME LimitInv, NEW s, NEW number, Paid(s, number),
           made' = made, InUse' \subseteq InUse \cup {None},
           \A b \in Used : Holds(b)' = Holds(b),
           SharedHolds' = SharedHolds, Sharing' = Sharing
    PROVE  Paid(s, number)'
<1>1. Used' \subseteq Used
  BY DEF Used
<1> QED
  BY <1>1 DEF Paid, AddsUp

LEMMA KnownPaid ==
    ASSUME LimitInv, NEW p \in Procs, NEW c \in Clients, Known(p, c),
           NEW s, NEW number, Paid(s, number)
    PROVE  Paid(s, number)'
<1>1. /\ pc[p] = "idle" /\ table[c] # None /\ pc' = [pc EXCEPT ![p] = "own"]
      /\ mine' = [mine EXCEPT ![p] = table[c]] /\ table' = table
      /\ UNCHANGED <<now, bucket, aggregate, made>>
  BY DEF Known, Found
<1>2. Sharing' = Sharing
  BY <1>1 DEF Sharing, LimitInv, LimitTypeOK
<1>3. InUse' \subseteq InUse
  BY <1>1 DEF InUse, Tracked, LimitInv, LimitTypeOK
<1>4. SharedHolds' = SharedHolds /\ \A b : Holds(b)' = Holds(b)
  BY <1>1 DEF SharedHolds, Holds, Refilled
<1> QED
  BY <1>1, <1>2, <1>3, <1>4, PaidStays

LEMMA ObservePaid ==
    ASSUME LimitInv, NEW c \in Clients, Observe(c), NEW s, NEW number, Paid(s, number)
    PROVE  Paid(s, number)'
<1>1. UNCHANGED <<now, bucket, aggregate, made>> /\ InUse' = InUse /\ Sharing' = Sharing
  BY DEF Observe, InUse, Tracked, Sharing
<1>2. SharedHolds' = SharedHolds /\ \A b : Holds(b)' = Holds(b)
  BY <1>1 DEF SharedHolds, Holds, Refilled
<1> QED
  BY <1>1, <1>2, PaidStays

\* A new bucket has nothing out.
LEMMA NewPaid ==
    ASSUME LimitInv, NEW p \in Procs, NEW c \in Clients, New(p, c), Few',
           NEW s, NEW number, Paid(s, number)
    PROVE  \E t, numbers : Paid(t, numbers)'
<1>1. PICK b \in Buckets \ InUse, o \in {None} \cup Clients : Make(p, c, b, o)
  BY DEF New, Make
<1>2. /\ pc[p] = "idle" /\ pc' = [pc EXCEPT ![p] = "own"]
      /\ mine' = [mine EXCEPT ![p] = b] /\ table' = [Evict(o) EXCEPT ![c] = b]
      /\ bucket' = [x \in Buckets |-> IF x = b THEN [tokens |-> Capacity, last |-> now]
                                      ELSE IF x \in InUse THEN bucket[x] ELSE Unmade]
      /\ made' = AtMost(MaxMade, made + 1) /\ now' = now /\ aggregate' = aggregate
  BY <1>1 DEF New, Make, Found
<1>3. made' = made + 1 /\ made \in Nat
  <2>1. made \in 0..MaxMade /\ MaxMade \in Nat
    BY Constants DEF LimitInv, LimitTypeOK
  <2>2. made' # MaxMade
    <3>1. SUFFICES ASSUME made' = MaxMade PROVE FALSE
      OBVIOUS
    <3>2. MaxMade * Capacity \in Nat /\ MaxMade * Rate \in Nat /\ AggCapacity \in Nat /\ AggRate \in Nat
      BY Constants, SMT
    <3>3. MaxMade * Capacity <= AggCapacity /\ MaxMade * Rate <= AggRate
      BY <3>1 DEF Few
    <3> QED
      BY <3>2, <3>3, FewAssumption, SMT
  <2> QED
    BY <1>2, <2>1, <2>2, SMT DEF AtMost
<1>4. Sharing' = Sharing
  BY <1>2 DEF Sharing, LimitInv, LimitTypeOK
<1>5. Used' \subseteq Used \cup {b}
  BY <1>2 DEF Used, InUse, Tracked, Evict, LimitInv, LimitTypeOK
<1>6. SharedHolds' = SharedHolds
  BY <1>2 DEF SharedHolds, Refilled
<1>7. \A x \in Used : Holds(x)' = Holds(x) /\ x # b
  <2>1. \A x \in Used : bucket'[x] = bucket[x] /\ x # b
    BY <1>1, <1>2, HoldsType DEF Used
  <2> QED
    BY <1>2, <2>1 DEF Holds, Refilled
<1>8. Holds(b)' = Capacity
  <2>1. bucket'[b] = [tokens |-> Capacity, last |-> now]
    BY <1>1, <1>2
  <2>2. /\ [tokens |-> Capacity, last |-> now] \in BucketOf(Capacity)
        /\ [tokens |-> Capacity, last |-> now].last = now
        /\ [tokens |-> Capacity, last |-> now].tokens = Capacity
    <3>1. Capacity \in 0..Capacity
      BY Constants, SMT
    <3> QED BY <3>1 DEF BucketOf, LimitInv, LimitTypeOK
  <2>3. Refilled([tokens |-> Capacity, last |-> now], Rate, Capacity).tokens = Capacity
    BY <2>2, HoldsCounted, HoldsType, Constants
  <2> QED
    BY <1>2, <2>1, <2>3 DEF Holds, Refilled
<1>9. PICK n \in Nat : n = made + 1
  BY <1>3, SMT
<1>10. PICK t : t = [i \in 0..n |-> IF i = n THEN s[made] ELSE s[i]]
  OBVIOUS
<1>11. PICK numbers : numbers = [number EXCEPT ![b] = n]
  OBVIOUS
<1>12. /\ \A i \in 0..made : t[i] = s[i] /\ s[i] \in Nat
      /\ t[n] = s[made] /\ s[0] = 0
  <2>1. /\ \A i \in 0..made : i \in 0..n /\ i # n
        /\ n \in 0..n
    BY <1>3, <1>9, SMT
  <2> QED BY <2>1, <1>10 DEF Paid, AddsUp
<1>13. t \in [0..n -> Nat]
  <2>1. \A i \in 0..n : i # n => i \in 0..made
    BY <1>3, <1>9, SMT
  <2>2. made \in 0..made
    BY <1>3, <1>9, SMT
  <2>3. \A i \in 0..n : t[i] \in Nat
    <3> QED BY <1>12, <1>10, <2>1, <2>2
  <2> QED BY <2>3, <1>10
<1>14. AddsUp(t, n, Capacity)
  <2>1. ASSUME NEW i \in 1..n PROVE t[i-1] <= t[i] /\ t[i] <= t[i-1] + Capacity
    <3>1. CASE i = n
      <4>1. i - 1 = made /\ made \in 0..made
        BY <1>3, <1>9, <3>1, SMT
      <4> QED BY <1>12, <3>1, <4>1, Constants, SMT
    <3>2. CASE i # n
      <4>1. i \in 1..made /\ i \in 0..made /\ i - 1 \in 0..made
        BY <1>3, <1>9, <3>2, SMT
      <4>2. s[i-1] <= s[i] /\ s[i] <= s[i-1] + Capacity
        BY <4>1 DEF Paid, AddsUp
      <4> QED BY <1>12, <4>1, <4>2
    <3> QED BY <3>1, <3>2
  <2>2. 0 \in 0..made
    BY <1>3, <1>9, SMT
  <2> QED BY <1>12, <1>13, <2>1, <2>2 DEF AddsUp
<1>15. numbers \in [Buckets -> Nat] /\ numbers[b] = n
       /\ \A x \in Used : numbers[x] = number[x] /\ number[x] \in 1..made /\ x \in Buckets
  <2>1. n \in Nat
    BY <1>3, <1>9, SMT
  <2> QED BY <1>1, <1>7, <1>11, <2>1, HoldsType DEF Paid
<1>16. ASSUME NEW x \in Used'
       PROVE  numbers[x] \in 1..n /\ t[numbers[x]] + Holds(x)' <= t[numbers[x]-1] + Capacity
  <2>1. CASE x = b
    <3>1. n \in 1..n /\ n - 1 = made /\ made \in 0..made
      BY <1>3, <1>9, SMT
    <3>2. t[n] = s[made] /\ t[n-1] = s[made] /\ s[made] \in Nat
      <4> QED BY <1>12, <3>1
    <3> QED BY <1>8, <1>15, <2>1, <3>1, <3>2, Constants, SMT
  <2>2. CASE x \in Used
    <3>1. number[x] \in 1..n /\ number[x] \in 0..made /\ number[x] - 1 \in 0..made
      BY <1>3, <1>9, <1>15, <2>2, SMT
    <3>2. s[number[x]] + Holds(x) <= s[number[x]-1] + Capacity
      BY <2>2 DEF Paid
    <3> QED BY <1>7, <1>12, <1>15, <2>2, <3>1, <3>2
  <2> QED BY <1>5, <2>1, <2>2
<1>17. ASSUME NEW x \in Used', NEW y \in Used', numbers[x] = numbers[y] PROVE x = y
  <2>1. \A z \in Used : numbers[z] # n
    <3>1. \A k \in 1..made : k # n
      BY <1>3, <1>9, SMT
    <3> QED BY <1>15, <3>1
  <2> QED BY <1>5, <1>15, <1>17, <2>1 DEF Paid
<1>18. AggCapacity + Cost * Cardinality(Sharing') <= t[n] + SharedHolds'
  <2> QED BY <1>4, <1>6, <1>12 DEF Paid
<1>19. Paid(t, numbers)'
  <2>1. made' = n
    BY <1>3, <1>9
  <2>2. AddsUp(t, made, Capacity)'
    BY <1>14, <2>1 DEF AddsUp
  <2>3. \A x \in Used' : numbers[x] \in 1..made' /\ t[numbers[x]] + Holds(x)' <= t[numbers[x]-1] + Capacity
    BY <1>16, <2>1
  <2>4. \A x, y \in Used' : numbers[x] = numbers[y] => x = y
    BY <1>17
  <2>5. AggCapacity + Cost * Cardinality(Sharing') <= t[made'] + SharedHolds'
    BY <1>18, <2>1
  <2> QED BY <1>15, <2>2, <2>3, <2>4, <2>5, Zenon DEF Paid
<1> QED
  BY <1>19

\* A token of a client's bucket is out until the request takes, or is refused,
\* one of the aggregate.
LEMMA OwnPaid ==
    ASSUME LimitInv, NEW p \in Procs, Own(p), NEW s, NEW number, Paid(s, number)
    PROVE  \E t, numbers : Paid(t, numbers)'
<1>1. PICK m \in Buckets : m = mine[p]
  BY DEF Own, LimitInv, Working
<1>2. PICK b \in BucketOf(Capacity) :
         b = Refilled(bucket[m], Rate, Capacity) /\ b.last = now /\ b.tokens = Holds(m)
               /\ b.tokens \in 0..Capacity
  <2>1. bucket[m] \in BucketOf(Capacity) /\ bucket[m].last <= now /\ now \in 0..MaxNow /\ since \in Nat
        /\ since <= now /\ now \in Nat
    BY Constants, SMT DEF LimitInv, LimitTypeOK, Past
  <2>2. Refilled(bucket[m], Rate, Capacity) \in BucketOf(Capacity)
        /\ Refilled(bucket[m], Rate, Capacity).last = now
    BY <2>1, RefillFills, Constants
  <2> QED
    BY <2>1, <2>2, BucketFields, Constants DEF Holds
<1>3. /\ pc[p] = "own" /\ made' = made /\ now' = now /\ aggregate' = aggregate /\ table' = table
      /\ Cost \in Nat
  BY Constants DEF Own
<1>4. SharedHolds' = SharedHolds
  BY <1>3 DEF SharedHolds, Refilled
<1>5. m \in Used
  BY <1>1, Constants DEF Used, InUse
<1>6. \A x \in Used, y \in BucketOf(Capacity) :
         bucket' = [bucket EXCEPT ![m] = y] /\ x # m => Holds(x)' = Holds(x)
  BY <1>3, HoldsType DEF Holds, Refilled, LimitInv, LimitTypeOK
<1>7. \A y \in BucketOf(Capacity) :
         bucket' = [bucket EXCEPT ![m] = y] /\ y.last = now => Holds(m)' = y.tokens
  <2>1. ASSUME NEW y \in BucketOf(Capacity), bucket' = [bucket EXCEPT ![m] = y], y.last = now
        PROVE  Holds(m)' = y.tokens
    <3>1. bucket'[m] = y
      BY <2>1 DEF LimitInv, LimitTypeOK
    <3>2. Refilled(y, Rate, Capacity).tokens = y.tokens
      BY <2>1, HoldsCounted, HoldsType, Constants
    <3> QED
      BY <1>3, <3>1, <3>2 DEF Holds, Refilled
  <2> QED BY <2>1
<1>8. CASE ~Has(b) /\ bucket' = [bucket EXCEPT ![m] = b] /\ Done(p)
  <2>1. \A x \in Used : Holds(x)' = Holds(x)
    BY <1>2, <1>6, <1>7, <1>8
  <2>2. InUse' \subseteq InUse \cup {None} /\ Sharing' = Sharing
    BY <1>3, <1>8 DEF Done, InUse, Tracked, Sharing, LimitInv, LimitTypeOK
  <2>3. Paid(s, number)'
    BY <1>3, <1>4, <2>1, <2>2, PaidStays
  <2> QED BY <2>3
<1>9. CASE /\ Has(b) /\ bucket' = [bucket EXCEPT ![m] = Less(b)]
           /\ pc' = [pc EXCEPT ![p] = "shared"] /\ UNCHANGED <<client, mine>>
  <2>1. Holds(m)' = Holds(m) - Cost
    <3>1. Less(b) \in BucketOf(Capacity) /\ Less(b).last = now /\ Less(b).tokens = b.tokens - Cost
      <4>1. since \in Nat
        BY Constants, SMT DEF LimitInv, LimitTypeOK
      <4>2. Less(b) \in BucketOf(Capacity) /\ Less(b).last = now
        BY <1>2, <1>9, <4>1, LessFills, Constants
      <4>3. Less(b).tokens = b.tokens - Cost
        BY DEF Less, BucketOf
      <4> QED BY <4>2, <4>3
    <3> QED BY <1>2, <1>7, <1>9, <3>1
  <2>2. \A x \in Used : x # m => Holds(x)' = Holds(x)
    <3>1. Less(b) \in BucketOf(Capacity)
      BY <1>2, <1>9, LessFills, Constants, SMT DEF LimitInv, LimitTypeOK
    <3> QED BY <1>6, <1>9, <3>1
  <2>3. Used' = Used /\ Sharing' = Sharing \cup {p} /\ p \notin Sharing
    BY <1>3, <1>9 DEF Used, InUse, Tracked, Sharing, LimitInv, LimitTypeOK
  <2>4. Cost * Cardinality(Sharing') = Cost * Cardinality(Sharing) + Cost
        /\ Cost * Cardinality(Sharing) \in Nat
    <3>1. Cardinality(Sharing') = Cardinality(Sharing) + 1 /\ Cardinality(Sharing) \in Nat
      BY <2>3, SharingFinite, FS_AddElement
    <3>2. \A x \in Nat : Cost * (x + 1) = Cost * x + Cost /\ Cost * x \in Nat
      BY <1>3, SMT
    <3> QED BY <3>1, <3>2
  <2>5. PICK k \in 1..made : k = number[m]
    BY <1>5 DEF Paid
  <2>6. /\ made \in Nat /\ SharedHolds \in Nat /\ \A x \in Used : Holds(x) \in 0..Capacity
        /\ Capacity \in Nat
    BY HoldsType, Constants, SMT
  <2>7. PICK t : t = [i \in 0..made |-> IF i < k THEN s[i] ELSE s[i] + Cost]
    OBVIOUS
  <2>8. \A i \in 0..made : s[i] \in Nat /\ t[i] = (IF i < k THEN s[i] ELSE s[i] + Cost)
    BY <2>7 DEF Paid, AddsUp
  <2>9. \A i \in 1..made : i \in 0..made /\ i - 1 \in 0..made /\ i \in Int
    BY <2>6, SMT
  <2>10. \A i \in 1..made :
            /\ i # k => t[i] - t[i-1] = s[i] - s[i-1]
            /\ i = k => t[i] = s[i] + Cost /\ t[i-1] = s[i-1]
    <3>1. SUFFICES ASSUME NEW i \in 1..made
                   PROVE  /\ i # k => t[i] - t[i-1] = s[i] - s[i-1]
                          /\ i = k => t[i] = s[i] + Cost /\ t[i-1] = s[i-1]
      OBVIOUS
    <3>2. s[i] \in Nat /\ s[i-1] \in Nat /\ t[i] = (IF i < k THEN s[i] ELSE s[i] + Cost)
          /\ t[i-1] = (IF i - 1 < k THEN s[i-1] ELSE s[i-1] + Cost)
      BY <2>8, <2>9
    <3>3. i < k => i - 1 < k
      BY <2>5, <2>9, SMT
    <3>4. i > k => ~(i - 1 < k)
      BY <2>5, <2>9, SMT
    <3>5. i = k => i - 1 < k
      BY <2>5, <2>9, SMT
    <3> QED BY <1>3, <2>5, <3>2, <3>3, <3>4, <3>5, SMT
  <2>11. s[k] + Holds(m) <= s[k-1] + Capacity /\ Holds(m) >= Cost
    <3>1. Holds(m) >= Cost
      BY <1>2, <1>9 DEF Has
    <3> QED BY <1>5, <2>5, <3>1 DEF Paid
  <2>12. AddsUp(t, made, Capacity)
    <3>1. t \in [0..made -> Nat]
      <4>1. \A i \in 0..made : t[i] \in Nat
        BY <1>3, <2>8, SMT
      <4> QED BY <2>7, <4>1
    <3>2. t[0] = 0
      <4>1. 0 \in 0..made /\ 0 < k
        BY <2>5, <2>6, SMT
      <4> QED BY <2>8, <4>1 DEF Paid, AddsUp
    <3>3. ASSUME NEW i \in 1..made PROVE t[i-1] <= t[i] /\ t[i] <= t[i-1] + Capacity
      <4>1. s[i-1] <= s[i] /\ s[i] <= s[i-1] + Capacity
        BY DEF Paid, AddsUp
      <4>2. s[i] \in Nat /\ s[i-1] \in Nat /\ t[i] \in Nat /\ t[i-1] \in Nat
        BY <2>8, <2>9, <3>1
      <4>3. CASE i = k
        BY <1>3, <1>5, <2>6, <2>10, <2>11, <4>1, <4>2, <4>3, SMT
      <4>4. CASE i # k
        <5>1. t[i] - t[i-1] = s[i] - s[i-1]
          BY <2>10, <4>4
        <5> QED BY <2>6, <4>1, <4>2, <5>1, SMT
      <4> QED BY <4>3, <4>4
    <3> QED BY <3>1, <3>2, <3>3 DEF AddsUp
  <2>13. ASSUME NEW x \in Used
         PROVE  number[x] \in 1..made /\ t[number[x]] + Holds(x)' <= t[number[x]-1] + Capacity
    <3>1. number[x] \in 1..made /\ s[number[x]] + Holds(x) <= s[number[x]-1] + Capacity
      BY DEF Paid
    <3>2. CASE x = m
      <4>1. t[k] = s[k] + Cost /\ t[k-1] = s[k-1] /\ s[k] \in Nat /\ s[k-1] \in Nat
        BY <2>5, <2>8, <2>9, <2>10
      <4> QED BY <1>3, <2>1, <2>5, <2>6, <3>1, <3>2, <4>1, SMT
    <3>3. CASE x # m
      <4>1. number[x] # k
        BY <1>5, <2>5, <3>3 DEF Paid
      <4>2. PICK i \in 1..made : i = number[x]
        BY <3>1
      <4>3. t[i] - t[i-1] = s[i] - s[i-1] /\ s[i] \in Nat /\ s[i-1] \in Nat
        BY <2>8, <2>9, <2>10, <4>1, <4>2
      <4>4. t[i] \in Nat /\ t[i-1] \in Nat
        BY <2>9, <2>12 DEF AddsUp
      <4>5. Holds(x)' = Holds(x)
        BY <2>2, <3>3
      <4> QED BY <2>6, <3>1, <4>2, <4>3, <4>4, <4>5, SMT
    <3> QED BY <3>2, <3>3
  <2>14. AggCapacity + Cost * Cardinality(Sharing') <= t[made] + SharedHolds'
    <3>1. AggCapacity + Cost * Cardinality(Sharing) <= s[made] + SharedHolds
      BY DEF Paid
    <3>2. made \in 0..made /\ ~(made < k)
      BY <2>5, <2>6, SMT
    <3>3. t[made] = s[made] + Cost /\ s[made] \in Nat
      BY <2>8, <3>2
    <3> QED BY <1>3, <1>4, <2>4, <2>6, <3>1, <3>3, Constants, SMT
  <2>15. Paid(t, number)'
    <3>1. AddsUp(t, made, Capacity)'
      BY <1>3, <2>12 DEF AddsUp
    <3>2. \A x \in Used' : number[x] \in 1..made' /\ t[number[x]] + Holds(x)' <= t[number[x]-1] + Capacity
      BY <1>3, <2>3, <2>13
    <3>3. number \in [Buckets -> Nat] /\ \A x, y \in Used' : number[x] = number[y] => x = y
      BY <2>3 DEF Paid
    <3>4. AggCapacity + Cost * Cardinality(Sharing') <= t[made'] + SharedHolds'
      BY <1>3, <2>14
    <3> QED BY <3>1, <3>2, <3>3, <3>4, Zenon DEF Paid
  <2> QED BY <2>15
<1> QED
  BY <1>1, <1>2, <1>8, <1>9 DEF Own

\* A request that still has no answer takes its token of the aggregate, or is
\* refused it: what is out does not grow.
LEMMA SharedPaid ==
    ASSUME LimitInv, NEW p \in Procs, Shared(p), NEW s, NEW number, Paid(s, number)
    PROVE  Paid(s, number)'
<1> DEFINE b == Refilled(aggregate, AggRate, AggCapacity)
<1>1. /\ pc[p] = "shared" /\ made' = made /\ now' = now /\ bucket' = bucket /\ table' = table
      /\ Done(p) /\ Cost \in Nat /\ now \in Nat /\ since \in Nat /\ since <= now /\ made \in Nat
  BY Constants, SMT DEF Shared, LimitInv, LimitTypeOK, Past
<1>2. /\ b \in BucketOf(AggCapacity) /\ b.last = now /\ b.tokens = SharedHolds
      /\ SharedHolds \in 0..AggCapacity
  <2>1. aggregate \in BucketOf(AggCapacity) /\ aggregate.last <= now /\ now \in 0..MaxNow
    BY DEF LimitInv, LimitTypeOK, Past
  <2> QED
    BY <1>1, <2>1, RefillFills, HoldsType, Constants DEF SharedHolds
<1>3. \A x \in Used : Holds(x)' = Holds(x)
  BY <1>1 DEF Holds, Refilled
<1>4. Used' \subseteq Used
  BY <1>1 DEF Done, Used, InUse, Tracked, LimitInv, LimitTypeOK
<1>5. Sharing' = Sharing \ {p} /\ p \in Sharing
  BY <1>1 DEF Done, Sharing, LimitInv, LimitTypeOK
<1>6. Cost * Cardinality(Sharing) = Cost * Cardinality(Sharing') + Cost
      /\ Cost * Cardinality(Sharing') \in Nat
  <2>1. Cardinality(Sharing') = Cardinality(Sharing) - 1 /\ Cardinality(Sharing) \in Nat
    BY <1>5, SharingFinite, FS_RemoveElement
  <2>2. Cardinality(Sharing') \in Nat /\ Cardinality(Sharing) = Cardinality(Sharing') + 1
    <3>1. IsFiniteSet(Sharing')
      BY <1>5, SharingFinite, FS_RemoveElement
    <3>2. Cardinality(Sharing') \in Nat
      BY <3>1, FS_CardinalityType
    <3> QED BY <2>1, <3>2, SMT
  <2>3. \A x \in Nat : Cost * (x + 1) = Cost * x + Cost /\ Cost * x \in Nat
    BY <1>1, SMT
  <2> QED BY <2>2, <2>3
<1>7. \A y \in BucketOf(AggCapacity) : aggregate' = y /\ y.last = now => SharedHolds' = y.tokens
  <2>1. ASSUME NEW y \in BucketOf(AggCapacity), aggregate' = y, y.last = now
        PROVE  SharedHolds' = y.tokens
    <3>1. Refilled(y, AggRate, AggCapacity).tokens = y.tokens
      BY <1>1, <2>1, HoldsCounted, Constants
    <3> QED
      BY <1>1, <2>1, <3>1 DEF SharedHolds, Refilled
  <2> QED BY <2>1
<1>8. SharedHolds' \in Int /\ SharedHolds <= SharedHolds' + Cost
  <2>1. CASE Has(b) /\ aggregate' = Less(b)
    <3>1. Less(b) \in BucketOf(AggCapacity) /\ Less(b).last = now
      BY <1>1, <1>2, <2>1, LessFills, Constants
    <3>2. Less(b).tokens = b.tokens - Cost
      BY <1>2 DEF Less, BucketOf
    <3>3. SharedHolds' = SharedHolds - Cost
      BY <1>2, <1>7, <2>1, <3>1, <3>2
    <3> QED BY <1>1, <1>2, <3>3, SMT
  <2>2. CASE ~Has(b) /\ aggregate' = b
    <3>1. SharedHolds' = SharedHolds
      BY <1>2, <1>7, <2>2
    <3> QED BY <1>1, <1>2, <3>1, SMT
  <2> QED BY <2>1, <2>2 DEF Shared
<1>9. AggCapacity + Cost * Cardinality(Sharing') <= s[made] + SharedHolds'
  <2>1. s[made] \in Nat
    <3>1. made \in 0..made
      BY <1>1, SMT
    <3> QED BY <3>1 DEF Paid, AddsUp
  <2>2. AggCapacity + Cost * Cardinality(Sharing) <= s[made] + SharedHolds
    BY DEF Paid
  <2>3. PICK x \in Nat : x = Cost * Cardinality(Sharing')
    BY <1>6
  <2>4. SharedHolds \in Nat
    BY <1>2, Constants, SMT
  <2> HIDE DEF b
  <2>5. AggCapacity + (x + Cost) <= s[made] + SharedHolds
    BY <1>6, <2>2, <2>3
  <2>6. AggCapacity + x <= s[made] + SharedHolds'
    <3>1. \A a, c, y, h, k \in Int : a + (x + c) <= y + h /\ h <= k + c => a + x <= y + k
      BY SMT
    <3>2. AggCapacity \in Int /\ Cost \in Int /\ s[made] \in Int /\ SharedHolds \in Int
      BY <2>1, <2>4, Constants, SMT
    <3> QED BY <1>8, <2>5, <3>1, <3>2, Zenon
  <2> QED BY <2>3, <2>6
<1> HIDE DEF b
<1>10. AddsUp(s, made, Capacity)'
  BY <1>1 DEF Paid, AddsUp
<1>11. \A x \in Used' : number[x] \in 1..made' /\ s[number[x]] + Holds(x)' <= s[number[x]-1] + Capacity
  BY <1>1, <1>3, <1>4 DEF Paid
<1>12. number \in [Buckets -> Nat] /\ \A x, y \in Used' : number[x] = number[y] => x = y
  BY <1>4 DEF Paid
<1> QED
  BY <1>1, <1>9, <1>10, <1>11, <1>12, Zenon DEF Paid

\* With no request between its tokens, a tick brings each of the few buckets
\* its rate at the most, and the aggregate as much as all of them.
LEMMA TickPaid ==
    ASSUME LimitInv, Tick, ~stalled', Few, NEW s, NEW number, Paid(s, number)
    PROVE  \E t, numbers : Paid(t, numbers)'
<1>1. /\ now' = now + 1 /\ made' = made /\ Used' = Used /\ bucket' = bucket /\ aggregate' = aggregate
      /\ \A p \in Procs : pc[p] = "idle"
  BY DEF Tick, Used, InUse, Tracked
<1>2. Sharing = {} /\ Sharing' = {}
  BY <1>1 DEF Tick, Sharing
<1>3. Cost * Cardinality(Sharing) = 0 /\ Cost * Cardinality(Sharing') = 0
  <2>1. Cost * 0 = 0
    BY Constants, SMT
  <2> QED BY <1>2, <2>1, FS_EmptySet
<1>4. /\ made \in Nat /\ now \in Nat /\ Rate \in Nat /\ Capacity \in Nat /\ AggRate \in Nat /\ AggCapacity \in Nat
      /\ SharedHolds \in 0..AggCapacity /\ Used \subseteq Buckets
  BY HoldsType, Constants
<1>5. \A x \in Used : Holds(x) \in 0..Capacity /\ Holds(x)' = AtMost(Capacity, Holds(x) + Rate)
  <2>1. ASSUME NEW x \in Used PROVE Holds(x)' = AtMost(Capacity, Holds(x) + Rate)
    <3>1. bucket[x] \in BucketOf(Capacity) /\ bucket[x].last <= now
      BY <1>4 DEF LimitInv, LimitTypeOK, Past
    <3>2. AtMost(Capacity, bucket[x].tokens + (now' - bucket[x].last) * Rate)
             = AtMost(Capacity, Refilled(bucket[x], Rate, Capacity).tokens + Rate)
      BY <1>1, <1>4, <3>1, HoldsTick
    <3> QED
      BY <1>1, <3>2 DEF Holds, Refilled, AtMost
  <2> QED BY <1>4, <2>1, HoldsType
<1>6. SharedHolds' = AtMost(AggCapacity, SharedHolds + AggRate)
  <2>1. aggregate \in BucketOf(AggCapacity) /\ aggregate.last <= now
    BY DEF LimitInv, LimitTypeOK, Past
  <2>2. AtMost(AggCapacity, aggregate.tokens + (now' - aggregate.last) * AggRate)
           = AtMost(AggCapacity, Refilled(aggregate, AggRate, AggCapacity).tokens + AggRate)
    BY <1>1, <1>4, <2>1, HoldsTick
  <2> QED
    BY <1>1, <2>2 DEF SharedHolds, Refilled, AtMost
<1>7. PICK t : Shrinks(s, t, made, Rate)
  BY <1>4, SumShrinks DEF Paid
<1>8. \A i \in 1..made : /\ s[i] \in Nat /\ s[i-1] \in Nat /\ t[i] \in Nat /\ t[i-1] \in Nat
                         /\ s[i-1] <= s[i] /\ s[i] <= s[i-1] + Capacity
                         /\ t[i] = t[i-1] + (IF s[i] - s[i-1] >= Rate THEN s[i] - s[i-1] - Rate ELSE 0)
  <2>1. \A i \in 1..made : i \in 0..made /\ i - 1 \in 0..made
    BY <1>4, SMT
  <2> QED BY <1>7, <2>1 DEF Paid, AddsUp, Shrinks
<1>9. AddsUp(t, made, Capacity)
  <2>1. ASSUME NEW i \in 1..made PROVE t[i-1] <= t[i] /\ t[i] <= t[i-1] + Capacity
    BY <1>4, <1>8, SMT
  <2> QED BY <1>7, <2>1 DEF Shrinks, AddsUp
<1>10. ASSUME NEW x \in Used
       PROVE  number[x] \in 1..made /\ t[number[x]] + Holds(x)' <= t[number[x]-1] + Capacity
  <2>1. PICK i \in 1..made : i = number[x]
    BY DEF Paid
  <2>2. s[i] + Holds(x) <= s[i-1] + Capacity
    BY <2>1 DEF Paid
  <2>3. t[i] + Holds(x)' <= t[i-1] + Capacity
    BY <1>4, <1>5, <1>8, <2>2, SMT DEF AtMost
  <2> QED BY <2>1, <2>3
<1>11. AggCapacity + Cost * Cardinality(Sharing') <= t[made] + SharedHolds'
  <2>1. AggCapacity <= s[made] + SharedHolds
    <3>1. AggCapacity + 0 <= s[made] + SharedHolds
      BY <1>3 DEF Paid
    <3> QED BY <1>4, <3>1, SMT
  <2>2. s[made] <= t[made] + made * Rate /\ made * Rate <= AggRate /\ made * Rate \in Nat
    <3>1. \A x \in Nat : x * Rate \in Nat
      BY <1>4, SMT
    <3> QED BY <1>4, <1>7, <3>1 DEF Shrinks, Few
  <2>3. s[made] \in Nat /\ t[made] \in Nat
    <3>1. made \in 0..made
      BY <1>4, SMT
    <3> QED BY <1>7, <3>1 DEF Paid, AddsUp, Shrinks
  <2> QED BY <1>3, <1>4, <1>6, <2>1, <2>2, <2>3, SMT DEF AtMost
<1>12. Paid(t, number)'
  <2>1. AddsUp(t, made, Capacity)'
    BY <1>1, <1>9 DEF AddsUp
  <2>2. \A x \in Used' : number[x] \in 1..made' /\ t[number[x]] + Holds(x)' <= t[number[x]-1] + Capacity
    BY <1>1, <1>10
  <2>3. number \in [Buckets -> Nat] /\ \A x, y \in Used' : number[x] = number[y] => x = y
    BY <1>1 DEF Paid
  <2>4. AggCapacity + Cost * Cardinality(Sharing') <= t[made'] + SharedHolds'
    BY <1>1, <1>11
  <2> QED BY <2>1, <2>2, <2>3, <2>4, Zenon DEF Paid
<1> QED
  BY <1>12

LEMMA FewInitially == LimitInit => FewInv
<1> SUFFICES ASSUME LimitInit PROVE FewInv
  OBVIOUS
<1>1. LimitInv
  BY LimitInitially
<1>2. PICK s : s = [i \in 0..0 |-> 0]
  OBVIOUS
<1>3. PICK number : number = [b \in Buckets |-> 0]
  OBVIOUS
<1>4. /\ made = 0 /\ now = 0 /\ Used = {} /\ Sharing = {}
      /\ aggregate = [tokens |-> AggCapacity, last |-> 0]
  BY DEF LimitInit, Used, InUse, Tracked, Sharing
<1>5. SharedHolds = AggCapacity
  <2>1. aggregate \in BucketOf(AggCapacity) /\ aggregate.last = now /\ aggregate.tokens = AggCapacity
    BY <1>1, <1>4 DEF LimitInv, LimitTypeOK
  <2> QED
    BY <1>4, <2>1, HoldsCounted, Constants DEF SharedHolds
<1>6. AddsUp(s, made, Capacity)
  <2>1. \A i \in 1..0 : FALSE
    BY SMT
  <2>2. s \in [0..0 -> Nat] /\ s[0] = 0
    BY <1>2, SMT
  <2> QED
    BY <1>4, <2>1, <2>2 DEF AddsUp
<1>7. AggCapacity + Cost * Cardinality(Sharing) <= s[made] + SharedHolds
  <2>1. s[0] = 0 /\ Cost * 0 = 0
    BY <1>2, Constants, SMT
  <2> QED
    BY <1>4, <1>5, <2>1, FS_EmptySet, Constants, SMT
<1>8. number \in [Buckets -> Nat]
  BY <1>3
<1>9. Paid(s, number)
  BY <1>4, <1>6, <1>7, <1>8 DEF Paid
<1> QED
  BY <1>1, <1>9 DEF FewInv

LEMMA FewStep == FewInv /\ [LimitNext]_limitVars => FewInv'
<1> SUFFICES ASSUME FewInv, [LimitNext]_limitVars PROVE FewInv'
  OBVIOUS
<1>1. LimitInv /\ LimitInv'
  BY LimitStep DEF FewInv
<1>2. SUFFICES ASSUME ~stalled', Few' PROVE \E t, numbers : Paid(t, numbers)'
  BY <1>1 DEF FewInv
<1>3. ~stalled /\ made <= made'
  <2>1. made \in 0..MaxMade /\ MaxMade \in Nat
    BY <1>1, Constants DEF LimitInv, LimitTypeOK
  <2>2. made' = made \/ made' = AtMost(MaxMade, made + 1)
    BY DEF LimitNext, Known, Found, New, Make, Own, Shared, Tick, Observe, limitVars
  <2>3. stalled => stalled'
    BY DEF LimitNext, Known, Found, New, Make, Own, Shared, Tick, Observe, limitVars
  <2> QED
    BY <1>2, <2>1, <2>2, <2>3, SMT DEF AtMost
<1>4. Few
  <2>1. \A x \in Nat : made * x <= made' * x /\ made * x \in Nat /\ made' * x \in Nat
    <3>0. PICK more : more = made' - made
      OBVIOUS
    <3>1. more \in Nat /\ made' = made + more
      <4>1. made \in 0..MaxMade /\ made' \in 0..MaxMade /\ MaxMade \in Nat
        BY <1>1, Constants DEF LimitInv, LimitTypeOK
      <4>2. made <= made'
        BY <1>3, Zenon
      <4>3. \A x, y \in 0..MaxMade : x <= y => y - x \in Nat /\ y = x + (y - x)
        BY <4>1, SMT
      <4> QED BY <3>0, <4>1, <4>2, <4>3, Zenon
    <3>2. made \in Nat
      BY <1>1, HoldsType
    <3>3. \A x \in Nat : (made + more) * x = made * x + more * x /\ made * x \in Nat /\ more * x \in Nat
      BY <3>1, <3>2, SMT
    <3>4. ASSUME NEW x \in Nat PROVE made * x <= made' * x /\ made * x \in Nat /\ made' * x \in Nat
      <4>1. (made + more) * x = made * x + more * x /\ made * x \in Nat /\ more * x \in Nat
        BY <3>3
      <4>2. made' * x = made * x + more * x
        BY <3>1, <4>1
      <4> QED BY <4>1, <4>2, SMT
    <3> QED BY <3>4
  <2>2. /\ made * Capacity <= made' * Capacity /\ made * Capacity \in Nat /\ made' * Capacity \in Nat
        /\ made * Rate <= made' * Rate /\ made * Rate \in Nat /\ made' * Rate \in Nat
    BY <2>1, Constants
  <2>3. made' * Capacity <= AggCapacity /\ made' * Rate <= AggRate
    BY <1>2 DEF Few
  <2> QED
    BY <2>2, <2>3, Constants, SMT DEF Few
<1>5. PICK s, number : Paid(s, number)
  BY <1>3, <1>4 DEF FewInv
<1>6. ASSUME NEW p \in Procs, NEW c \in Clients, Known(p, c) PROVE \E t, numbers : Paid(t, numbers)'
  <2>1. Paid(s, number)'
    BY <1>1, <1>5, <1>6, KnownPaid
  <2> QED BY <2>1
<1>7. ASSUME NEW p \in Procs, NEW c \in Clients, New(p, c) PROVE \E t, numbers : Paid(t, numbers)'
  BY <1>1, <1>2, <1>5, <1>7, NewPaid
<1>8. ASSUME NEW p \in Procs, Own(p) PROVE \E t, numbers : Paid(t, numbers)'
  BY <1>1, <1>5, <1>8, OwnPaid
<1>9. ASSUME NEW p \in Procs, Shared(p) PROVE \E t, numbers : Paid(t, numbers)'
  <2>1. Paid(s, number)'
    BY <1>1, <1>5, <1>9, SharedPaid
  <2> QED BY <2>1
<1>10. ASSUME Tick PROVE \E t, numbers : Paid(t, numbers)'
  BY <1>1, <1>2, <1>4, <1>5, <1>10, TickPaid
<1>11. ASSUME NEW c \in Clients, Observe(c) PROVE \E t, numbers : Paid(t, numbers)'
  <2>1. Paid(s, number)'
    BY <1>1, <1>5, <1>11, ObservePaid
  <2> QED BY <2>1
<1>12. ASSUME UNCHANGED limitVars PROVE \E t, numbers : Paid(t, numbers)'
  <2>1. made' = made /\ InUse' = InUse /\ Sharing' = Sharing /\ SharedHolds' = SharedHolds
        /\ \A b : Holds(b)' = Holds(b)
    BY <1>12 DEF limitVars, InUse, Tracked, Sharing, SharedHolds, Holds, Refilled
  <2>2. Paid(s, number)'
    BY <1>1, <1>5, <2>1, PaidStays
  <2> QED BY <2>2
<1> QED
  BY <1>6, <1>7, <1>8, <1>9, <1>10, <1>11, <1>12 DEF LimitNext

\* The inductive invariant: while few clients have come, what the aggregate has
\* out is within what their buckets have out.
THEOREM FewInductive == LimitSpec => []FewInv
  BY FewInitially, FewStep, PTL DEF LimitSpec

\* The aggregate refuses nobody while the clients' buckets together are within
\* it (middleware.go:71-72).
THEOREM FewPass == LimitSpec => FewClientsPass
<1> DEFINE Passes == \A p \in Procs :
                        (pc[p] = "shared" /\ pc'[p] = "idle" /\ passed' = passed)
                            => \/ stalled
                               \/ made * Capacity > AggCapacity
                               \/ made * Rate > AggRate
<1>1. ASSUME FewInv, [LimitNext]_limitVars PROVE [Passes]_limitVars
  <2>1. SUFFICES ASSUME LimitNext, NEW p \in Procs, pc[p] = "shared", pc'[p] = "idle", passed' = passed,
                        ~stalled, ~(made * Capacity > AggCapacity), ~(made * Rate > AggRate)
                 PROVE  FALSE
    BY <1>1
  <2>2. LimitInv
    BY <1>1 DEF FewInv
  <2>3. /\ made \in Nat /\ SharedHolds \in 0..AggCapacity /\ Cost \in Nat /\ Capacity \in Nat
        /\ Rate \in Nat /\ AggCapacity \in Nat /\ AggRate \in Nat
    BY <2>2, HoldsType, Constants
  <2>4. made * Capacity \in Nat /\ made * Rate \in Nat
    <3>1. \A x \in Nat : made * x \in Nat
      BY <2>3, SMT
    <3> QED BY <2>3, <3>1
  <2>5. Few
    BY <2>1, <2>3, <2>4, SMT DEF Few
  <2>6. PICK s, number : Paid(s, number)
    BY <1>1, <2>1, <2>5 DEF FewInv
  <2>7. Shared(p)
    <3>1. ASSUME NEW q \in Procs, NEW c \in Clients, Known(q, c) \/ New(q, c) PROVE FALSE
      <4>1. pc[q] = "idle" /\ pc' = [pc EXCEPT ![q] = "own"]
        BY <3>1 DEF Known, New, Make, Found
      <4> QED BY <2>1, <2>2, <4>1 DEF LimitInv, LimitTypeOK
    <3>2. ASSUME NEW q \in Procs, Own(q) PROVE FALSE
      <4>1. pc[q] = "own" /\ (pc' = [pc EXCEPT ![q] = "shared"] \/ pc' = [pc EXCEPT ![q] = "idle"])
        BY <3>2 DEF Own, Done
      <4> QED BY <2>1, <2>2, <4>1 DEF LimitInv, LimitTypeOK
    <3>3. ASSUME NEW q \in Procs, Shared(q), q # p PROVE FALSE
      <4>1. pc' = [pc EXCEPT ![q] = "idle"]
        BY <3>3 DEF Shared, Done
      <4> QED BY <2>1, <2>2, <3>3, <4>1 DEF LimitInv, LimitTypeOK
    <3>4. ~Tick /\ \A c \in Clients : ~Observe(c)
      BY <2>1 DEF Tick, Observe
    <3> QED BY <2>1, <3>1, <3>2, <3>3, <3>4 DEF LimitNext
  <2>8. ~(SharedHolds >= Cost)
    <3>1. passed + 1 # passed
      BY <2>2, SMT DEF LimitInv, LimitTypeOK
    <3> QED BY <2>1, <2>7, <3>1 DEF Shared, Has, SharedHolds
  <2>9. Cost <= Cost * Cardinality(Sharing) /\ Cost * Cardinality(Sharing) \in Nat
    <3>1. Cardinality(Sharing) \in Nat /\ Cardinality(Sharing) # 0
      <4>1. p \in Sharing
        BY <2>1 DEF Sharing
      <4> QED BY <4>1, SharingFinite, FS_EmptySet
    <3>2. PICK k \in Nat : Cardinality(Sharing) = k + 1
      <4>1. Cardinality(Sharing) - 1 \in Nat /\ Cardinality(Sharing) = (Cardinality(Sharing) - 1) + 1
        BY <3>1, SMT
      <4> QED BY <4>1
    <3>3. Cost * (k + 1) = Cost * k + Cost /\ Cost * k \in Nat
      BY <2>3, SMT
    <3> QED BY <2>3, <3>2, <3>3, SMT
  <2>10. s[made] <= made * Capacity
    BY <2>3, <2>6, SumBounded DEF Paid
  <2>11. s[made] \in Nat
    <3>1. made \in 0..made
      BY <2>3, SMT
    <3> QED BY <2>6, <3>1 DEF Paid, AddsUp
  <2>12. AggCapacity + Cost * Cardinality(Sharing) <= s[made] + SharedHolds
    BY <2>6 DEF Paid
  <2> QED
    BY <2>1, <2>3, <2>4, <2>8, <2>9, <2>10, <2>11, <2>12, SMT
<1> QED
  BY <1>1, FewInductive, PTL DEF LimitSpec, FewClientsPass

-----------------------------------------------------------------------------
(* KeyCache, for any number of requests and keys and any timeouts.  A set  *)
(* of keys is wrong only about keys that changed after the platform said   *)
(* it (Honest), and what it says is never older than its time in the cache *)
(* and one fetch (Kept).                                                   *)

\* Where a set and the platform differ about a key, the key changed since.
Honest(s) == \A k \in Keys : ~(k \in s.keys <=> k \in published) => standing[k] <= s.told

\* What a stored set says is at most one fetch older than its storing.
Kept(s) == s.told <= s.age + Fetch

Honesty == Honest(cache) /\ \A p \in Logins : Honest(snap[p]) /\ Honest(answer[p])
Keeping == Kept(cache) /\ \A p \in Logins : Kept(snap[p])

\* An answer is not older than the fetch that waits for it.
Answering == \A p \in Logins : step[p] = "answered" => answer[p].told <= waited[p]

\* Between storing and reading the clock does not move.
Stored == \A p \in Logins : step[p] = "stored" => cache.age = 0
Failed == \A p \in Logins : step[p] = "failed" => failed[p]

\* A verdict the platform does not share is about a key that changed lately.
Judged == \A p \in Logins :
    /\ step[p] = "accepted" /\ token[p] \notin published => standing[token[p]] < NewsAge(p)
    /\ step[p] = "unknown" /\ token[p] \in published => standing[token[p]] < NewsAge(p)

KeyInv == KeyTypeOK /\ Honesty /\ Keeping /\ Answering /\ Stored /\ Failed /\ Judged

----------------------------------------------------------------------------
(* Ages. *)

LEMMA HorizonNat == Horizon \in Nat /\ MaxStale + Fetch < Horizon /\ Fetch < Horizon
  BY KeyCacheAssumption, SMT DEF Horizon

\* A tick makes no age run over the horizon and keeps the order of two ages.
LEMMA OlderAge ==
    ASSUME NEW m \in Ages, NEW n \in Ages
    PROVE  /\ Older(m) \in Ages /\ Older(m) <= m + 1
           /\ m <= n => Older(m) <= Older(n)
           /\ m <= n + Fetch => Older(m) <= Older(n) + Fetch
  BY HorizonNat, KeyCacheAssumption, SMT DEF Older, Ages

LEMMA SetFields ==
    ASSUME NEW s \in Sets
    PROVE  /\ s.keys \in SUBSET Keys /\ s.age \in Ages /\ s.told \in Ages
           /\ OlderSet(s).keys = s.keys
           /\ OlderSet(s).age = Older(s.age) /\ OlderSet(s).told = Older(s.told)
           /\ OlderSet(s) \in Sets
<1>1. s.keys \in SUBSET Keys /\ s.age \in Ages /\ s.told \in Ages
  BY DEF Sets
<1>2. Older(s.age) \in Ages /\ Older(s.told) \in Ages
  BY <1>1, OlderAge
<1> QED
  BY <1>1, <1>2 DEF Sets, OlderSet

LEMMA NothingSet == Nothing \in Sets /\ Kept(Nothing) /\ (KeyTypeOK => Honest(Nothing))
<1>1. Horizon \in Ages /\ Horizon <= Horizon + Fetch
  BY HorizonNat, KeyCacheAssumption, SMT DEF Ages
<1>2. Nothing \in Sets /\ Kept(Nothing)
  BY <1>1 DEF Nothing, Sets, Kept
<1>3. ASSUME KeyTypeOK PROVE Honest(Nothing)
  BY <1>3, HorizonNat, SMT DEF Honest, Nothing, KeyTypeOK, Ages
<1> QED
  BY <1>2, <1>3

\* Ageing keeps a set honest and kept.
LEMMA TickHonest ==
    ASSUME NEW s \in Sets, Honest(s), Kept(s), KeyTypeOK, AgeAll
    PROVE  /\ \A k \in Keys : ~(k \in OlderSet(s).keys <=> k \in published')
                                => standing'[k] <= OlderSet(s).told
           /\ Kept(OlderSet(s))
<1>1. s.age \in Ages /\ s.told \in Ages /\ OlderSet(s).keys = s.keys
      /\ OlderSet(s).age = Older(s.age) /\ OlderSet(s).told = Older(s.told)
  BY SetFields
<1>2. Kept(OlderSet(s))
  BY <1>1, OlderAge DEF Kept
<1>3. ASSUME NEW k \in Keys, ~(k \in s.keys <=> k \in published)
      PROVE  standing'[k] <= Older(s.told)
  <2>1. standing[k] \in Ages /\ standing[k] <= s.told
    BY <1>3 DEF Honest, KeyTypeOK
  <2>2. standing'[k] = Older(standing[k])
    BY DEF AgeAll
  <2> QED
    BY <1>1, <2>1, <2>2, OlderAge
<1>4. published' = published
  BY DEF AgeAll
<1> QED
  BY <1>1, <1>2, <1>3, <1>4
----------------------------------------------------------------------------
(* The invariant. *)

LEMMA KeyInitially == KeyInit => KeyInv
<1> SUFFICES ASSUME KeyInit PROVE KeyInv
  OBVIOUS
<1>1. KeyTypeOK
  <2>1. Horizon \in Ages /\ 0 \in 0..Fetch
    BY HorizonNat, KeyCacheAssumption, SMT DEF Ages
  <2> QED
    BY <2>1, NothingSet DEF KeyInit, KeyTypeOK
<1>2. Honesty /\ Keeping
  BY <1>1, NothingSet DEF KeyInit, Honesty, Keeping
<1> QED
  BY <1>1, <1>2 DEF KeyInit, KeyInv, Answering, Stored, Failed, Judged

\* What a verdict on a set is worth: it errs only about a key that changed
\* within what the set's age allows.
LEMMA VerdictJudged ==
    ASSUME KeyTypeOK, NEW s \in Sets, Honest(s), Kept(s), NEW k \in Keys, NEW n \in Nat, s.age < n
    PROVE  /\ Verdict(s.keys, k) \in {"accepted", "unknown"}
           /\ Verdict(s.keys, k) = "accepted" /\ k \notin published => standing[k] < n + Fetch
           /\ Verdict(s.keys, k) = "unknown" /\ k \in published => standing[k] < n + Fetch
<1>1. s.age \in Int /\ s.told \in Int /\ Fetch \in Int /\ standing[k] \in Int
  BY HorizonNat, KeyCacheAssumption, SMT DEF Sets, Ages, KeyTypeOK
<1>2. s.told < n + Fetch
  BY <1>1, SMT DEF Kept
<1>3. ~(k \in s.keys <=> k \in published) => standing[k] < n + Fetch
  BY <1>1, <1>2, SMT DEF Honest
<1> QED
  BY <1>3 DEF Verdict

LEMMA NewsAgeIs ==
    ASSUME KeyTypeOK, NEW p \in Logins
    PROVE  /\ NewsAge(p) \in Nat /\ 0 < NewsAge(p)
           /\ NewsAge(p) = MaxStale + Fetch \/ NewsAge(p) = TTL + Fetch
           /\ TTL + Fetch <= NewsAge(p)
           /\ failed[p] => NewsAge(p) = MaxStale + Fetch
  BY KeyCacheAssumption, SMT DEF NewsAge, KeyTypeOK

LEMMA VerifyStep == ASSUME KeyInv, NEW p \in Logins, NEW k \in Keys, Verify(p, k) PROVE KeyInv'
<1> USE DEF KeyInv
<1>1. published' = published /\ standing' = standing /\ cache' = cache /\ answer' = answer
      /\ waited' = waited /\ token' = [token EXCEPT ![p] = k]
      /\ failed' = [failed EXCEPT ![p] = FALSE]
  BY DEF Verify, platform
<1>2. CASE cache.keys # {} /\ cache.age < TTL
  <2>1. step' = [step EXCEPT ![p] = Verdict(cache.keys, k)] /\ snap' = snap
    BY <1>2 DEF Verify, Enter
  <2>2. /\ Verdict(cache.keys, k) \in {"accepted", "unknown"}
        /\ Verdict(cache.keys, k) = "accepted" /\ k \notin published => standing[k] < TTL + Fetch
        /\ Verdict(cache.keys, k) = "unknown" /\ k \in published => standing[k] < TTL + Fetch
    BY <1>2, VerdictJudged, KeyCacheAssumption DEF KeyTypeOK, Honesty, Keeping
  <2>3. KeyTypeOK'
    BY <1>1, <2>1, <2>2 DEF KeyTypeOK
  <2>4. Honesty' /\ Keeping'
    BY <1>1, <2>1 DEF Honesty, Keeping, Honest, Kept
  <2>5. Answering' /\ Stored' /\ Failed'
    BY <1>1, <2>1, <2>2 DEF Answering, Stored, Failed, KeyTypeOK
  <2>6. Judged'
    <3>1. NewsAge(p)' = TTL + Fetch
      BY <1>1 DEF NewsAge, KeyTypeOK
    <3>2. \A q \in Logins \ {p} : NewsAge(q)' = NewsAge(q)
      BY <1>1 DEF NewsAge, KeyTypeOK
    <3> QED
      BY <1>1, <2>1, <2>2, <3>1, <3>2 DEF Judged, KeyTypeOK
  <2> QED
    BY <2>3, <2>4, <2>5, <2>6
<1>3. CASE ~(cache.keys # {} /\ cache.age < TTL)
  <2>1. step' = [step EXCEPT ![p] = "asked"] /\ snap' = [snap EXCEPT ![p] = cache]
    BY <1>3 DEF Verify, Enter
  <2>3. KeyTypeOK'
    BY <1>1, <2>1 DEF KeyTypeOK
  <2>4. Honesty' /\ Keeping'
    BY <1>1, <2>1 DEF Honesty, Keeping, Honest, Kept, KeyTypeOK
  <2>5. Answering' /\ Stored' /\ Failed'
    BY <1>1, <2>1 DEF Answering, Stored, Failed, KeyTypeOK
  <2>6. Judged'
    BY <1>1, <2>1 DEF Judged, KeyTypeOK, NewsAge
  <2> QED
    BY <2>3, <2>4, <2>5, <2>6
<1> QED
  BY <1>2, <1>3

LEMMA AnswerStep == ASSUME KeyInv, NEW p \in Logins, Answer(p) PROVE KeyInv'
<1> USE DEF KeyInv
<1> DEFINE fresh == [keys |-> published, age |-> 0, told |-> 0]
<1>1. published' = published /\ standing' = standing /\ cache' = cache /\ snap' = snap
      /\ waited' = waited /\ token' = token /\ failed' = failed
      /\ step' = [step EXCEPT ![p] = "answered"] /\ answer' = [answer EXCEPT ![p] = fresh]
  BY DEF Answer, platform, Enter
<1>2. fresh \in Sets /\ fresh.told = 0 /\ Honest(fresh)
  <2>1. 0 \in Ages
    BY HorizonNat, SMT DEF Ages
  <2> QED
    BY <2>1 DEF Sets, Honest, KeyTypeOK
<1> HIDE DEF fresh
<1>3. KeyTypeOK'
  BY <1>1, <1>2 DEF KeyTypeOK
<1>4. Honesty' /\ Keeping'
  BY <1>1, <1>2 DEF Honesty, Keeping, Honest, Kept, KeyTypeOK
<1>5. Answering'
  <2>1. 0 <= waited[p]
    BY KeyCacheAssumption, SMT DEF KeyTypeOK
  <2> QED
    BY <1>1, <1>2, <2>1 DEF Answering, KeyTypeOK
<1>6. Stored' /\ Failed' /\ Judged'
  BY <1>1 DEF Stored, Failed, Judged, KeyTypeOK, NewsAge
<1> QED
  BY <1>3, <1>4, <1>5, <1>6
\* What is stored may be older news than what it replaces, but not by more
\* than one fetch.
LEMMA StoreStep == ASSUME KeyInv, NEW p \in Logins, Store(p) PROVE KeyInv'
<1> USE DEF KeyInv
<1> DEFINE new == [answer[p] EXCEPT !.age = 0]
<1>1. published' = published /\ standing' = standing /\ snap' = snap
      /\ token' = token /\ failed' = failed /\ step[p] = "answered" /\ cache' = new
      /\ step' = [step EXCEPT ![p] = "stored"] /\ answer' = [answer EXCEPT ![p] = Nothing]
      /\ waited' = [waited EXCEPT ![p] = 0]
  BY DEF Store, platform, Enter
<1>2. answer[p] \in Sets /\ answer[p].told <= waited[p] /\ waited[p] \in 0..Fetch /\ Honest(answer[p])
  BY <1>1 DEF Answering, KeyTypeOK, Honesty
<1>3. new \in Sets /\ new.age = 0 /\ new.told = answer[p].told /\ new.keys = answer[p].keys
  <2>1. 0 \in Ages
    BY HorizonNat, SMT DEF Ages
  <2> QED
    BY <1>2, <2>1 DEF Sets
<1>4. Kept(new)
  BY <1>2, <1>3, KeyCacheAssumption, SMT DEF Kept, Sets, Ages
<1>5. Honest(new)
  BY <1>2, <1>3 DEF Honest
<1> HIDE DEF new
<1>6. KeyTypeOK'
  <2>1. 0 \in 0..Fetch
    BY KeyCacheAssumption, SMT
  <2> QED
    BY <1>1, <1>3, <2>1, NothingSet DEF KeyTypeOK
<1>7. Honesty' /\ Keeping'
  BY <1>1, <1>4, <1>5, NothingSet DEF Honesty, Keeping, Honest, Kept, KeyTypeOK
<1>8. Answering' /\ Failed' /\ Judged'
  BY <1>1 DEF Answering, Failed, Judged, KeyTypeOK, NewsAge
<1>9. Stored'
  BY <1>1, <1>3 DEF Stored
<1> QED
  BY <1>6, <1>7, <1>8, <1>9

LEMMA FetchFailsStep == ASSUME KeyInv, NEW p \in Logins, FetchFails(p) PROVE KeyInv'
<1> USE DEF KeyInv
<1>1. published' = published /\ standing' = standing /\ snap' = snap /\ cache' = cache
      /\ token' = token /\ failed' = [failed EXCEPT ![p] = TRUE]
      /\ step' = [step EXCEPT ![p] = "failed"] /\ answer' = [answer EXCEPT ![p] = Nothing]
      /\ waited' = [waited EXCEPT ![p] = 0]
  BY DEF FetchFails, platform, Enter
<1>2. KeyTypeOK'
  <2>1. 0 \in 0..Fetch
    BY KeyCacheAssumption, SMT
  <2> QED
    BY <1>1, <2>1, NothingSet DEF KeyTypeOK
<1>3. Honesty' /\ Keeping'
  BY <1>1, NothingSet DEF Honesty, Keeping, Honest, Kept, KeyTypeOK
<1>4. Answering' /\ Stored' /\ Failed' /\ Judged'
  BY <1>1 DEF Answering, Stored, Failed, Judged, KeyTypeOK, NewsAge
<1> QED
  BY <1>2, <1>3, <1>4

\* A request is judged on the set s, whose age is less than n, and s is
\* forgotten.
LEMMA JudgeStep ==
    ASSUME KeyInv, NEW p \in Logins, NEW s \in Sets, Honest(s), Kept(s),
           NEW n \in Nat, s.age < n, n + Fetch <= NewsAge(p),
           Enter(p, Verdict(s.keys, token[p])), snap' = [snap EXCEPT ![p] = Nothing],
           UNCHANGED <<platform, cache, token, answer, waited, failed>>
    PROVE  KeyInv'
<1> USE DEF KeyInv
<1>1. published' = published /\ standing' = standing /\ cache' = cache
      /\ token' = token /\ failed' = failed /\ answer' = answer /\ waited' = waited
      /\ step' = [step EXCEPT ![p] = Verdict(s.keys, token[p])]
  BY DEF platform, Enter
<1>2. token[p] \in Keys
  BY DEF KeyTypeOK
<1>3. /\ Verdict(s.keys, token[p]) \in {"accepted", "unknown"}
      /\ Verdict(s.keys, token[p]) = "accepted" /\ token[p] \notin published => standing[token[p]] < n + Fetch
      /\ Verdict(s.keys, token[p]) = "unknown" /\ token[p] \in published => standing[token[p]] < n + Fetch
  BY <1>2, VerdictJudged
<1>4. KeyTypeOK'
  BY <1>1, <1>3, NothingSet DEF KeyTypeOK
<1>5. Honesty' /\ Keeping'
  BY <1>1, NothingSet DEF Honesty, Keeping, Honest, Kept, KeyTypeOK
<1>6. Answering' /\ Stored' /\ Failed'
  BY <1>1, <1>3 DEF Answering, Stored, Failed, KeyTypeOK
<1>7. Judged'
  <2>1. standing[token[p]] < n + Fetch => standing[token[p]] < NewsAge(p)
    BY <1>2, NewsAgeIs, KeyCacheAssumption, HorizonNat, SMT DEF KeyTypeOK, Ages
  <2>2. \A q \in Logins : NewsAge(q)' = NewsAge(q)
    BY <1>1 DEF NewsAge
  <2> QED
    BY <1>1, <1>3, <2>1, <2>2 DEF Judged, KeyTypeOK
<1> QED
  BY <1>4, <1>5, <1>6, <1>7

LEMMA RereadStep == ASSUME KeyInv, NEW p \in Logins, Reread(p) PROVE KeyInv'
<1>1. cache \in Sets /\ Honest(cache) /\ Kept(cache) /\ cache.age < TTL /\ TTL \in Nat
  BY KeyCacheAssumption DEF Reread, KeyInv, KeyTypeOK, Honesty, Keeping, Stored
<1>2. TTL + Fetch <= NewsAge(p)
  BY NewsAgeIs DEF KeyInv
<1> QED
  BY <1>1, <1>2, JudgeStep DEF Reread

LEMMA ServeStaleStep == ASSUME KeyInv, NEW p \in Logins, ServeStale(p) PROVE KeyInv'
<1>1. CASE snap[p].keys # {} /\ snap[p].age < MaxStale
  <2>1. snap[p] \in Sets /\ Honest(snap[p]) /\ Kept(snap[p]) /\ MaxStale \in Nat
    BY KeyCacheAssumption DEF KeyInv, KeyTypeOK, Honesty, Keeping
  <2>2. MaxStale + Fetch <= NewsAge(p)
    <3>1. NewsAge(p) = MaxStale + Fetch
      BY NewsAgeIs DEF ServeStale, KeyInv, Failed
    <3> QED
      BY <3>1, KeyCacheAssumption, SMT
  <2> QED
    BY <1>1, <2>1, <2>2, JudgeStep DEF ServeStale
<1>2. CASE ~(snap[p].keys # {} /\ snap[p].age < MaxStale)
  <2>1. published' = published /\ standing' = standing /\ cache' = cache
        /\ token' = token /\ failed' = failed /\ answer' = answer /\ waited' = waited
        /\ step' = [step EXCEPT ![p] = "unavailable"] /\ snap' = [snap EXCEPT ![p] = Nothing]
    BY <1>2 DEF ServeStale, platform, Enter
  <2>2. KeyTypeOK'
    BY <2>1, NothingSet DEF KeyInv, KeyTypeOK
  <2>3. Honesty' /\ Keeping'
    BY <2>1, NothingSet DEF KeyInv, Honesty, Keeping, Honest, Kept, KeyTypeOK
  <2>4. Answering' /\ Stored' /\ Failed' /\ Judged'
    BY <2>1 DEF KeyInv, Answering, Stored, Failed, Judged, KeyTypeOK, NewsAge
  <2> QED
    BY <2>2, <2>3, <2>4 DEF KeyInv
<1> QED
  BY <1>1, <1>2

LEMMA ReplyStep == ASSUME KeyInv, NEW p \in Logins, Reply(p) PROVE KeyInv'
<1>1. published' = published /\ standing' = standing /\ cache' = cache /\ snap' = snap
      /\ token' = token /\ failed' = failed /\ answer' = answer /\ waited' = waited
      /\ step' = [step EXCEPT ![p] = "idle"]
  BY DEF Reply, platform, Enter
<1> QED
  BY <1>1 DEF KeyInv, KeyTypeOK, Honesty, Keeping, Honest, Kept, Answering, Stored, Failed, Judged, NewsAge
\* The key that changes has changed just now; nothing else can be wrong anew.
LEMMA RotateStep == ASSUME KeyInv, Rotate PROVE KeyInv'
<1> USE DEF KeyInv
<1>1. PICK k \in Keys :
         /\ published' = IF k \in published THEN published \ {k} ELSE published \cup {k}
         /\ standing' = [standing EXCEPT ![k] = 0]
  BY DEF Rotate
<1>2. /\ published' # {} /\ cache' = cache /\ step' = step /\ token' = token /\ snap' = snap
      /\ answer' = answer /\ waited' = waited /\ failed' = failed
  BY DEF Rotate
<1>3. \A x \in Keys : x # k => (x \in published' <=> x \in published) /\ standing'[x] = standing[x]
  BY <1>1 DEF KeyTypeOK
<1>4. standing'[k] = 0 /\ 0 \in Ages
  BY <1>1, HorizonNat, SMT DEF KeyTypeOK, Ages
<1>5. KeyTypeOK'
  <2>1. published' \in (SUBSET Keys) \ {{}}
    BY <1>1, <1>2 DEF KeyTypeOK
  <2>2. standing' \in [Keys -> Ages]
    BY <1>1, <1>4 DEF KeyTypeOK
  <2> QED
    BY <1>2, <2>1, <2>2 DEF KeyTypeOK
<1>6. ASSUME NEW s \in Sets, Honest(s)
      PROVE  \A x \in Keys : ~(x \in s.keys <=> x \in published') => standing'[x] <= s.told
  <2>1. 0 <= s.told
    BY HorizonNat, SMT DEF Sets, Ages
  <2> QED
    BY <1>3, <1>4, <1>6, <2>1 DEF Honest
<1>7. Honesty' /\ Keeping'
  BY <1>2, <1>6 DEF Honesty, Keeping, Honest, Kept, KeyTypeOK
<1>8. Answering' /\ Stored' /\ Failed'
  BY <1>2 DEF Answering, Stored, Failed
<1>9. Judged'
  <2>1. ASSUME NEW q \in Logins
        PROVE  /\ NewsAge(q)' = NewsAge(q) /\ 0 < NewsAge(q)
               /\ token'[q] = token[q] /\ token[q] \in Keys /\ step'[q] = step[q]
    BY <1>2, NewsAgeIs DEF NewsAge, KeyTypeOK
  <2> QED
    BY <1>3, <1>4, <2>1 DEF Judged
<1> QED
  BY <1>5, <1>7, <1>8, <1>9

\* The clock moves only while every request is idle or fetches.
LEMMA KeyTickStep == ASSUME KeyInv, KeyTick PROVE KeyInv'
<1> USE DEF KeyInv
<1>1. /\ AgeAll /\ published' = published /\ step' = step /\ token' = token /\ failed' = failed
      /\ cache' = OlderSet(cache)
      /\ snap' = [p \in Logins |-> OlderSet(snap[p])]
      /\ answer' = [p \in Logins |-> OlderSet(answer[p])]
      /\ standing' = [k \in Keys |-> Older(standing[k])]
      /\ waited' = [p \in Logins |-> IF Fetching(p) THEN waited[p] + 1 ELSE waited[p]]
  BY DEF KeyTick, AgeAll
<1>2. \A p \in Logins : step[p] = "idle" \/ (Fetching(p) /\ waited[p] < Fetch)
  BY DEF KeyTick
<1>3. KeyTypeOK'
  <2>1. \A k \in Keys : Older(standing[k]) \in Ages
    BY OlderAge DEF KeyTypeOK
  <2>2. \A p \in Logins : OlderSet(snap[p]) \in Sets /\ OlderSet(answer[p]) \in Sets
    BY SetFields DEF KeyTypeOK
  <2>3. OlderSet(cache) \in Sets
    BY SetFields DEF KeyTypeOK
  <2>4. \A p \in Logins : (IF Fetching(p) THEN waited[p] + 1 ELSE waited[p]) \in 0..Fetch
    <3>1. ASSUME NEW p \in Logins
          PROVE  (IF Fetching(p) THEN waited[p] + 1 ELSE waited[p]) \in 0..Fetch
      <4>1. waited[p] \in 0..Fetch /\ (Fetching(p) => waited[p] < Fetch)
        BY <1>2 DEF KeyTypeOK, Fetching
      <4> QED
        BY <4>1, KeyCacheAssumption, SMT
    <3> QED
      BY <3>1
  <2> QED
    BY <1>1, <2>1, <2>2, <2>3, <2>4 DEF KeyTypeOK
<1>4. Honest(cache)' /\ Kept(cache)'
  BY <1>1, TickHonest DEF KeyTypeOK, Honesty, Keeping, Honest, Kept
<1>5. ASSUME NEW p \in Logins PROVE Honest(snap[p])' /\ Kept(snap[p])'
  <2>1. snap[p] \in Sets /\ Honest(snap[p]) /\ Kept(snap[p]) /\ snap'[p] = OlderSet(snap[p])
    BY <1>1 DEF KeyTypeOK, Honesty, Keeping
  <2> QED
    BY <1>1, <2>1, TickHonest DEF Honest, Kept
<1>6. ASSUME NEW p \in Logins PROVE Honest(answer[p])'
  <2>1. answer[p] \in Sets /\ Honest(answer[p]) /\ answer'[p] = OlderSet(answer[p])
    BY <1>1 DEF KeyTypeOK, Honesty
  <2>2. OlderSet(answer[p]).keys = answer[p].keys /\ OlderSet(answer[p]).told = Older(answer[p].told)
        /\ answer[p].told \in Ages
    BY <2>1, SetFields
  <2>3. ASSUME NEW k \in Keys, ~(k \in answer[p].keys <=> k \in published)
        PROVE  Older(standing[k]) <= Older(answer[p].told)
    BY <2>1, <2>2, <2>3, OlderAge DEF Honest, KeyTypeOK
  <2> QED
    BY <1>1, <2>1, <2>2, <2>3 DEF Honest
<1>7. Honesty' /\ Keeping'
  BY <1>4, <1>5, <1>6 DEF Honesty, Keeping
<1>8. Answering'
  <2>1. ASSUME NEW p \in Logins, step[p] = "answered"
        PROVE  answer'[p].told <= waited'[p]
    <3>1. answer'[p].told = Older(answer[p].told) /\ answer[p].told \in Ages
      BY <1>1, SetFields DEF KeyTypeOK
    <3>2. Older(answer[p].told) <= answer[p].told + 1 /\ Older(answer[p].told) \in Ages
      BY <3>1, OlderAge
    <3>3. waited'[p] = waited[p] + 1 /\ answer[p].told <= waited[p] /\ waited[p] \in 0..Fetch
      BY <1>1, <2>1 DEF Fetching, Answering, KeyTypeOK
    <3> QED
      BY <3>1, <3>2, <3>3, HorizonNat, KeyCacheAssumption, SMT DEF Ages
  <2> QED
    BY <1>1, <2>1 DEF Answering
<1>9. Stored' /\ Failed' /\ Judged'
  <2>1. Stored' /\ Failed'
    BY <1>1, <1>2 DEF Stored, Failed, Fetching
  <2>2. Judged'
    BY <1>1, <1>2 DEF Judged, Fetching
  <2> QED
    BY <2>1, <2>2
<1> QED
  BY <1>3, <1>7, <1>8, <1>9

LEMMA KeyStep == KeyInv /\ [KeyNext]_keyVars => KeyInv'
<1> SUFFICES ASSUME KeyInv, [KeyNext]_keyVars PROVE KeyInv'
  OBVIOUS
<1>1. CASE KeyNext
  BY <1>1, VerifyStep, AnswerStep, StoreStep, FetchFailsStep, RereadStep, ServeStaleStep,
     ReplyStep, RotateStep, KeyTickStep DEF KeyNext
<1>2. CASE UNCHANGED keyVars
  BY <1>2 DEF keyVars, KeyInv, KeyTypeOK, Honesty, Keeping, Honest, Kept, Answering, Stored,
     Failed, Judged, NewsAge
<1> QED
  BY <1>1, <1>2

\* The invariant behind the three: how old what a request judges by may be.
THEOREM KeyInductive == KeySpec => []KeyInv
  BY KeyInitially, KeyStep, PTL DEF KeySpec

\* No fetch is waited for longer than the client's timeout.
THEOREM KeyTypeCorrect == KeySpec => []KeyTypeOK
<1>1. KeyInv => KeyTypeOK
  BY DEF KeyInv
<1> QED
  BY <1>1, KeyInductive, PTL

\* A token signed with a key the platform took back is refused from then on
\* but for a bounded time, whatever order the answers are stored in.
THEOREM RevokedKeysDie == KeySpec => []RevokedDies
<1>1. KeyInv => RevokedDies
  BY DEF KeyInv, Judged, RevokedDies
<1> QED
  BY <1>1, KeyInductive, PTL

\* A key the platform has published for longer than that is known.
THEOREM PublishedKeysWork == KeySpec => []PublishedWorks
<1>1. KeyInv => PublishedWorks
  BY DEF KeyInv, Judged, PublishedWorks
<1> QED
  BY <1>1, KeyInductive, PTL

-----------------------------------------------------------------------------
(* Gateway, for every period and delay.                                    *)

\* While the route is missing, the next attempt comes before the gateway has
\* been up for the period: the time it has been up and the wait that is left
\* are within it together.
AttemptInTime == up /\ ~routed => upFor + timer <= Period

\* A gateway that is down has no route, and its time is not counted.
DownForgets == ~up => upFor = 0 /\ ~routed

RouteInv == RouteTypeOK /\ AttemptInTime /\ DownForgets

LEMMA RouteInitially == RouteInit => RouteInv
<1> SUFFICES ASSUME RouteInit PROVE RouteInv
  OBVIOUS
<1>1. First \in 1..2 * MaxDelay - 1 /\ 0 \in 0..Period /\ 0 \in 0..Period + 1 /\ 0 + 0 <= Period
  BY GatewayAssumption, SMT
<1> QED
  BY <1>1 DEF RouteInit, RouteInv, RouteTypeOK, AttemptInTime, DownForgets

\* A delay that is doubled only below MaxDelay stays below its double, and so
\* within the period.
LEMMA DelayBounded ==
    ASSUME RouteTypeOK
    PROVE  NextDelay \in 1..2 * MaxDelay - 1 /\ delay \in 0..Period
  BY GatewayAssumption, SMT DEF RouteTypeOK, NextDelay

\* An attempt at a gateway that is up restores the route; no other one
\* changes it.
LEMMA RegisterRestores ==
    ASSUME NEW ok \in BOOLEAN, routed \in BOOLEAN, up \in BOOLEAN, Register(ok)
    PROVE  (up => routed') /\ (~up => routed' = routed) /\ routed' \in BOOLEAN
  BY DEF Register

LEMMA RouteStep == RouteInv /\ [RouteNext]_routeVars => RouteInv'
<1> SUFFICES ASSUME RouteInv, [RouteNext]_routeVars PROVE RouteInv'
  OBVIOUS
<1> USE DEF RouteInv
<1>1. CASE Retry
  <2>1. PICK ok \in BOOLEAN :
           /\ Register(ok)
           /\ phase' = (IF ok THEN "steady" ELSE "retry")
           /\ timer' = (IF ok THEN Period ELSE delay)
           /\ delay' = (IF ok THEN delay ELSE NextDelay)
    BY <1>1 DEF Retry
  <2>2. (up => routed') /\ (~up => routed' = routed) /\ routed' \in BOOLEAN
    BY <2>1, RegisterRestores DEF RouteTypeOK
  <2>3. up' = up /\ upFor' = upFor
    BY <1>1 DEF Retry
  <2>4. RouteTypeOK'
    BY <2>1, <2>2, <2>3, DelayBounded, GatewayAssumption, SMT DEF RouteTypeOK
  <2> QED
    BY <2>2, <2>3, <2>4 DEF AttemptInTime, DownForgets
<1>2. CASE Refresh
  <2>1. PICK ok \in BOOLEAN : Register(ok)
    BY <1>2 DEF Refresh
  <2>2. (up => routed') /\ (~up => routed' = routed) /\ routed' \in BOOLEAN
    BY <2>1, RegisterRestores DEF RouteTypeOK
  <2> QED
    BY <1>2, <2>2, GatewayAssumption, SMT DEF Refresh, RouteTypeOK, AttemptInTime, DownForgets
<1>3. CASE GatewayStops
  <2>1. 0 \in 0..Period + 1
    BY GatewayAssumption, SMT
  <2> QED
    BY <1>3, <2>1 DEF GatewayStops, RouteTypeOK, AttemptInTime, DownForgets
<1>4. CASE GatewayStarts
  BY <1>4, GatewayAssumption, SMT DEF GatewayStarts, RouteTypeOK, AttemptInTime, DownForgets
<1>5. CASE Second
  BY <1>5, GatewayAssumption, SMT DEF Second, RouteTypeOK, AttemptInTime, DownForgets
<1>6. CASE UNCHANGED routeVars
  BY <1>6 DEF routeVars, RouteTypeOK, AttemptInTime, DownForgets
<1> QED
  BY <1>1, <1>2, <1>3, <1>4, <1>5, <1>6 DEF RouteNext

\* The invariant behind the two: a gateway without the route is asked in time.
THEOREM RouteInductive == RouteSpec => []RouteInv
  BY RouteInitially, RouteStep, PTL DEF RouteSpec

\* The delays stay bounded although the code doubles one it has only found
\* shorter than maxDelay (gateway.go:147-150).
THEOREM RouteTypeCorrect == RouteSpec => []RouteTypeOK
<1>1. RouteInv => RouteTypeOK
  BY DEF RouteInv
<1> QED
  BY <1>1, RouteInductive, PTL

\* The route survives a gateway restart (gateway.go:122-124).
THEOREM RouteSurvives == RouteSpec => []RouteReturns
<1>1. RouteInv => RouteReturns
  BY GatewayAssumption, SMT DEF RouteInv, RouteTypeOK, AttemptInTime, DownForgets, RouteReturns
<1> QED
  BY <1>1, RouteInductive, PTL
=============================================================================
