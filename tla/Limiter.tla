------------------------------ MODULE Limiter ------------------------------
(***************************************************************************)
(* The rate limiter in front of the mutating and of the expensive read     *)
(* endpoints: one token bucket per client and one they all share.          *)
(*                                                                         *)
(* keyedLimiter.allow holds k.mu while it finds or makes the client's      *)
(* bucket, then takes a token of that bucket, then one of the aggregate,   *)
(* each under the bucket's own lock: other requests, the clock and an      *)
(* eviction come in between.  Tokens are counted in units of which a       *)
(* request costs Cost, so that a tick can bring less than one token.       *)
(***************************************************************************)
EXTENDS Integers, FiniteSets

CONSTANTS
    Procs,                  \* requests handled at the same time
    Clients,                \* client keys
    Buckets,                \* identities of client buckets
    None,
    Cost,                   \* units of one token
    Rate, Capacity,         \* of a client's bucket: 1/s and 10, or 5/s and 60
    AggRate, AggCapacity,   \* of the aggregate: 3/s and 30, or 15/s and 180
    MaxTracked,             \* maxTrackedClients
    MaxNow,                 \* bound: ticks of the clock
    MaxMade                 \* bound: up to here buckets are counted

ASSUME LimiterAssumption ==
    /\ {Cost, MaxTracked} \subseteq Nat \ {0}
    /\ {Rate, Capacity, AggRate, AggCapacity, MaxNow, MaxMade} \subseteq Nat
    /\ None \notin Buckets \cup Clients

\* Requests handled at the same time are finitely many, and buckets are counted
\* until they are too many for FewClientsPass.
ASSUME FewAssumption ==
    /\ IsFiniteSet(Procs)
    /\ MaxMade * Capacity > AggCapacity \/ MaxMade * Rate > AggRate

VARIABLES
    now,
    table,      \* k.clients: the bucket of each client, None where there is none
    lastSeen,   \* clientBucket.seen
    bucket,     \* client buckets: tokens and the time they were counted
    aggregate,  \* the shared bucket
    pc,         \* idle, own (bucket found), shared (own token taken)
    client, mine,   \* the request's client and the bucket found for it
    since,      \* observer: when it began to count
    whom,       \* observer: the client it follows, None before it begins
    passed,     \* observer: requests let through since then
    taken,      \* observer: tokens taken of the bucket the client has in the table
    made,       \* ghost: buckets made
    stalled     \* ghost: the clock has moved while a request was between two steps

observer == <<since, whom, passed, taken>>
limitVars == <<now, table, lastSeen, bucket, aggregate, pc, client, mine,
          since, whom, passed, taken, made, stalled>>

Unmade == [tokens |-> 0, last |-> 0]
BucketOf(most) == [tokens : 0..most, last : 0..MaxNow]

\* Type correctness.
LimitTypeOK ==
    /\ now \in 0..MaxNow
    /\ table \in [Clients -> Buckets \cup {None}]
    /\ lastSeen \in [Clients -> 0..MaxNow]
    /\ bucket \in [Buckets -> BucketOf(Capacity)]
    /\ aggregate \in BucketOf(AggCapacity)
    /\ pc \in [Procs -> {"idle", "own", "shared"}]
    /\ client \in [Procs -> Clients \cup {None}]
    /\ mine \in [Procs -> Buckets \cup {None}]
    /\ since \in 0..MaxNow /\ whom \in Clients \cup {None}
    /\ passed \in Nat /\ taken \in Nat
    /\ made \in 0..MaxMade /\ stalled \in BOOLEAN

LimitInit ==
    /\ now = 0
    /\ table = [c \in Clients |-> None] /\ lastSeen = [c \in Clients |-> 0]
    /\ bucket = [b \in Buckets |-> Unmade]
    /\ aggregate = [tokens |-> AggCapacity, last |-> 0]
    /\ pc = [p \in Procs |-> "idle"]
    /\ client = [p \in Procs |-> None] /\ mine = [p \in Procs |-> None]
    /\ since = 0 /\ whom = None /\ passed = 0 /\ taken = 0
    /\ made = 0 /\ stalled = FALSE

----------------------------------------------------------------------------
(* rateBucket. *)

AtMost(m, n) == IF m < n THEN m ELSE n

\* What a bucket holds now, and the two answers of allow().
Refilled(b, rate, most) ==
    [tokens |-> AtMost(most, b.tokens + (now - b.last) * rate), last |-> now]
Has(b) == b.tokens >= Cost
Less(b) == [b EXCEPT !.tokens = @ - Cost]

----------------------------------------------------------------------------
(* keyedLimiter.allow. *)

Tracked == {c \in Clients : table[c] # None}
InUse == {table[c] : c \in Tracked} \cup {mine[p] : p \in Procs}

\* evictOldestLocked: of several that were seen last at the same time, any.
Oldest(c) == c \in Tracked /\ \A d \in Tracked : lastSeen[c] <= lastSeen[d]
Evict(c) == [d \in Clients |-> IF d = c THEN None ELSE table[d]]

Found(p, c, b) ==
    /\ pc' = [pc EXCEPT ![p] = "own"]
    /\ client' = [client EXCEPT ![p] = c]
    /\ mine' = [mine EXCEPT ![p] = b]
    /\ UNCHANGED <<now, aggregate, stalled>>

Known(p, c) ==
    /\ pc[p] = "idle" /\ table[c] # None
    /\ Found(p, c, table[c])
    /\ lastSeen' = [lastSeen EXCEPT ![c] = now]
    /\ UNCHANGED <<table, bucket, observer, made>>

\* A new bucket b, full, for c; o is given up for it.
Make(p, c, b, o) ==
    /\ b \in Buckets \ InUse
    /\ bucket' = [x \in Buckets |-> IF x = b THEN [tokens |-> Capacity, last |-> now]
                                   ELSE IF x \in InUse THEN bucket[x] ELSE Unmade]
    /\ table' = [Evict(o) EXCEPT ![c] = b]
    /\ lastSeen' = [d \in Clients |-> IF d = c THEN now ELSE IF d = o THEN 0 ELSE lastSeen[d]]
    /\ made' = AtMost(MaxMade, made + 1)
    /\ Found(p, c, b)

\* Mutant: the table is searched before k.mu is taken; the bucket another
\* request of the client has put there meanwhile is replaced.
NewUnlocked(p, c) ==
    /\ pc[p] = "idle"
    /\ table[c] = None \/ \E q \in Procs : client[q] = c /\ pc[q] = "own"
    /\ \E b \in Buckets : \E o \in {None} \cup Clients :
          /\ IF Cardinality(Tracked) < MaxTracked THEN o = None ELSE Oldest(o)
          /\ b = CHOOSE free \in Buckets : free \notin InUse
          /\ Make(p, c, b, o)
          /\ UNCHANGED observer

\* A full table gives up its oldest client first.  The observer stops when its
\* client goes.
New(p, c) ==
    /\ pc[p] = "idle" /\ table[c] = None
    /\ \E b \in Buckets : \E o \in {None} \cup Clients :
          /\ IF Cardinality(Tracked) < MaxTracked THEN o = None ELSE Oldest(o)
          /\ b = CHOOSE free \in Buckets : free \notin InUse
          /\ Make(p, c, b, o)
          /\ taken' = IF o = whom THEN 0 ELSE taken
          /\ UNCHANGED <<since, whom, passed>>

\* The request ends.
Done(p) ==
    /\ pc' = [pc EXCEPT ![p] = "idle"]
    /\ client' = [client EXCEPT ![p] = None]
    /\ mine' = [mine EXCEPT ![p] = None]

\* Mutant: a client that is refused takes a token of the aggregate too.
OwnDrawsBoth(p) ==
    /\ pc[p] = "own"
    /\ LET b == Refilled(bucket[mine[p]], Rate, Capacity)
       IN  bucket' = [bucket EXCEPT ![mine[p]] = IF Has(b) THEN Less(b) ELSE b]
    /\ taken' = taken /\ pc' = [pc EXCEPT ![p] = "shared"]
    /\ UNCHANGED <<client, mine, now, table, lastSeen, aggregate>>
    /\ UNCHANGED <<since, whom, passed, made, stalled>>

\* cb.bucket.allow(): a client that is refused leaves the aggregate alone.
Own(p) ==
    /\ pc[p] = "own"
    /\ LET b == Refilled(bucket[mine[p]], Rate, Capacity)
       IN  \/ /\ Has(b)
              /\ bucket' = [bucket EXCEPT ![mine[p]] = Less(b)]
              /\ taken' = taken + (IF client[p] = whom /\ mine[p] = table[whom] THEN 1 ELSE 0)
              /\ pc' = [pc EXCEPT ![p] = "shared"]
              /\ UNCHANGED <<client, mine>>
           \/ /\ ~Has(b)
              /\ bucket' = [bucket EXCEPT ![mine[p]] = b]
              /\ Done(p) /\ UNCHANGED taken
    /\ UNCHANGED <<now, table, lastSeen, aggregate, since, whom, passed, made, stalled>>

\* Mutant: the time at which the aggregate was refilled is not kept.
SharedForgetsTime(p) ==
    /\ pc[p] = "shared"
    /\ LET b == Refilled(aggregate, AggRate, AggCapacity)
       IN  \/ /\ Has(b) /\ passed' = passed + 1
              /\ aggregate' = [Less(b) EXCEPT !.last = aggregate.last]
           \/ ~Has(b) /\ aggregate' = b /\ UNCHANGED passed
    /\ Done(p)
    /\ UNCHANGED <<now, table, lastSeen, bucket, since, whom, taken, made, stalled>>

\* k.aggregate.allow().
Shared(p) ==
    /\ pc[p] = "shared"
    /\ LET b == Refilled(aggregate, AggRate, AggCapacity)
       IN  \/ Has(b) /\ aggregate' = Less(b) /\ passed' = passed + 1
           \/ ~Has(b) /\ aggregate' = b /\ UNCHANGED passed
    /\ Done(p)
    /\ UNCHANGED <<now, table, lastSeen, bucket, since, whom, taken, made, stalled>>

Tick ==
    /\ now < MaxNow /\ now' = now + 1
    /\ stalled' = (stalled \/ \E p \in Procs : pc[p] # "idle")
    /\ UNCHANGED <<table, lastSeen, bucket, aggregate, pc, client, mine, observer, made>>

\* The observer begins, at any time and with any client.
Observe(c) ==
    /\ whom = None
    /\ since' = now /\ whom' = c /\ passed' = 0 /\ taken' = 0
    /\ UNCHANGED <<now, table, lastSeen, bucket, aggregate, pc, client, mine, made, stalled>>

LimitNext ==
    \/ \E p \in Procs : (\E c \in Clients : Known(p, c) \/ New(p, c)) \/ Own(p) \/ Shared(p)
    \/ Tick
    \/ \E c \in Clients : Observe(c)

LimitSpec == LimitInit /\ [][LimitNext]_limitVars

----------------------------------------------------------------------------
(* What the limiter promises. *)

\* However the clients rotate their keys, and in whatever order their requests
\* run: in any stretch of time no more requests pass than the aggregate's burst
\* and its rate allow (middleware.go:74-82).
AggregateCeiling == Cost * passed <= AggCapacity + AggRate * (now - since)

\* Of one bucket a client takes no more tokens than its burst and rate allow,
\* and it keeps that bucket as long as it is tracked: two of its requests
\* never get a bucket each.
ClientCeiling == Cost * taken <= Capacity + Rate * (now - since)

\* As long as so few clients have come that their buckets together are within
\* the aggregate, it refuses none of them (middleware.go:71-72, "fairness", and
\* handlers.go:110-113).  A request that takes its two tokens at different
\* times is left out.
FewClientsPass ==
    [][\A p \in Procs :
          (pc[p] = "shared" /\ pc'[p] = "idle" /\ passed' = passed)
              => \/ stalled
                 \/ made * Capacity > AggCapacity
                 \/ made * Rate > AggRate]_limitVars
============================================================================
