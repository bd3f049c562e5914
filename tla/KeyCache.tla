------------------------------ MODULE KeyCache ------------------------------
(***************************************************************************)
(* The verification keys of session tokens: auth.Verifier, asked by        *)
(* several requests at a time while the platform changes its keys.         *)
(*                                                                         *)
(* Times are ages in ticks.  Only a fetch takes time, at most Fetch ticks: *)
(* the client gives up then; the clock does not move while a request is    *)
(* between two other steps.  A set of keys is kept with the age of what it *)
(* says (told), which the code does not know: it knows when it was stored. *)
(***************************************************************************)
EXTENDS Integers, FiniteSets

CONSTANTS
    Logins,      \* requests verified at the same time
    Keys,       \* signing keys of the platform
    TTL,        \* jwksTTL
    MaxStale,   \* jwksMaxStale
    Fetch       \* timeout of the HTTP client

ASSUME KeyCacheAssumption ==
    /\ {TTL, MaxStale, Fetch} \subseteq Nat
    /\ 0 < TTL /\ TTL <= MaxStale

\* From here on an age is not counted further.
Horizon == MaxStale + Fetch + 1
Ages == 0..Horizon

VARIABLES
    published,  \* keys the platform publishes, never none
    standing,   \* age of each key's being published or not
    cache,      \* Verifier.keys and fetched, and told
    step,       \* where each request is
    token,      \* the key its token is signed with
    snap,       \* the cached keys it found
    answer,     \* the keys its fetch has brought
    waited,     \* how long its fetch has run
    failed      \* its fetch has failed

platform == <<published, standing>>
keyVars == <<published, standing, cache, step, token, snap, answer, waited, failed>>

Sets == [keys : SUBSET Keys, age : Ages, told : Ages]
Nothing == [keys |-> {}, age |-> Horizon, told |-> Horizon]

\* Type correctness.
KeyTypeOK ==
    /\ published \in (SUBSET Keys) \ {{}}
    /\ standing \in [Keys -> Ages]
    /\ cache \in Sets
    /\ step \in [Logins -> {"idle", "asked", "answered", "stored", "failed", "accepted", "unknown", "unavailable"}]
    /\ token \in [Logins -> Keys]
    /\ snap \in [Logins -> Sets] /\ answer \in [Logins -> Sets]
    /\ waited \in [Logins -> 0..Fetch] /\ failed \in [Logins -> BOOLEAN]

\* Before Warm: nothing is cached.
KeyInit ==
    /\ published \in (SUBSET Keys) \ {{}}
    /\ standing = [k \in Keys |-> Horizon]
    /\ cache = Nothing
    /\ step = [p \in Logins |-> "idle"] /\ token \in [Logins -> Keys]
    /\ \A p, q \in Logins : token[p] = token[q]
    /\ snap = [p \in Logins |-> Nothing] /\ answer = [p \in Logins |-> Nothing]
    /\ waited = [p \in Logins |-> 0] /\ failed = [p \in Logins |-> FALSE]

----------------------------------------------------------------------------
(* Verify. *)

Verdict(keys, k) == IF k \in keys THEN "accepted" ELSE "unknown"
Enter(p, s) == step' = [step EXCEPT ![p] = s]

\* currentKeys: fresh keys are used as they are, older ones are fetched again.
Verify(p, k) ==
    /\ step[p] = "idle"
    /\ token' = [token EXCEPT ![p] = k]
    /\ failed' = [failed EXCEPT ![p] = FALSE]
    /\ IF cache.keys # {} /\ cache.age < TTL
       THEN Enter(p, Verdict(cache.keys, k)) /\ UNCHANGED snap
       ELSE Enter(p, "asked") /\ snap' = [snap EXCEPT ![p] = cache]
    /\ UNCHANGED <<platform, cache, answer, waited>>

\* Mutant: of a key set only the first key is taken.
AnswerFirst(p) ==
    /\ step[p] = "asked" /\ Enter(p, "answered")
    /\ \E k \in published : answer' = [answer EXCEPT ![p] = [keys |-> {k}, age |-> 0, told |-> 0]]
    /\ UNCHANGED <<platform, cache, token, snap, waited, failed>>

\* The platform answers with what it publishes then.
Answer(p) ==
    /\ step[p] = "asked" /\ Enter(p, "answered")
    /\ answer' = [answer EXCEPT ![p] = [keys |-> published, age |-> 0, told |-> 0]]
    /\ UNCHANGED <<platform, cache, token, snap, waited, failed>>

\* Mutant: the keys of the answer are added to those there are.
StoreAdds(p) ==
    /\ step[p] = "answered" /\ Enter(p, "stored")
    /\ cache' = [answer[p] EXCEPT !.age = 0, !.keys = @ \cup cache.keys]
    /\ answer' = [answer EXCEPT ![p] = Nothing]
    /\ waited' = [waited EXCEPT ![p] = 0]
    /\ UNCHANGED <<platform, token, snap, failed>>

\* refreshKeys stores what it got, whatever another request stored meanwhile.
Store(p) ==
    /\ step[p] = "answered" /\ Enter(p, "stored")
    /\ cache' = [answer[p] EXCEPT !.age = 0]
    /\ answer' = [answer EXCEPT ![p] = Nothing]
    /\ waited' = [waited EXCEPT ![p] = 0]
    /\ UNCHANGED <<platform, token, snap, failed>>

\* An error, an unusable answer or the timeout.
FetchFails(p) ==
    /\ step[p] \in {"asked", "answered"} /\ Enter(p, "failed")
    /\ answer' = [answer EXCEPT ![p] = Nothing]
    /\ waited' = [waited EXCEPT ![p] = 0]
    /\ failed' = [failed EXCEPT ![p] = TRUE]
    /\ UNCHANGED <<platform, cache, token, snap>>

\* The cached keys are read again after the refresh.
Reread(p) ==
    /\ step[p] = "stored" /\ Enter(p, Verdict(cache.keys, token[p]))
    /\ snap' = [snap EXCEPT ![p] = Nothing]
    /\ UNCHANGED <<platform, cache, token, answer, waited, failed>>

\* The keys found at first serve as long as they are younger than jwksMaxStale.
ServeStale(p) ==
    /\ step[p] = "failed"
    /\ Enter(p, IF snap[p].keys # {} /\ snap[p].age < MaxStale
               THEN Verdict(snap[p].keys, token[p]) ELSE "unavailable")
    /\ snap' = [snap EXCEPT ![p] = Nothing]
    /\ UNCHANGED <<platform, cache, token, answer, waited, failed>>

Reply(p) ==
    /\ step[p] \in {"accepted", "unknown", "unavailable"} /\ Enter(p, "idle")
    /\ UNCHANGED <<platform, cache, token, snap, answer, waited, failed>>

----------------------------------------------------------------------------
(* The platform and the clock. *)

\* The platform publishes a key or takes one back.
Rotate ==
    /\ \E k \in Keys :
          /\ published' = IF k \in published THEN published \ {k} ELSE published \cup {k}
          /\ standing' = [standing EXCEPT ![k] = 0]
    /\ published' # {}
    /\ UNCHANGED <<cache, step, token, snap, answer, waited, failed>>

Older(n) == IF n < Horizon THEN n + 1 ELSE n
OlderSet(s) == [s EXCEPT !.age = Older(@), !.told = Older(@)]
Fetching(p) == step[p] \in {"asked", "answered"}

AgeAll ==
    /\ standing' = [k \in Keys |-> Older(standing[k])]
    /\ cache' = OlderSet(cache)
    /\ snap' = [p \in Logins |-> OlderSet(snap[p])]
    /\ answer' = [p \in Logins |-> OlderSet(answer[p])]
    /\ waited' = [p \in Logins |-> IF Fetching(p) THEN waited[p] + 1 ELSE waited[p]]
    /\ UNCHANGED <<published, step, token, failed>>

KeyTick == (\A p \in Logins : step[p] = "idle" \/ (Fetching(p) /\ waited[p] < Fetch)) /\ AgeAll

KeyNext ==
    \/ \E p \in Logins :
          \/ \E k \in Keys : Verify(p, k)
          \/ Answer(p) \/ Store(p) \/ FetchFails(p) \/ Reread(p) \/ ServeStale(p) \/ Reply(p)
    \/ Rotate \/ KeyTick

KeySpec == KeyInit /\ [][KeyNext]_keyVars

----------------------------------------------------------------------------
(* What the verifier promises. *)

\* How old the news may be on which a token is judged.
NewsAge(p) == (IF failed[p] THEN MaxStale ELSE TTL) + Fetch

\* A token is accepted only if its key is published or was until a short time
\* ago, also when answers overtake each other and when the platform cannot be
\* asked (auth.go:29-32, "the verifier fails closed").
RevokedDies ==
    \A p \in Logins :
        (step[p] = "accepted" /\ token[p] \notin published) => standing[token[p]] < NewsAge(p)

\* A token whose key has been published for longer is not taken for unknown.
PublishedWorks ==
    \A p \in Logins :
        (step[p] = "unknown" /\ token[p] \in published) => standing[token[p]] < NewsAge(p)
=============================================================================
