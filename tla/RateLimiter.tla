---------------------------- MODULE RateLimiter -----------------------------
(***************************************************************************)
(* The in-memory sliding-window limiter in front of the login and ingest   *)
(* endpoints, over the life of one process.  A key is a path and a client  *)
(* address.                                                                *)
(*                                                                         *)
(* A hit is known by its time and by the number of the call that made it.  *)
(* The clock is monotonic, so the deque of a key is in the order of time   *)
(* and is kept as a set; popping from its left end while the hit there is  *)
(* too old is the same as keeping those that are not.                      *)
(***************************************************************************)
EXTENDS FiniteSets, Integers

CONSTANTS
    Clients,                  \* client addresses
    LoginLimit, IngestLimit,  \* requests per window, 0 = no limit
    Window,                   \* _WINDOW_SECONDS
    CleanEvery,               \* calls between two clean-ups of the map (1024)
    MaxTime, MaxCalls         \* bounds of the model

ASSUME LimiterAssumption ==
    /\ LoginLimit \in Nat /\ IngestLimit \in Nat
    /\ Window \in Nat /\ CleanEvery \in Nat \ {0}
    /\ MaxTime \in Nat /\ MaxCalls \in Nat

VARIABLES
    clock,      \* time.monotonic()
    calls,      \* RateLimiter._calls
    hits,       \* RateLimiter._hits, a function on the keys that have a bucket
    admitted,   \* history: every hit that was let through
    refused     \* history: when the newest request of a key was refused, or -1

vars == <<clock, calls, hits, admitted, refused>>

Paths == {"login", "ingest"}
Keys == [path: Paths, client: Clients]

\* _limit_for: only POSTs to these paths are limited.
LimitFor(k) == IF k.path = "login" THEN LoginLimit ELSE IngestLimit

Hit == [at: Nat, call: Nat]

TypeOK ==
    /\ clock \in Nat /\ calls \in Nat
    /\ DOMAIN hits \subseteq Keys
    /\ \A k \in DOMAIN hits : /\ hits[k] \subseteq Hit /\ IsFiniteSet(hits[k])
                               /\ Cardinality(hits[k]) <= LimitFor(k)
    /\ admitted \in [Keys -> SUBSET Hit]
    /\ refused \in [Keys -> Nat \cup {-1}]

Init ==
    /\ clock = 0 /\ calls = 0
    /\ hits = [k \in {} |-> {}]
    /\ admitted = [k \in Keys |-> {}]
    /\ refused = [k \in Keys |-> -1]

Tick ==
    /\ clock < MaxTime
    /\ clock' = clock + 1
    /\ UNCHANGED <<calls, hits, admitted, refused>>

-----------------------------------------------------------------------------
Bucket(k) == IF k \in DOMAIN hits THEN hits[k] ELSE {}

\* Mutant: the caller has already doubled the window.
Drained_late(k) == {h \in Bucket(k) : h.at >= clock - 2 * Window}

\* Mutant: a hit that is exactly one window old is dropped too.
Drained_early(k) == {h \in Bucket(k) : h.at > clock - Window}

\* The bucket after popping the hits older than the window.
Drained(k) == {h \in Bucket(k) : h.at >= clock - Window}

\* self._hits[key], which makes the bucket, drained.
Fetched(k) ==
    [j \in DOMAIN hits \cup {k} |-> IF j = k THEN Drained(k) ELSE hits[j]]

CleansUp == (calls + 1) % CleanEvery = 0

\* Mutant: the clean-up counts an old bucket as empty by its first hit.
Kept_byOldest(k) ==
    {j \in DOMAIN Fetched(k) : /\ Fetched(k)[j] # {}
                               /\ \A h \in Fetched(k)[j] : h.at >= clock - Window}

\* The keys that stay: every CleanEvery calls the empty buckets are deleted,
\* the one of this very request among them.
Kept(k) ==
    IF CleansUp THEN {j \in DOMAIN Fetched(k) : Fetched(k)[j] # {}}
                ELSE DOMAIN Fetched(k)

\* `bucket` is still the deque fetched before the clean-up: when the key was
\* deleted, the hit is appended to a deque nobody looks at any more.
Appended(k) ==
    [j \in Kept(k) |->
       IF j = k THEN Fetched(k)[j] \cup {[at |-> clock, call |-> calls + 1]}
                ELSE Fetched(k)[j]]

Admit(k) ==
    /\ LimitFor(k) > 0 /\ calls < MaxCalls
    /\ Cardinality(Drained(k)) < LimitFor(k)
    /\ calls' = calls + 1
    /\ hits' = Appended(k)
    /\ admitted' = [admitted EXCEPT ![k] = @ \cup {[at |-> clock, call |-> calls + 1]}]
    /\ refused' = [refused EXCEPT ![k] = -1]
    /\ UNCHANGED clock

\* Mutant: a refused request counts like one that was let through.
Refuse_counted(k) ==
    /\ LimitFor(k) > 0 /\ calls < MaxCalls
    /\ Cardinality(Drained(k)) >= LimitFor(k)
    /\ calls' = calls + 1
    /\ hits' = Appended(k)
    /\ refused' = [refused EXCEPT ![k] = clock]
    /\ UNCHANGED <<clock, admitted>>

\* The middleware answers 429 with Retry-After: 60.
Refuse(k) ==
    /\ LimitFor(k) > 0 /\ calls < MaxCalls
    /\ Cardinality(Drained(k)) >= LimitFor(k)
    /\ calls' = calls + 1
    /\ hits' = [j \in Kept(k) |-> Fetched(k)[j]]
    /\ refused' = [refused EXCEPT ![k] = clock]
    /\ UNCHANGED <<clock, admitted>>

\* A path without a limit, or whose limit is set to 0, is not counted at all.
PassThrough(k) == LimitFor(k) = 0 /\ UNCHANGED vars

Next == Tick \/ \E k \in Keys : Admit(k) \/ Refuse(k) \/ PassThrough(k)

Spec == Init /\ [][Next]_vars

-----------------------------------------------------------------------------
Recent(S) == {h \in S : h.at >= clock - Window}

\* "Per-IP rate limits (requests/minute) for abuse-prone endpoints": whatever
\* window one looks at, a client got no more requests through than the limit.
\* The code breaks this: the clean-up can delete the bucket that the request
\* which runs it has just fetched, and the hit is then lost.
WindowBound ==
    \A k \in Keys : Cardinality(Recent(admitted[k])) <= LimitFor(k)

\* A hit that can have been lost so: its own call ran the clean-up, and in the
\* window before it the client had no hit but others of that kind, so that its
\* bucket was empty.
Losable(k, h) ==
    /\ h.call % CleanEvery = 0
    /\ \A g \in admitted[k] :
          g.call < h.call /\ g.at >= h.at - Window => g.call % CleanEvery = 0

\* What the code guarantees: the limit is exceeded by no more than the hits of
\* clean-up calls that found nothing else of their client in the window.  No
\* other request, and no other client's clean-up, gives anyone an extra one.
ExcessOnlyByCleanUp ==
    \A k \in Keys :
       Cardinality(Recent(admitted[k]))
          <= LimitFor(k) + Cardinality({h \in Recent(admitted[k]) : Losable(k, h)})

\* Nobody is refused before the limit is used up: the requests that count
\* against a client were all let through, in the window.  Hammering costs
\* nothing, and nobody pays for another client or for another path.
OnlyExcessRefused ==
    [][\A k \in Keys :
          Refuse(k) => Cardinality(Recent(admitted[k])) >= LimitFor(k)]_vars

\* The hits in the window that are still in it after a step are still counted.
HitsSurvive ==
    \A k \in DOMAIN hits : \A h \in Recent(hits[k]) :
       h.at >= clock' - Window => k \in DOMAIN hits' /\ h \in hits'[k]

\* A counted hit that is still in the window is never forgotten, neither by
\* the requests of other clients nor by the clean-up they happen to run.
CountedHitsKept == [][HitsSurvive]_vars

\* "Retry-After": a client that was refused and stays away for longer than a
\* window is let through the next time.
RetryAfterHonoured ==
    [][\A k \in Keys :
          refused[k] # -1 /\ clock > refused[k] + Window => ~Refuse(k)]_vars
=============================================================================
