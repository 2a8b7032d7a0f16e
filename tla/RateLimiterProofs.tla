-------------------------- MODULE RateLimiterProofs --------------------------
(***************************************************************************)
(* Theorems about RateLimiter for every set of clients, any limits, window *)
(* and clean-up period.                                                    *)
(***************************************************************************)
EXTENDS RateLimiter, FiniteSetTheorems, TLAPS

USE LimiterAssumption

-----------------------------------------------------------------------------
(* What one request does to the buckets.                                   *)

\* Draining never adds a hit, and keeps a bucket within its limit.
LEMMA DrainedBounded ==
  ASSUME TypeOK, NEW k \in Keys
  PROVE  /\ Drained(k) \subseteq Hit /\ IsFiniteSet(Drained(k))
         /\ Cardinality(Drained(k)) <= LimitFor(k)
         /\ Cardinality(Drained(k)) \in Nat /\ LimitFor(k) \in Nat
  <1>1. LimitFor(k) \in Nat
    BY DEF LimitFor
  <1>2. /\ Bucket(k) \subseteq Hit /\ IsFiniteSet(Bucket(k))
        /\ Cardinality(Bucket(k)) <= LimitFor(k)
    BY <1>1, FS_EmptySet DEF Bucket, TypeOK
  <1>3. Drained(k) \subseteq Bucket(k)
    BY DEF Drained
  <1>4. IsFiniteSet(Drained(k)) /\ Cardinality(Drained(k)) <= Cardinality(Bucket(k))
    BY <1>2, <1>3, FS_Subset
  <1>5. Cardinality(Drained(k)) \in Nat /\ Cardinality(Bucket(k)) \in Nat
    BY <1>2, <1>4, FS_CardinalityType
  <1> QED
    BY <1>1, <1>2, <1>3, <1>4, <1>5

\* A bucket that holds a hit is not deleted; a hit of another key, or one that
\* draining leaves, is still there afterwards.
LEMMA RequestKeepsHits ==
  ASSUME TypeOK, NEW k \in Keys, Admit(k) \/ Refuse(k),
         NEW j \in DOMAIN hits, NEW h \in hits[j],
         j = k => h \in Drained(k)
  PROVE  j \in DOMAIN hits' /\ h \in hits'[j]
  <1>1. j \in DOMAIN Fetched(k) /\ h \in Fetched(k)[j]
    BY DEF Fetched
  <1>2. j \in Kept(k)
    BY <1>1 DEF Kept
  <1> QED
    BY <1>1, <1>2 DEF Admit, Refuse, Appended

\* Nor does a request put anything into a bucket but, when it is let through,
\* its own hit into its own.
LEMMA RequestAddsHit ==
  ASSUME TypeOK, NEW k \in Keys, Admit(k) \/ Refuse(k), NEW j \in DOMAIN hits'
  PROVE  /\ j \in DOMAIN hits \cup {k}
         /\ j # k => hits'[j] = hits[j]
         /\ j = k => \/ hits'[j] = Drained(k)
                     \/ /\ Admit(k)
                        /\ hits'[j] = Drained(k) \cup {[at |-> clock, call |-> calls + 1]}
  <1>1. Kept(k) \subseteq DOMAIN hits \cup {k}
    BY DEF Kept, Fetched
  <1>2. DOMAIN hits' = Kept(k)
    BY DEF Admit, Refuse, Appended
  <1> QED
    BY <1>1, <1>2 DEF Admit, Refuse, Appended, Fetched

-----------------------------------------------------------------------------
(* Type correctness.                                                       *)

LEMMA InitType == Init => TypeOK
  BY DEF Init, TypeOK

LEMMA NextType == TypeOK /\ [Next]_vars => TypeOK'
  <1> SUFFICES ASSUME TypeOK, [Next]_vars PROVE TypeOK'
    OBVIOUS
  <1>1. CASE Tick
    BY <1>1 DEF Tick, TypeOK
  <1>2. ASSUME NEW k \in Keys, Admit(k) \/ Refuse(k) PROVE TypeOK'
    <2>1. [at |-> clock, call |-> calls + 1] \in Hit
      BY DEF Hit, TypeOK
    <2>2. DOMAIN hits' \subseteq Keys
      BY <1>2, RequestAddsHit DEF TypeOK
    <2>3. ASSUME NEW j \in DOMAIN hits'
          PROVE  /\ hits'[j] \subseteq Hit /\ IsFiniteSet(hits'[j])
                 /\ Cardinality(hits'[j]) <= LimitFor(j)
      <3>1. CASE j # k
        BY <1>2, <2>3, <3>1, RequestAddsHit DEF TypeOK
      <3>2. CASE j = k /\ hits'[j] = Drained(k)
        BY <3>2, DrainedBounded
      <3>3. CASE /\ j = k /\ Admit(k)
                 /\ hits'[j] = Drained(k) \cup {[at |-> clock, call |-> calls + 1]}
        <4>1. Cardinality(Drained(k)) < LimitFor(k)
          BY <3>3 DEF Admit
        <4>2. /\ IsFiniteSet(hits'[j])
              /\ \/ Cardinality(hits'[j]) = Cardinality(Drained(k))
                 \/ Cardinality(hits'[j]) = Cardinality(Drained(k)) + 1
          <5> DEFINE D == Drained(k)
                     x == [at |-> clock, call |-> calls + 1]
          <5>1. IsFiniteSet(D) /\ hits'[j] = D \cup {x}
            BY <3>3, DrainedBounded
          <5> HIDE DEF D, x
          <5>2. /\ IsFiniteSet(D \cup {x})
                /\ \/ Cardinality(D \cup {x}) = Cardinality(D)
                   \/ Cardinality(D \cup {x}) = Cardinality(D) + 1
            BY <5>1, FS_AddElement
          <5> QED
            BY <5>1, <5>2 DEF D
        <4> QED
          BY <2>1, <3>3, <4>1, <4>2, DrainedBounded
      <3> QED
        BY <1>2, <3>1, <3>2, <3>3, RequestAddsHit
    <2>4. /\ clock' \in Nat /\ calls' \in Nat
          /\ admitted' \in [Keys -> SUBSET Hit] /\ refused' \in [Keys -> Nat \cup {-1}]
      BY <1>2, <2>1 DEF Admit, Refuse, TypeOK
    <2> QED
      BY <2>2, <2>3, <2>4 DEF TypeOK
  <1>3. CASE UNCHANGED vars
    BY <1>3 DEF vars, TypeOK
  <1> QED
    BY <1>1, <1>2, <1>3 DEF Next, PassThrough

\* The buckets keep their types, and none ever holds more hits than its limit.
THEOREM TypeCorrect == Spec => []TypeOK
  BY InitType, NextType, PTL DEF Spec

-----------------------------------------------------------------------------
(* Counted hits.                                                           *)

\* Requests, of this client or of others, and the clean-up they run only take
\* hits away that are older than a window.
THEOREM HitsKept == Spec => CountedHitsKept
  <1>1. ASSUME TypeOK, [Next]_vars, NEW j \in DOMAIN hits, NEW h \in Recent(hits[j]),
               h.at >= clock' - Window
        PROVE  j \in DOMAIN hits' /\ h \in hits'[j]
    <2>1. h \in hits[j] /\ h.at >= clock - Window
      BY DEF Recent
    <2>2. ASSUME NEW k \in Keys, Admit(k) \/ Refuse(k)
          PROVE  j \in DOMAIN hits' /\ h \in hits'[j]
      <3>1. j = k => h \in Drained(k)
        BY <2>1 DEF Drained, Bucket
      <3> QED
        BY <1>1, <2>1, <2>2, <3>1, RequestKeepsHits
    <2> QED
      BY <1>1, <2>1, <2>2 DEF Next, Tick, PassThrough, vars
  <1>2. TypeOK /\ [Next]_vars => HitsSurvive
    BY <1>1 DEF HitsSurvive
  <1> QED
    BY <1>2, TypeCorrect, PTL DEF Spec, CountedHitsKept

-----------------------------------------------------------------------------
(* Refusals.                                                               *)

\* No hit is from the future, or newer than the refusal of its key.
RefusedInv ==
    \A k \in DOMAIN hits : \A h \in hits[k] :
       h.at <= clock /\ (refused[k] # -1 => h.at <= refused[k])

LEMMA RefusedNext == TypeOK /\ RefusedInv /\ [Next]_vars => RefusedInv'
  <1> SUFFICES ASSUME TypeOK, RefusedInv, [Next]_vars,
                      NEW j \in DOMAIN hits', NEW h \in hits'[j]
               PROVE  h.at <= clock' /\ (refused'[j] # -1 => h.at <= refused'[j])
    BY DEF RefusedInv
  <1>1. CASE Tick
    <2>1. h.at \in Nat
      BY <1>1 DEF Tick, TypeOK, Hit
    <2> QED
      BY <1>1, <2>1 DEF Tick, RefusedInv, TypeOK
  <1>2. ASSUME NEW k \in Keys, Admit(k) \/ Refuse(k), j # k
        PROVE  h.at <= clock' /\ (refused'[j] # -1 => h.at <= refused'[j])
    <2>1. j \in DOMAIN hits /\ h \in hits[j]
      BY <1>2, RequestAddsHit
    <2> QED
      BY <1>2, <2>1 DEF Admit, Refuse, RefusedInv, TypeOK
  <1>3. ASSUME NEW k \in Keys, Admit(k) \/ Refuse(k), j = k, h \in Drained(k)
        PROVE  h.at <= clock' /\ (refused'[j] # -1 => h.at <= refused'[j])
    <2>1. k \in DOMAIN hits /\ h \in hits[k]
      BY <1>3 DEF Drained, Bucket
    <2>2. h.at <= clock
      BY <2>1 DEF RefusedInv
    <2> QED
      BY <1>3, <2>2 DEF Admit, Refuse, TypeOK
  <1>4. ASSUME NEW k \in Keys, Admit(k), j = k, h \notin Drained(k)
        PROVE  h.at <= clock' /\ (refused'[j] # -1 => h.at <= refused'[j])
    <2>1. h.at = clock
      BY <1>4, RequestAddsHit
    <2> QED
      BY <1>4, <2>1 DEF Admit, TypeOK
  <1>5. CASE UNCHANGED vars
    BY <1>5 DEF vars, RefusedInv
  <1>6. ASSUME NEW k \in Keys, Refuse(k), j = k PROVE h \in Drained(k)
    <2>1. ~Admit(k)
      BY <1>6, DrainedBounded DEF Admit, Refuse
    <2> QED
      BY <1>6, <2>1, RequestAddsHit
  <1> QED
    BY <1>1, <1>2, <1>3, <1>4, <1>5, <1>6 DEF Next, PassThrough

\* After a window without being let through, a client is let through.
THEOREM RetryAfter == Spec => RetryAfterHonoured
  <1>1. Init => RefusedInv
    BY DEF Init, RefusedInv
  <1>2. ASSUME TypeOK, RefusedInv, NEW k \in Keys, refused[k] # -1,
               clock > refused[k] + Window
        PROVE  ~Refuse(k)
    <2>1. ASSUME NEW h \in Drained(k) PROVE FALSE
      <3>1. k \in DOMAIN hits /\ h \in hits[k] /\ h.at >= clock - Window
        BY DEF Drained, Bucket
      <3>2. h.at \in Nat /\ h.at <= refused[k]
        BY <1>2, <3>1 DEF RefusedInv, TypeOK, Hit
      <3> QED
        BY <1>2, <3>1, <3>2 DEF TypeOK
    <2>2. Cardinality(Drained(k)) = 0
      BY <2>1, FS_EmptySet
    <2> QED
      BY <2>2 DEF Refuse, LimitFor
  <1>3. TypeOK /\ RefusedInv =>
           [\A k \in Keys : refused[k] # -1 /\ clock > refused[k] + Window => ~Refuse(k)]_vars
    BY <1>2
  <1> QED
    BY <1>1, <1>3, InitType, NextType, RefusedNext, PTL DEF Spec, RetryAfterHonoured

-----------------------------------------------------------------------------
(* Nobody is refused too early.                                            *)

\* A bucket holds nothing but requests of its own key that were let through.
EarnedInv ==
    \A k \in Keys : /\ IsFiniteSet(admitted[k])
                    /\ k \in DOMAIN hits => hits[k] \subseteq admitted[k]

LEMMA InitEarned == Init => EarnedInv
  BY FS_EmptySet DEF Init, EarnedInv

LEMMA EarnedNext == TypeOK /\ EarnedInv /\ [Next]_vars => EarnedInv'
  <1> SUFFICES ASSUME TypeOK, EarnedInv, [Next]_vars, NEW j \in Keys
               PROVE  /\ IsFiniteSet(admitted'[j])
                      /\ j \in DOMAIN hits' => hits'[j] \subseteq admitted'[j]
    BY DEF EarnedInv
  <1>1. IsFiniteSet(admitted[j]) /\ (j \in DOMAIN hits => hits[j] \subseteq admitted[j])
    BY DEF EarnedInv
  <1>2. ASSUME NEW k \in Keys, Admit(k) \/ Refuse(k), j # k
        PROVE  /\ admitted'[j] = admitted[j]
               /\ j \in DOMAIN hits' => j \in DOMAIN hits /\ hits'[j] = hits[j]
    BY <1>2, RequestAddsHit DEF Admit, Refuse, TypeOK
  <1>3. Drained(j) \subseteq admitted[j]
    BY <1>1 DEF Drained, Bucket
  <1>4. ASSUME Admit(j)
        PROVE  /\ IsFiniteSet(admitted'[j])
               /\ j \in DOMAIN hits' => hits'[j] \subseteq admitted'[j]
    <2>1. admitted'[j] = admitted[j] \cup {[at |-> clock, call |-> calls + 1]}
      BY <1>4 DEF Admit, TypeOK
    <2>2. IsFiniteSet(admitted'[j])
      <3> DEFINE S == admitted[j]
      <3> HIDE DEF S
      <3>1. \A x : IsFiniteSet(S) => IsFiniteSet(S \cup {x})
        BY FS_AddElement
      <3> QED
        BY <1>1, <2>1, <3>1 DEF S
    <2> QED
      BY <1>3, <1>4, <2>1, <2>2, RequestAddsHit
  <1>5. ASSUME Refuse(j)
        PROVE  /\ IsFiniteSet(admitted'[j])
               /\ j \in DOMAIN hits' => hits'[j] \subseteq admitted'[j]
    <2>1. ~Admit(j)
      BY <1>5, DrainedBounded DEF Admit, Refuse
    <2> QED
      BY <1>1, <1>3, <1>5, <2>1, RequestAddsHit DEF Refuse
  <1>6. CASE UNCHANGED <<hits, admitted>>
    BY <1>1, <1>6
  <1> QED
    BY <1>1, <1>2, <1>4, <1>5, <1>6 DEF Next, Tick, PassThrough, vars

\* Whoever is refused had as many requests let through in the window as the
\* limit allows: with ExcessBounded, the answers are those of a limiter that
\* forgets nothing but the hits the clean-up can lose.
THEOREM RefusedForGoodReason == Spec => OnlyExcessRefused
  <1>2. ASSUME TypeOK, EarnedInv, NEW k \in Keys, Refuse(k)
        PROVE  Cardinality(Recent(admitted[k])) >= LimitFor(k)
    <2>1. Drained(k) \subseteq Recent(admitted[k])
      BY <1>2 DEF EarnedInv, Drained, Bucket, Recent
    <2>2. IsFiniteSet(Recent(admitted[k]))
      <3>1. Recent(admitted[k]) \subseteq admitted[k] /\ IsFiniteSet(admitted[k])
        BY <1>2 DEF EarnedInv, Recent
      <3> QED
        BY <3>1, FS_Subset
    <2>3. /\ Cardinality(Drained(k)) <= Cardinality(Recent(admitted[k]))
          /\ Cardinality(Drained(k)) \in Nat /\ Cardinality(Recent(admitted[k])) \in Nat
      BY <2>1, <2>2, FS_Subset, FS_CardinalityType
    <2> QED
      BY <1>2, <2>3 DEF Refuse, LimitFor
  <1>3. TypeOK /\ EarnedInv =>
           [\A k \in Keys : Refuse(k) => Cardinality(Recent(admitted[k])) >= LimitFor(k)]_vars
    BY <1>2
  <1> QED
    BY <1>3, InitType, NextType, InitEarned, EarnedNext, PTL DEF Spec, OnlyExcessRefused
-----------------------------------------------------------------------------
(* The limit, and what the clean-up adds to it.                            *)

\* Hits are numbered in the order of their calls.
NumberInv == \A k \in Keys : \A h \in admitted[k] : h.call <= calls

LEMMA NumberNext == TypeOK /\ NumberInv /\ [Next]_vars => NumberInv'
  <1> SUFFICES ASSUME TypeOK, NumberInv, [Next]_vars, NEW j \in Keys, NEW h \in admitted'[j]
               PROVE  h.call <= calls'
    BY DEF NumberInv
  <1>1. ASSUME h \in admitted[j] PROVE h.call <= calls /\ h.call \in Nat
    BY <1>1 DEF NumberInv, TypeOK, Hit
  <1>2. ASSUME NEW k \in Keys, Admit(k) PROVE h.call <= calls'
    BY <1>1, <1>2 DEF Admit, TypeOK
  <1>3. ASSUME NEW k \in Keys, Refuse(k) PROVE h.call <= calls'
    BY <1>1, <1>3 DEF Refuse, TypeOK
  <1>4. ASSUME UNCHANGED <<calls, admitted>> PROVE h.call <= calls'
    BY <1>1, <1>4
  <1> QED
    BY <1>2, <1>3, <1>4 DEF Next, Tick, PassThrough, vars

\* A hit in the window is in its bucket, unless it can have been lost.
CountedInv ==
    \A k \in Keys : \A h \in admitted[k] :
       h.at >= clock - Window => h \in Bucket(k) \/ Losable(k, h)

\* Whether a hit can have been lost is settled when it is made.
LEMMA LosableKept ==
  ASSUME TypeOK, NumberInv, [Next]_vars, NEW j \in Keys, NEW h \in admitted[j], Losable(j, h)
  PROVE  Losable(j, h)'
  <1> SUFFICES ASSUME NEW g \in admitted'[j], g.call < h.call, g.at >= h.at - Window
               PROVE  g.call % CleanEvery = 0
    BY DEF Losable
  <1>1. ASSUME g \in admitted[j] PROVE g.call % CleanEvery = 0
    BY <1>1 DEF Losable
  <1>2. ASSUME NEW k \in Keys, Admit(k) PROVE g \in admitted[j]
    <2>1. g \in admitted[j] \/ g = [at |-> clock, call |-> calls + 1]
      BY <1>2 DEF Admit, TypeOK
    <2>2. h.call <= calls /\ h.call \in Nat /\ calls \in Nat
      BY DEF NumberInv, TypeOK, Hit
    <2> QED
      BY <2>1, <2>2
  <1> QED
    BY <1>1, <1>2 DEF Next, Tick, Refuse, PassThrough, vars

LEMMA CountedNext == TypeOK /\ NumberInv /\ CountedInv /\ [Next]_vars => CountedInv'
  <1> SUFFICES ASSUME TypeOK, NumberInv, CountedInv, [Next]_vars,
                      NEW j \in Keys, NEW h \in admitted'[j], h.at >= clock' - Window
               PROVE  h \in Bucket(j)' \/ Losable(j, h)'
    BY DEF CountedInv
  <1>0. clock \in Nat /\ clock' \in Nat /\ clock <= clock'
    <2>1. ASSUME NEW k \in Keys, Admit(k) \/ Refuse(k) PROVE clock' = clock
      BY <2>1 DEF Admit, Refuse
    <2> QED
      BY <2>1 DEF TypeOK, Next, Tick, PassThrough, vars
  <1>1. ASSUME h \in admitted[j], ~Losable(j, h) PROVE h \in Bucket(j) /\ h.at >= clock - Window
    <2>1. h.at \in Nat
      BY <1>1 DEF TypeOK, Hit
    <2> QED
      BY <1>0, <1>1, <2>1 DEF CountedInv
  <1>2. ASSUME NEW k \in Keys, Admit(k) \/ Refuse(k), h \in admitted[j]
        PROVE  h \in Bucket(j)' \/ Losable(j, h)'
    <2>1. CASE Losable(j, h)
      BY <1>2, <2>1, LosableKept
    <2>2. CASE ~Losable(j, h)
      <3>1. j \in DOMAIN hits /\ h \in hits[j]
        BY <1>1, <1>2, <2>2 DEF Bucket
      <3>2. j = k => h \in Drained(k)
        BY <1>1, <1>2, <2>2 DEF Drained
      <3> QED
        BY <1>2, <3>1, <3>2, RequestKeepsHits DEF Bucket
    <2> QED
      BY <2>1, <2>2
  <1>3. ASSUME NEW k \in Keys, Admit(k), h \notin admitted[j]
        PROVE  h \in Bucket(j)' \/ Losable(j, h)'
    <2>1. j = k /\ h = [at |-> clock, call |-> calls + 1]
      BY <1>3 DEF Admit, TypeOK
    <2>2. CASE k \in Kept(k)
      BY <1>3, <2>1, <2>2 DEF Admit, Appended, Bucket
    <2>3. CASE k \notin Kept(k)
      <3>1. CleansUp /\ Drained(k) = {}
        BY <2>3 DEF Kept, Fetched
      <3>2. ASSUME NEW g \in admitted[k], g.at >= clock - Window PROVE g.call % CleanEvery = 0
        <4>1. g \notin Bucket(k)
          BY <3>1, <3>2 DEF Drained
        <4> QED
          BY <3>2, <4>1 DEF CountedInv, Losable
      <3>3. admitted'[k] = admitted[k] \cup {h}
        BY <1>3, <2>1 DEF Admit, TypeOK
      <3>4. h.call % CleanEvery = 0 /\ h.at = clock
        BY <2>1, <3>1 DEF CleansUp
      <3>5. \A g \in admitted'[k] :
               g.call < h.call /\ g.at >= h.at - Window => g.call % CleanEvery = 0
        BY <3>2, <3>3, <3>4
      <3> QED
        BY <2>1, <3>4, <3>5 DEF Losable
    <2> QED
      BY <2>2, <2>3
  <1>4. CASE Tick \/ UNCHANGED vars
    <2>1. h \in admitted[j] /\ Bucket(j)' = Bucket(j) /\ (Losable(j, h) => Losable(j, h)')
      BY <1>4 DEF Tick, vars, Bucket, Losable
    <2> QED
      BY <1>1, <2>1
  <1> QED
    BY <1>2, <1>3, <1>4 DEF Next, Refuse, PassThrough

\* Whatever window one looks at, the requests of a client that were let through
\* in it, every one counted, exceed the limit by no more than those whose own
\* call ran the clean-up when the client had nothing else in the window.
THEOREM ExcessBounded == Spec => []ExcessOnlyByCleanUp
  <1>1. Init => NumberInv /\ CountedInv
    BY DEF Init, NumberInv, CountedInv
  <1>2. TypeOK /\ EarnedInv /\ CountedInv => ExcessOnlyByCleanUp
    <2> SUFFICES ASSUME TypeOK, EarnedInv, CountedInv, NEW k \in Keys
                 PROVE  Cardinality(Recent(admitted[k]))
                           <= LimitFor(k)
                              + Cardinality({h \in Recent(admitted[k]) : Losable(k, h)})
      BY DEF ExcessOnlyByCleanUp
    <2> DEFINE R == Recent(admitted[k])
               L == {h \in R : Losable(k, h)}
               B == Bucket(k)
    <2>1. IsFiniteSet(R)
      <3>1. R \subseteq admitted[k] /\ IsFiniteSet(admitted[k])
        BY DEF EarnedInv, Recent
      <3> QED
        BY <3>1, FS_Subset
    <2>2. R \subseteq B \cup L
      BY DEF CountedInv, Recent
    <2>3. L \subseteq R
      OBVIOUS
    <2>4. IsFiniteSet(B) /\ Cardinality(B) <= LimitFor(k) /\ LimitFor(k) \in Nat
      BY FS_EmptySet DEF Bucket, TypeOK, LimitFor
    <2> HIDE DEF R, L, B
    <2>5. IsFiniteSet(L)
      BY <2>1, <2>3, FS_Subset
    <2>6. /\ IsFiniteSet(B \cup L)
          /\ Cardinality(B \cup L)
                = Cardinality(B) + Cardinality(L) - Cardinality(B \cap L)
      BY <2>4, <2>5, FS_Union
    <2>7. Cardinality(R) <= Cardinality(B \cup L)
      BY <2>2, <2>6, FS_Subset
    <2>8. IsFiniteSet(B \cap L)
      BY <2>4, FS_Subset
    <2>9. /\ Cardinality(R) \in Nat /\ Cardinality(B) \in Nat /\ Cardinality(L) \in Nat
          /\ Cardinality(B \cap L) \in Nat
      BY <2>1, <2>4, <2>5, <2>8, FS_CardinalityType
    <2>10. Cardinality(R) <= LimitFor(k) + Cardinality(L)
      BY <2>4, <2>6, <2>7, <2>9
    <2> QED
      BY <2>10 DEF R, L
  <1>3. TypeOK /\ NumberInv /\ CountedInv /\ [Next]_vars => NumberInv' /\ CountedInv'
    BY NumberNext, CountedNext
  <1> QED
    BY <1>1, <1>2, <1>3, InitType, NextType, InitEarned, EarnedNext, PTL DEF Spec

=============================================================================
