------------------------- MODULE HistoryTrendsProofs -------------------------
(***************************************************************************)
(* Theorems about HistoryTrends for all settings and environments that     *)
(* satisfy InTime; type correctness needs nothing of it.                   *)
(***************************************************************************)
EXTENDS HistoryTrends, TLAPS

USE SettingsAssumption

-----------------------------------------------------------------------------
(* Hours.                                                                  *)

\* The start of the hour of t is even and at most one half hour before t.
LEMMA HourFloorFacts ==
  ASSUME NEW t \in Nat
  PROVE  \E p \in Nat : HourFloor(t) = 2 * p /\ (t = 2 * p \/ t = 2 * p + 1)
  <1>1. PICK r \in {0, 1} : t % 2 = r
    OBVIOUS
  <1>2. t - (t % 2) \in Nat /\ (t - (t % 2)) % 2 = 0
    OBVIOUS
  <1>3. PICK p \in Nat : t - (t % 2) = 2 * p
    <2>1. (t - (t % 2)) \div 2 \in Nat /\ t - (t % 2) = 2 * ((t - (t % 2)) \div 2)
      BY <1>2
    <2> QED
      BY <2>1
  <1> QED
    BY <1>1, <1>3 DEF HourFloor, Hour

\* The look-back consists of whole hours.
LEMMA WindowAligned ==
  ASSUME NEW a \in Nat, NEW r \in Nat, NEW now \in Nat,
         InWindow(a, now), HourFloor(r) = HourFloor(a)
  PROVE  InWindow(r, now)
  <1>1. PICK p \in Nat : HourFloor(a) = 2 * p /\ (a = 2 * p \/ a = 2 * p + 1)
    BY HourFloorFacts
  <1>2. r = 2 * p \/ r = 2 * p + 1
    <2>1. PICK q \in Nat : HourFloor(r) = 2 * q /\ (r = 2 * q \/ r = 2 * q + 1)
      BY HourFloorFacts
    <2> QED
      BY <1>1, <2>1
  <1>3. PICK n \in Nat : HourFloor(now) = 2 * n
    BY HourFloorFacts
  <1>4. 2 * n - 2 * Lookback <= a /\ a < 2 * n
    BY <1>3 DEF InWindow, Hour
  <1>5. n - Lookback <= p /\ p < n
    BY <1>1, <1>4
  <1>6. 2 * n - 2 * Lookback <= r /\ r < 2 * n
    BY <1>2, <1>5
  <1> QED
    BY <1>3, <1>6 DEF InWindow, Hour

-----------------------------------------------------------------------------
(* Type correctness.                                                       *)

LEMMA InitType == Init => TypeOK
  BY DEF Init, TypeOK, JobType, PollType

LEMMA NextType == TypeOK /\ [Next]_vars => TypeOK'
  <1> SUFFICES ASSUME TypeOK, [Next]_vars PROVE TypeOK'
    OBVIOUS
  <1> USE DEF TypeOK, JobType, PollType
  <1>1. CASE Tick
    BY <1>1 DEF Tick
  <1>2. ASSUME NEW a \in 0 .. MaxTime + MaxAhead, RecordValue(a) PROVE TypeOK'
    BY <1>2 DEF RecordValue, Store, HasRoom
  <1>3. CASE StartPoll
    BY <1>3 DEF StartPoll
  <1>4. CASE PollAnswered
    BY <1>4 DEF PollAnswered, Store, HasRoom
  <1>5. CASE PollFails
    BY <1>5 DEF PollFails
  <1>6. CASE StartJob
    BY <1>6 DEF StartJob
  <1>7. CASE RollUp
    BY <1>7 DEF RollUp, Upserted
  <1>8. CASE PruneHistory
    BY <1>8 DEF PruneHistory
  <1>9. CASE PruneTrends
    BY <1>9 DEF PruneTrends
  <1>10. CASE JobFails
    BY <1>10 DEF JobFails
  <1>11. CASE UNCHANGED vars
    BY <1>11 DEF vars
  <1> QED
    BY <1>1, <1>2, <1>3, <1>4, <1>5, <1>6, <1>7, <1>8, <1>9, <1>10, <1>11 DEF Next

\* The tables and the jobs keep their types, and no job works for a time to come.
THEOREM TypeCorrect == Spec => []TypeOK
  BY InitType, NextType, PTL DEF Spec

-----------------------------------------------------------------------------
(* The jobs and the clock.                                                 *)

\* A job deletes for the time of the roll-up it has just committed; neither the
\* clock nor an answer is late.
PaceInv ==
    /\ job.pc = "rollup" => lastRoll <= job.now
    /\ job.pc \in {"prune", "pruneTrends"} => job.now = lastRoll
    /\ clock <= lastRoll + MaxGap
    /\ poll.pc = "get" => clock <= poll.now + MaxLate

LEMMA PaceNext == TypeOK /\ PaceInv /\ [Next]_vars => PaceInv'
  <1> SUFFICES ASSUME TypeOK, PaceInv, [Next]_vars PROVE PaceInv'
    OBVIOUS
  <1> USE DEF TypeOK, JobType, PollType, PaceInv
  <1>1. CASE Tick
    BY <1>1 DEF Tick
  <1>2. ASSUME NEW a \in 0 .. MaxTime + MaxAhead, RecordValue(a) PROVE PaceInv'
    BY <1>2 DEF RecordValue
  <1>3. CASE StartPoll
    BY <1>3 DEF StartPoll
  <1>4. CASE PollAnswered \/ PollFails
    BY <1>4 DEF PollAnswered, PollFails
  <1>5. CASE StartJob
    BY <1>5 DEF StartJob
  <1>6. CASE RollUp
    BY <1>6 DEF RollUp
  <1>7. CASE PruneHistory \/ PruneTrends \/ JobFails
    BY <1>7 DEF PruneHistory, PruneTrends, JobFails
  <1>8. CASE UNCHANGED vars
    BY <1>8 DEF vars
  <1> QED
    BY <1>1, <1>2, <1>3, <1>4, <1>5, <1>6, <1>7, <1>8 DEF Next

-----------------------------------------------------------------------------
(* No sample is lost.                                                      *)

\* Only retention takes samples away, those older than it at the last roll-up.
PrunedInv ==
    \A a \in recorded \ samples : Retention # 0 /\ a < lastRoll - Retention

\* A sample that is not in a row yet is there, and young enough to be in the
\* window of the next roll-up.
PendingInv ==
    \A a \in recorded :
       \/ a \in rolled \/ Expired(a)
       \/ a \in samples /\ lastRoll <= a + Larger(MaxLate, Hour)

LostInv == PaceInv /\ PrunedInv /\ PendingInv

\* A roll-up finds all the samples of the hours it computes.
LEMMA RollUpKeepsRows ==
  ASSUME InTime, TypeOK, LostInv, RollUp, NEW r \in rolled
  PROVE  r \in rolled'
  <1> DEFINE S == {a \in samples : InWindow(a, job.now)}
  <1>0. /\ job.now \in Nat /\ lastRoll \in Nat /\ lastRoll <= job.now /\ r \in recorded
        /\ recorded \subseteq Nat /\ samples \subseteq Nat
    BY DEF TypeOK, JobType, LostInv, PaceInv, RollUp
  <1>1. CASE \A a \in S : HourFloor(r) # HourFloor(a)
    BY <1>1 DEF RollUp, Upserted
  <1>2. ASSUME NEW a \in S, HourFloor(r) = HourFloor(a) PROVE r \in rolled'
    <2>1. InWindow(r, job.now)
      BY <1>0, <1>2, WindowAligned
    <2>2. r \in samples
      <3>1. PICK n \in Nat : HourFloor(job.now) = 2 * n /\ job.now <= 2 * n + 1
        BY <1>0, HourFloorFacts
      <3>2. 2 * n - 2 * Lookback <= r
        BY <2>1, <3>1 DEF InWindow, Hour
      <3>3. Retention # 0 => r >= lastRoll - Retention
        BY <1>0, <3>1, <3>2 DEF InTime, Hour
      <3> QED
        BY <1>0, <3>3 DEF LostInv, PrunedInv
    <2> QED
      BY <2>1, <2>2 DEF RollUp, Upserted
  <1> QED
    BY <1>1, <1>2

LEMMA LostNext == InTime /\ TypeOK /\ LostInv /\ [Next]_vars => LostInv'
  <1> SUFFICES ASSUME InTime, TypeOK, LostInv, [Next]_vars PROVE LostInv'
    OBVIOUS
  <1>0. /\ PaceInv /\ PaceInv' /\ clock \in Nat /\ lastRoll \in Nat /\ lastRoll <= clock
        /\ recorded \subseteq Nat /\ samples \subseteq recorded /\ rolled \subseteq recorded
        /\ job.now \in Nat /\ job.now <= clock /\ poll.now \in Nat
        /\ Larger(MaxLate, Hour) \in Nat /\ MaxLate <= Larger(MaxLate, Hour)
        /\ 2 <= Larger(MaxLate, Hour)
    BY PaceNext DEF LostInv, TypeOK, JobType, PollType, Larger, Hour
  <1>1. ASSUME UNCHANGED <<samples, rolled, lastRoll, recorded>>, clock' \in Nat, clock <= clock'
        PROVE  LostInv'
    <2>1. ASSUME NEW a \in recorded, Expired(a) PROVE Expired(a)'
      <3>1. HourFloor(a) \in Nat
        BY <1>0, HourFloorFacts
      <3> QED
        BY <1>0, <1>1, <2>1, <3>1 DEF Expired
    <2> QED
      BY <1>0, <1>1, <2>1 DEF LostInv, PrunedInv, PendingInv
  <1>2. ASSUME NEW a \in Nat, clock - MaxLate <= a, Store(a),
               UNCHANGED <<clock, rolled, lastRoll>>
        PROVE  LostInv'
    <2>1. a \in samples' /\ lastRoll' <= a + Larger(MaxLate, Hour)
      BY <1>0, <1>2 DEF Store
    <2> QED
      BY <1>0, <1>2, <2>1 DEF Store, LostInv, PrunedInv, PendingInv, Expired
  <1>3. CASE PollAnswered
    <2>1. poll.now \in Nat /\ clock - MaxLate <= poll.now
      BY <1>0, <1>3 DEF PollAnswered, PaceInv
    <2> QED
      BY <1>2, <1>3, <2>1 DEF PollAnswered
  <1>4. CASE RollUp
    <2>1. lastRoll' = job.now /\ lastRoll <= job.now
      BY <1>0, <1>4 DEF RollUp, PaceInv
    <2>2. PrunedInv'
      BY <1>0, <1>4, <2>1 DEF RollUp, LostInv, PrunedInv
    <2>3. ASSUME NEW a \in recorded', a \notin rolled', ~Expired(a)'
          PROVE  a \in samples' /\ lastRoll' <= a + Larger(MaxLate, Hour)
      <3>1. a \in recorded /\ a \in Nat /\ a \notin rolled /\ ~Expired(a)
        BY <1>0, <1>4, <2>3, RollUpKeepsRows DEF RollUp, Expired
      <3>2. a \in samples /\ lastRoll <= a + Larger(MaxLate, Hour)
        BY <3>1 DEF LostInv, PendingInv
      <3>3. ~InWindow(a, job.now)
        BY <1>4, <2>3, <3>2 DEF RollUp, Upserted
      <3>4. PICK n \in Nat : HourFloor(job.now) = 2 * n /\ 2 * n <= job.now /\ job.now <= 2 * n + 1
        BY <1>0, HourFloorFacts
      <3>5. 2 * n - 2 * Lookback <= a
        BY <1>0, <3>1, <3>2, <3>4 DEF InTime, PaceInv, Hour
      <3>6. 2 * n <= a
        BY <3>1, <3>3, <3>4, <3>5 DEF InWindow, Hour
      <3> QED
        BY <1>0, <1>4, <2>1, <3>1, <3>2, <3>4, <3>6 DEF RollUp
    <2>4. PendingInv'
      BY <2>3 DEF PendingInv
    <2> QED
      BY <1>0, <2>2, <2>4 DEF LostInv
  <1>5. CASE PruneHistory
    <2>1. job.now = lastRoll
      BY <1>0, <1>5 DEF PruneHistory, PaceInv
    <2>2. PrunedInv'
      BY <1>0, <1>5, <2>1 DEF PruneHistory, LostInv, PrunedInv
    <2>3. ASSUME NEW a \in recorded, a \in samples, lastRoll <= a + Larger(MaxLate, Hour)
          PROVE  a \in samples'
      BY <1>0, <1>5, <2>1, <2>3 DEF PruneHistory, InTime, Hour
    <2> QED
      BY <1>0, <1>5, <2>2, <2>3 DEF PruneHistory, LostInv, PendingInv, Expired
  <1>6. CASE PruneTrends
    <2>1. ASSUME NEW a \in rolled, a \notin rolled' PROVE Expired(a)'
      <3>1. HourFloor(a) \in Nat
        BY <1>0, HourFloorFacts
      <3> QED
        BY <1>0, <1>6, <2>1, <3>1 DEF PruneTrends, Expired
    <2>2. UNCHANGED <<clock, samples, lastRoll, recorded>>
      BY <1>6 DEF PruneTrends
    <2>3. PendingInv'
      <3>1. \A a \in recorded : Expired(a)' <=> Expired(a)
        BY <2>2 DEF Expired
      <3> QED
        BY <2>1, <2>2, <3>1 DEF LostInv, PendingInv
    <2> QED
      BY <1>0, <2>2, <2>3 DEF LostInv, PrunedInv
  <1>7. CASE Tick
    BY <1>0, <1>1, <1>7 DEF Tick
  <1>8. CASE StartPoll \/ PollFails \/ StartJob \/ JobFails \/ UNCHANGED vars
    BY <1>0, <1>1, <1>8 DEF StartPoll, PollFails, StartJob, JobFails, vars
  <1>9. ASSUME NEW a \in 0 .. MaxTime + MaxAhead, RecordValue(a) PROVE LostInv'
    BY <1>2, <1>9 DEF RecordValue
  <1> QED
    BY <1>3, <1>4, <1>5, <1>6, <1>7, <1>8, <1>9 DEF Next

LEMMA LostInit == Init => LostInv
  BY DEF Init, LostInv, PaceInv, PrunedInv, PendingInv

LEMMA LostAlways == ASSUME InTime PROVE Spec => [](TypeOK /\ LostInv)
  <1>1. TypeOK /\ LostInv /\ [Next]_vars => LostInv'
    BY LostNext
  <1> QED
    BY <1>1, InitType, NextType, LostInit, PTL DEF Spec

\* With settings and an environment in time, every sample ever stored is in the
\* history or in its trend row until trend retention takes it.
THEOREM SamplesKept == ASSUME InTime PROVE Spec => []NoSampleLost
  <1>1. LostInv => NoSampleLost
    BY DEF LostInv, PendingInv, NoSampleLost
  <1> QED
    BY <1>1, LostAlways, PTL

\* Once late samples cannot come any more, a trend row is computed from every
\* sample its hour ever had.
THEOREM RowsComplete == ASSUME InTime PROVE Spec => []TrendsComplete
  <1>1. TypeOK /\ LostInv => TrendsComplete
    BY DEF TypeOK, LostInv, PendingInv, TrendsComplete, Larger, Hour
  <1> QED
    BY <1>1, LostAlways, PTL

\* The rows only ever grow.
THEOREM RowsGrow == ASSUME InTime PROVE Spec => TrendsOnlyGrow
  <1>1. ASSUME TypeOK, LostInv, [Next]_vars, NEW a \in rolled
        PROVE  a \in rolled' \/ Expired(a)
    <2>1. CASE RollUp
      BY <1>1, <2>1, RollUpKeepsRows
    <2>2. CASE PruneTrends
      <3>1. /\ HourFloor(a) \in Nat /\ clock \in Nat /\ job.now \in Nat /\ job.now <= clock
        BY <1>1, HourFloorFacts DEF TypeOK, JobType
      <3> QED
        BY <1>1, <2>2, <3>1 DEF PruneTrends, Expired
    <2> QED
      BY <1>1, <2>1, <2>2
      DEF Next, Tick, RecordValue, StartPoll, PollAnswered, PollFails, StartJob, PruneHistory,
          JobFails, vars
  <1>2. TypeOK /\ LostInv /\ [Next]_vars => [\A a \in rolled : a \in rolled' \/ Expired(a)]_vars
    BY <1>1
  <1> QED
    BY <1>2, LostAlways, PTL DEF Spec, TrendsOnlyGrow

-----------------------------------------------------------------------------
(* The poller.                                                             *)

\* The item is due while it is polled, also with respect to the polled samples
\* that retention has deleted since.
PollInv ==
    /\ PollsSpaced
    /\ poll.pc = "get" => \A a \in polled : a <= poll.now - Interval

LEMMA PollNext == InTime /\ TypeOK /\ LostInv /\ PollInv /\ [Next]_vars => PollInv'
  <1> SUFFICES ASSUME InTime, TypeOK, LostInv, PollInv, [Next]_vars PROVE PollInv'
    OBVIOUS
  <1>0. /\ polled \subseteq recorded /\ recorded \subseteq Nat /\ poll.now \in Nat
        /\ clock \in Nat /\ lastRoll \in Nat /\ lastRoll <= clock /\ poll \in PollType
    BY DEF TypeOK, PollType
  <1>1. CASE StartPoll
    <2>1. ASSUME NEW a \in polled PROVE a <= clock - Interval
      <3>1. CASE a \in samples
        BY <1>0, <1>1, <3>1 DEF StartPoll, Due
      <3>2. CASE a \notin samples
        BY <1>0, <3>2 DEF LostInv, PrunedInv, InTime
      <3> QED
        BY <3>1, <3>2
    <2> QED
      BY <1>1, <2>1 DEF StartPoll, PollInv, PollsSpaced
  <1>2. CASE PollAnswered
    BY <1>0, <1>2 DEF PollAnswered, PollInv, PollsSpaced, PollType
  <1>3. CASE PollFails
    BY <1>0, <1>3 DEF PollFails, PollInv, PollsSpaced, PollType
  <1>4. CASE UNCHANGED <<poll, polled>>
    BY <1>4 DEF PollInv, PollsSpaced
  <1> QED
    BY <1>1, <1>2, <1>3, <1>4
    DEF Next, Tick, RecordValue, StartJob, RollUp, PruneHistory, PruneTrends, JobFails, vars

\* Two polled samples are an interval apart: deleting the sample that a poll
\* stored does not make the item due too early.
THEOREM PollsKeepInterval == ASSUME InTime PROVE Spec => []PollsSpaced
  <1>1. Init => PollInv
    BY DEF Init, PollInv, PollsSpaced
  <1>2. TypeOK /\ LostInv /\ PollInv /\ [Next]_vars => PollInv'
    BY PollNext
  <1>3. PollInv => PollsSpaced
    BY DEF PollInv
  <1> QED
    BY <1>1, <1>2, <1>3, LostAlways, PTL DEF Spec
=============================================================================
