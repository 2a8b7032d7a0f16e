--------------------------- MODULE HistoryTrends ---------------------------
(***************************************************************************)
(* The history of one numeric item: samples that are pushed, mirrored or   *)
(* polled, the hourly maintenance job that rolls them up into trends and   *)
(* prunes both, and the SNMP poller.                                       *)
(*                                                                         *)
(* Time is counted in half hours.  A sample is known by its collected_at,  *)
(* which the client may choose, and not by its value: the row of an hour   *)
(* in metric_trends is a function (min, avg, max, count) of the samples it *)
(* was computed from, so `rolled` holds those samples and the row of hour  *)
(* b is {a \in rolled : HourFloor(a) = b}, no row when that is empty.      *)
(***************************************************************************)
EXTENDS Integers, FiniteSets

CONSTANTS
    Lookback,         \* trends_rollup_lookback_hours
    Retention,        \* history_retention_days, in half hours, 0 = keep
    TrendRetention,   \* trends_retention_days, in half hours, 0 = keep
    Interval,         \* Item.interval of the polled item, in half hours
    MaxLate,          \* a sample is stored at most this long after collected_at
    MaxAhead,         \* a client's clock is at most this far ahead
    MaxGap,           \* a roll-up succeeds at least this often
    MaxTime, MaxSamples   \* bounds of the model

ASSUME SettingsAssumption ==
    /\ Lookback \in Nat /\ Retention \in Nat /\ TrendRetention \in Nat
    /\ Interval \in Nat \ {0}
    /\ MaxLate \in Nat /\ MaxAhead \in Nat /\ MaxGap \in Nat
    /\ MaxTime \in Nat /\ MaxSamples \in Nat

VARIABLES
    clock,
    samples,    \* metric_values of the item
    rolled,     \* metric_trends of the item, see above
    job,        \* _history_maintenance_job: pc and its `now`
    poll,       \* poll_due_items: pc and its `now`
    lastRoll,   \* `now` of the last roll-up that was committed
    recorded,   \* history: every sample that was ever stored
    polled      \* history: those stored by the poller

vars == <<clock, samples, rolled, job, poll, lastRoll, recorded, polled>>

Hour == 2
HourFloor(t) == t - (t % Hour)

JobType == [pc: {"idle", "rollup", "prune", "pruneTrends"}, now: Nat]
PollType == [pc: {"idle", "get"}, now: Nat]

TypeOK ==
    /\ clock \in Nat /\ lastRoll \in Nat
    /\ recorded \subseteq Nat /\ samples \subseteq recorded
    /\ rolled \subseteq recorded /\ polled \subseteq recorded
    /\ job \in JobType /\ poll \in PollType
    /\ lastRoll <= clock /\ job.now <= clock /\ poll.now <= clock

Init ==
    /\ clock = 0 /\ lastRoll = 0
    /\ samples = {} /\ rolled = {} /\ recorded = {} /\ polled = {}
    /\ job = [pc |-> "idle", now |-> 0]
    /\ poll = [pc |-> "idle", now |-> 0]

\* Half an hour passes.  The process is never down, or its database away, for
\* so long that no roll-up is committed for MaxGap.  A value that was read
\* from the device is stored within MaxLate.
Tick ==
    /\ clock < MaxTime
    /\ clock < lastRoll + MaxGap
    /\ poll.pc = "get" => clock < poll.now + MaxLate
    /\ clock' = clock + 1
    /\ UNCHANGED <<samples, rolled, job, poll, lastRoll, recorded, polled>>

-----------------------------------------------------------------------------
\* Bound of the model: one sample per instant, MaxSamples in all.
HasRoom(a) == a \in Nat \ recorded /\ Cardinality(recorded) < MaxSamples

Store(a) ==
    /\ HasRoom(a)
    /\ samples' = samples \cup {a}
    /\ recorded' = recorded \cup {a}

\* ItemService.record_value, for a push or a mirrored probe: the sample carries
\* the time the client gives, or now.
RecordValue(a) ==
    /\ clock - MaxLate <= a /\ a <= clock + MaxAhead
    /\ Store(a)
    /\ UNCHANGED <<clock, rolled, job, poll, lastRoll, polled>>

\* Mutant: the oldest sample is compared in place of the newest.
Due_byOldest(now) == samples = {} \/ \E a \in samples : a <= now - Interval

\* _due_snmp_targets: there is no sample, or the newest one is an interval old.
Due(now) == \A a \in samples : a <= now - Interval

\* A poll cycle reads the due items and asks the device.  The next cycle does
\* not start before this one is over.
StartPoll ==
    /\ poll.pc = "idle" /\ Due(clock)
    /\ poll' = [pc |-> "get", now |-> clock]
    /\ UNCHANGED <<clock, samples, rolled, job, lastRoll, recorded, polled>>

\* _poll_one stores the answer under the time the cycle began ...
PollAnswered ==
    /\ poll.pc = "get"
    /\ Store(poll.now)
    /\ polled' = polled \cup {poll.now}
    /\ poll' = [poll EXCEPT !.pc = "idle"]
    /\ UNCHANGED <<clock, rolled, job, lastRoll>>

\* ... or nothing, when the device does not answer, its answer is not a number,
\* or the statement fails: the item is still due in the next cycle.
PollFails ==
    /\ poll.pc = "get"
    /\ poll' = [poll EXCEPT !.pc = "idle"]
    /\ UNCHANGED <<clock, samples, rolled, job, lastRoll, recorded, polled>>

-----------------------------------------------------------------------------
StartJob ==
    /\ job.pc = "idle"
    /\ job' = [pc |-> "rollup", now |-> clock]
    /\ UNCHANGED <<clock, samples, rolled, poll, lastRoll, recorded, polled>>

\* Mutant: the hours of the look-back are counted from now.
InWindow_current(a, now) == now - Hour * Lookback <= a /\ a < now

\* Mutant: the look-back is one hour short.
InWindow_short(a, now) ==
    /\ HourFloor(now) - Hour * Lookback + Hour <= a
    /\ a < HourFloor(now)

\* The last Lookback complete hours before now.
InWindow(a, now) ==
    /\ HourFloor(now) - Hour * Lookback <= a
    /\ a < HourFloor(now)

\* Mutant: INSERT ... ON CONFLICT DO NOTHING.
Upserted_once(S) ==
    rolled \cup {a \in S : \A r \in rolled : HourFloor(r) # HourFloor(a)}

\* INSERT ... ON CONFLICT DO UPDATE: every hour that has a sample in S gets its
\* row computed anew from S, the other rows stay.
Upserted(S) ==
    S \cup {r \in rolled : \A a \in S : HourFloor(r) # HourFloor(a)}

\* rollup_trends: one statement and its commit.
RollUp ==
    /\ job.pc = "rollup"
    /\ rolled' = Upserted({a \in samples : InWindow(a, job.now)})
    /\ lastRoll' = job.now
    /\ job' = [job EXCEPT !.pc = "prune"]
    /\ UNCHANGED <<clock, samples, poll, recorded, polled>>

\* prune_history (of monitor_results too, which nothing here looks at).
PruneHistory ==
    /\ job.pc = "prune"
    /\ samples' = IF Retention = 0 THEN samples
                  ELSE {a \in samples : a >= job.now - Retention}
    /\ job' = [job EXCEPT !.pc = "pruneTrends"]
    /\ UNCHANGED <<clock, rolled, poll, lastRoll, recorded, polled>>

\* prune_trends: rows are deleted by the start of their hour.
PruneTrends ==
    /\ job.pc = "pruneTrends"
    /\ rolled' = IF TrendRetention = 0 THEN rolled
                 ELSE {a \in rolled : HourFloor(a) >= job.now - TrendRetention}
    /\ job' = [job EXCEPT !.pc = "idle"]
    /\ UNCHANGED <<clock, samples, poll, lastRoll, recorded, polled>>

\* A statement fails or the process restarts: what is committed stays, the
\* rest of the job does not run.
JobFails ==
    /\ job.pc # "idle"
    /\ job' = [job EXCEPT !.pc = "idle"]
    /\ UNCHANGED <<clock, samples, rolled, poll, lastRoll, recorded, polled>>

Next ==
    \/ Tick
    \/ \E a \in 0 .. MaxTime + MaxAhead : RecordValue(a)
    \/ StartPoll \/ PollAnswered \/ PollFails
    \/ StartJob \/ RollUp \/ PruneHistory \/ PruneTrends \/ JobFails

Spec == Init /\ [][Next]_vars

-----------------------------------------------------------------------------
\* The settings and the environment under which the promises below hold: a
\* sample is stored, and rolled up, within the look-back; retention leaves the
\* look-back alone; trends outlive samples.  The defaults (6 hours, 30 days,
\* 365 days) meet it for samples up to 5 hours late and an hourly job.
Larger(a, b) == IF a >= b THEN a ELSE b

InTime ==
    /\ Larger(MaxLate, Hour) + MaxGap <= Hour * Lookback
    /\ Retention # 0 => /\ Retention >= Hour * Lookback + Hour
                        /\ Retention >= Interval
    /\ TrendRetention # 0 => Retention # 0 /\ TrendRetention >= Retention + Hour

Expired(a) == TrendRetention # 0 /\ HourFloor(a) < clock - TrendRetention

\* "roll raw samples up into trends, *then* prune raw history (so the rollup
\* never loses data)", "(catches late data and missed runs)": a sample that was
\* stored is in the history, or in the trend row of its hour, until trend
\* retention takes that.
NoSampleLost ==
    \A a \in recorded : a \in samples \/ a \in rolled \/ Expired(a)

\* A trend row is the truth about its hour and not about a part of it: once the
\* hour is over and the time for late samples has passed, the roll-up has put
\* every sample of the hour into it.
TrendsComplete ==
    \A a \in recorded :
       a + Larger(MaxLate, Hour) < lastRoll => a \in rolled \/ Expired(a)

\* "Idempotent: re-running recomputes the same buckets": computing an hour again
\* never takes a sample out of its row.
TrendsOnlyGrow ==
    [][\A a \in rolled : a \in rolled' \/ Expired(a)]_vars

\* "Items whose source is SNMP are polled on their interval": two polled samples
\* are an interval apart, whatever retention has deleted and clients have pushed.
PollsSpaced ==
    \A a, b \in polled : a < b => b - a >= Interval
=============================================================================
