# GhostMonitor in TLA+

Models, model-checking runs and machine-checked proofs for GhostMonitor
(`src/app`), an uptime and metric monitor: one asyncio process (FastAPI and
APScheduler) over one PostgreSQL database. Paths below are relative to `src/`.

What can go wrong in this program lies between its awaits. Every job and every
request is a coroutine with its own database session; they meet in the rows,
which they read, keep over an await and write back without a row lock or a
version check, in the in-memory job table, and in alerts that are handed to
fire-and-forget tasks. The models keep that control structure (each await that
another actor can get in between is a step of its own) and abstract the data.

## The system

| Component | State | Operations | Meets |
|---|---|---|---|
| Probe scheduler (`tasks/scheduler.py`, `monitor_service.py`, `monitor_host_bridge.py`) | `monitors`, `monitor_results`, APScheduler's job table, locals of running jobs | reconcile every 15 s; probe job (load, maintenance check, probes with retries, commit, triggers, bridge, mirror, alert); create, patch, edit form, delete | triggers, maintenance, hosts, dispatch |
| Triggers and problem events (`trigger_service.py`, `problem_event_service.py`) | `triggers.state`, `problem_events` | evaluate / evaluate_item, open, close, CRUD | called by probe jobs, pushes and the poller; read by escalation |
| Escalation (`escalation_service.py`) | `problem_events.escalated_step`, policies and steps | the job of every minute, acknowledge, policy CRUD | problem events, channels, dispatch |
| History, trends, retention (`trends.py`, `retention.py`) | `metric_values`, `metric_trends` | hourly: roll up, prune samples, prune trends | pushes, probe jobs, poller |
| Item poller (`item_poller.py`) | none (due = age of the newest value) | poll due SNMP items concurrently | history, triggers |
| Maintenance windows (`maintenance_service.py`) | windows and their monitors | CRUD, is a monitor covered now | probe scheduler |
| Dispatch (`tasks/notifications/`, `notification_channel_service.py`) | asyncio tasks; channels and links | route by channel and severity, deliver once, log errors; channel CRUD | all of the above |
| Hosts, items, ingest (`host_service.py`, `ingest.py`) | hosts, items, tokens | push with get-or-create, push by id, CRUD | triggers, history |
| Discovery, templates (`discovery_service.py`, `template_service.py`) | rules, `last_run_at`, template items | scan due rules, scan now, provision hosts, apply templates | hosts |
| Rate limiter (`ratelimit.py`) | deques of hits per key | allow | login, ingest |
| Probes, users and OIDC, encryption, web pages, CLI, agent, metrics | little or none | | |

What makes them correct: a stored UP/DOWN is what the probes said, and its
subscribers know it; a trigger in PROBLEM has one open problem and an OK one
none; a problem climbs its ladder once, in order and in time; no sample is
pruned before its hour was rolled up with it; a monitor is silent exactly in its
windows; an alert is tried once on every channel that is meant to get it; a
push that is answered 201 is stored, and one that goes on being pushed gets
through; a discovered host has its template's items, and no rule starves
another; the limiter admits its limit in any window and no more.
`PROJECT.json` lists the hazards, each at its line.

## Modules

| Module | Stands for | Extends |
|---|---|---|
| `VerdictFeed` | abstract: what stored verdicts and UP/DOWN alerts have to do with each other | |
| `ProbeScheduler` | reconcile job, probe jobs, monitor requests, restarts | |
| `ProblemTimeline` | abstract: what the trigger tables promise, a round being one step | |
| `TriggerProblems` | the evaluators statement by statement, in concurrent sessions | `ProblemTimeline` |
| `Escalation` | the escalation job between owner and trigger evaluations | |
| `HistoryTrends` | samples of an item, the hourly job, the poller | |
| `RateLimiter` | the limiter behind the middleware | |
| `Inventory` | hosts, items and the template of one owner, with their requests | |
| `Ingest` | pushes and template applications, await by await | `Inventory` |
| `Discovery` | scans by the job and by requests | `Inventory` |
| `MaintenanceWindows` | windows, their requests and the rule for "now" | |
| `AlertDelivery` | abstract: what a fire-and-forget alert promises | |
| `AlertRouting` | probe jobs under windows, alert tasks, channels and links | `MaintenanceWindows` |
| `MC...` | small sets for TLC | |
| `...Proofs` | theorems, checked by TLAPS | |

Operators whose names end in `_something` and whose comment says "Mutant" are
plausible bugs of the operator that follows. Nothing uses them: they take its
place to show that a property notices the bug. Operators named `...Form` are the
handlers of the HTML pages; those that do what the API does are defined as it.

### ProbeScheduler

`status` to `maint` are columns of the database, `jobs` APScheduler's table,
`job[m]` the running `_run_probe_job` of monitor `m`: `pc` names the await it
is at, and `prev`, `budget`, `host`, `attempts` are its locals
`previous_status`, `monitor.retries`, `monitor.host_id` (set or not) and
`attempts`. APScheduler counts `max_instances=1` by job id, so a monitor has one
running instance even when its job is removed and added again.

The session loads the row once. With `expire_on_commit=False` it never reads it
again, and the ORM writes only attributes that differ from what it loaded.
Hence `Record`: a verdict equal to `prev` leaves the status column alone, also
when the user paused the monitor meanwhile; another verdict overwrites it. A
flush for a row or a foreign key that has gone fails and ends the job, because
`_run_probe_job` has no handler: `Record` without the row, `EvaluateTriggers`
with a trigger deleted in the round, `EnsureBacking` and `Mirror` without the
host. A probe that raises ends it as well (`JobFails`).

A request is one step (one short transaction on one row), with one exception:
the edit form shows the status of one moment and saves it at a later one
(`OpenForm`, `SubmitForm`). `Faults` chooses what disturbs a run; maintenance
is one of them (`maint` changes at any time; `AlertRouting` has the windows).

`VerdictFeed` is the abstract specification of verdicts and alerts: a verdict is
stored, a change of it may become news, news is told at most once and before the
next verdict, or dropped. Under the refinement mapping the stored verdict is
`lastResult`, what was told last is `lastAlert`, and news (`News`) is an alert that a
job has still to raise: it has stored its verdict (`Recorded`) and that
differs from the UP or DOWN it started from (`ShouldAlert`). A job that ends early
(`BreakOff`, a restart) drops its news.

The history variable `unsure` holds the monitors whose subscribers the code does not
promise to have informed: a job broke off with news, or a user wrote a status other than
PAUSED by hand (resuming is writing PENDING). The next alert takes the monitor out again.
`SubscribersInformed` and `NoRepeatedAlert` speak of the others, so they hold in every run
with every fault, and say that nothing else costs or repeats an alert.

### ProblemTimeline and TriggerProblems

At READ COMMITTED with autoflush off, a round of evaluation is: one SELECT (`Load`
keeps the loaded states in `seen`), a comparison per trigger that either adds
an event to the unit of work (`Breach`) or runs an UPDATE on the open events at
once (`Recover`, which holds the row locks until the end), one commit
(`Commit`) and the alerts (`Dispatch`). Which triggers flip is a free choice:
thresholds, operators and windows do not matter to what happens next.
`Sessions` is how many rounds for the same monitor or item overlap: one for a monitor (its
probe job), several for an item (pushes, the poller).

Row locks, lock waits and deadlock detection are PostgreSQL's and modelled from
the statements: a waiting UPDATE goes on when the lock is released, a circle of
waiters ends with one aborted, a DELETE of a trigger and the round closing
its events end with the round aborted (or the DELETE, which then changes
nothing). A waiting UPDATE sees the events there are when it goes on; PostgreSQL
would not see one inserted while it waited. That makes the model close a stray
event one recovery earlier, and no property depends on it. Of a circle of waiting
sessions, of any length, one is aborted (`Deadlocked`, `DeadlockVictim`).

`ProblemTimeline` is the abstract specification, over the same tables; resolved
events are not kept, since nothing in the evaluation looks at them again.
`TimelineSpec` is a PROPERTY of `TP_probe`; the refinement mapping is the identity
on the tables and hides `ses` and `told`.

### Escalation

One owner. `ladder` is what `_enabled_policy` would return; `ChangePolicy` is the
disjunction of the requests that change it: creating, replacing and deleting a
policy, and deleting a channel, which takes its steps along. The job is four
steps: read problems, read the policy, execute due steps one at a time, commit
and deliver. `sent` records what was handed to `schedule_escalation`. Whether a
step's channel is usable is a free choice. The commit is one for all problems,
so a problem deleted meanwhile undoes the progress of the others (`CommitFails`).

### HistoryTrends

One item, time in half hours, so that an hour has a floor, a middle and an end. A
sample is its `collected_at`: a trend row is a function of the samples it was
computed from, and the upsert replaces the row of every hour that has a sample
in the look-back by the ones found in it (`Upserted`), also when the look-back
or retention shows it only part of that hour. Samples may come late (`MaxLate`) and
from a clock ahead (`MaxAhead`). The three statements of the hourly job are three
steps with the `now` of its start; it may fail before each. The poller reads the
newest sample, awaits the agent and stores its sample with the `now` of its start.

### Inventory, Ingest and Discovery

`Inventory` holds the rows of one owner: `host` by name (unique), with its address,
its item keys (unique) and whether a rule with a template provisioned it; and
the keys of one template. Its operators are the requests on them.

`Ingest` interleaves requests that look rows up and use them later. `req[q]`
refers to rows, not to names: renaming a host moves the references, deleting it
makes them `Gone`. An insert under a row that has gone, or a second row for the
same (host, key), ends the request with a 500. An application keeps the template's items
as it read them (`read`), then reads the host's keys; a key the owner deletes in between is
created again. Of the history in `req`, `stored` says whether the sample was committed and
`lost` what the owner took off the host after its keys had been read.

`Discovery` has one scanner for the job (`max_instances=1`) and one per request.
A host that was flushed and not committed (`pend`) is invisible to others and
blocks whoever wants its name. `apply_to_host` commits the session it is given,
which commits the host together with its items, unless the template is empty.
After a failure the job's session cannot be used again, and `scan_rule`'s
handler in the job touches the expired rule: the rest of the cycle is lost (`Abort`).

### MaintenanceWindows, AlertDelivery and AlertRouting

A cron expression is the set of its fires (`Fires`), with a last one before any
time; time is in minutes. PATCH and the form store what they are given without
the validation POST has, so `Forms` contains windows without the fields their
strategy needs. `IsActive` is the code's rule; `IsOpen` is what its docstring says, and they
differ at the instant at which a window opens (`OpensAt`).

`AlertRouting` has a probe job reduced to what matters here: it looks the windows up,
then raises alerts of any severity, or not. `task[a]` is the asyncio task of an
alert: one SELECT (`Route`), concurrent deliveries that end in any order, with or
without success (`Deliver`), the end (`Finish`). An escalation step and a test
are deliveries to one given channel. `steady` and `ever` record which channels
qualified all the time, or at some moment, since the hand-over.
`AlertDelivery` is the contract in those terms; the refinement mapping (`Delivery`)
reads phases and these sets off `task`.

### RateLimiter

Time is discrete; a hit is the time and the number of its call, since two hits may
have the same time. `CleansUp` is the call at which the map drops drained buckets:
the bucket of the very request may be among them, and its hit is then
appended to a deque that is no longer in the map (`Kept`, `Appended`): it was admitted and
is not counted. `WindowBound` is what the settings promise, `Losable` marks the hits that can
be lost this way, and `ExcessOnlyByCleanUp` bounds the excess by them. The history variables
remember every admitted hit, lost ones included, and when a client was refused.

## Runs

| Run | Instance | Shows |
|---|---|---|
| `PS_faults` | 1 monitor, 2 retries; pause and resume; every fault except stale forms | `StatusIsLastVerdict`, `SubscribersInformed`, `NoRepeatedAlert`, `DownOnlyAfterRetries`, refinement of `VerdictFeed` |
| `PS_live` | 1 monitor, 2 intervals; windows and stale forms; fair | `JobsFollowRows`, `PauseStops`, `TransitionAlerted`, `KeepsProbing` |
| `TP_probe` | 1 session, 2 triggers, 2 event ids; failures, disabling, deletion | `OneOpenIffProblem`, `AnnouncedState`, refinement of `TimelineSpec` |
| `TP_overlap` | 2 sessions, 2 triggers, 2 event ids; fair | `ProblemHasEvent`, `RoundsEnd`, `StrayEventsHeal` |
| `TP_stray` | 2 sessions, 1 trigger | finding: `OneOpenIffProblem` is violated |
| `ES` | 2 problems, one ladder of 2 steps (delays 0 and 1), time 0..1, restarts; fair | `StopsOnceHandled`, `StepsAscend`, `DueStepsExecuted`, `EscalatesWhileOpen` |
| `HT` | 1 item, look-back 2 h, retention 3 h, trend retention 4 h, interval 1.5 h, late by up to 1 h, ahead by up to 0.5 h, gap between jobs up to 1 h, time 0..11 half hours, 3 samples | `NoSampleLost`, `TrendsComplete`, `TrendsOnlyGrow`, `PollsSpaced` |
| `RL` | 2 clients, login limit 2, ingest unlimited, window 2, clean-up at every 3rd call, time 0..5, 7 calls | `ExcessOnlyByCleanUp`, `OnlyExcessRefused`, `CountedHitsKept`, `RetryAfterHonoured` |
| `RL_excess` | as `RL` | finding: `WindowBound` is violated |
| `DV` | 2 rules over the same 2 addresses, one with the template, 3 names, 1 key, 1 scan-now request, 2 disturbances; fair | `ProvisionedComplete`, `NoLockCycle`, `DueRulesScanned` |
| `IN` | 2 agents and 1 user pushing the same new item, 1 application, 2 host names, 2 keys, 1 edit or failure; fair | `AnswerTruth`, `TemplateApplied`, `PushesGetThrough` |
| `AR` | 1 monitor, 1 host, 2 channels, 1 alert, 1 window of 3 forms, fires at -5, 0 and 1, time 0..2, 2 edits; failed queries, restarts; fair | `WindowsHonoured`, refinement of `AlertDelivery`, `SteadyChannelsTold` |

`TypeOK` is an invariant of one run of each model whose type invariant says more than
types (`PS_faults`, `DV`, `IN`, `AR`); it is proved of every model (`TypeCorrect`). In `DV`, `NoLockCycle` is about every
group of scans: one of its members waits for none of the others.

**Bounds.** `MaxRetries` (10 in the code) is 2 where the retry rule is checked: one,
two and three attempts tell every off-by-one apart. Monitors share nothing but the
reconcile job, which treats each alone, so the runs have one; the theorems are about any
number. `HasRoom`
keeps a trigger from opening more events than there are ids; with two ids a
trigger can have a stray and a second event at once, which is what overlapping
rounds of two sessions produce. In `ES` the clock lets every delay elapse, with
problems opened before and after; two rungs and two problems make runs that
execute none, one and several steps. Exchanging one ladder for a different one
is left to the proofs, which cover any set of ladders. In `HT` three samples
let two of one hour be in different places (late, rolled up, pruned)
while a third is polled, and the time span covers a sample's whole life up to trend
retention. In `RL` the clean-up comes at every third call (1024 in the code), so that
it meets full, drained and fresh buckets within seven calls. In `DV` two rules over the same
two addresses are the smallest case of two scans that can wait for each other both
ways; `MaxDisturbances` bounds edits, requests and failures together. In `IN`
all pushes name the same new item, the case that collides; one edit or failure
can fall anywhere. In `AR` the pattern fires while no window is open (0) and while one
is (1), one form lacks its end, and the two channels make one delivery fail beside another.
Symmetry (of clients) is used in runs without liveness only.

**Fairness.** `PS_live`: the interval triggers fire for ever and each await ends
(probes, statements and SMTP have timeouts), so reconcile and each monitor's job
have weak fairness; users, windows and failures have none. `TP_overlap`: a session
that has started goes on, and a waiter for a row lock gets its turn, as
PostgreSQL queues them: strong fairness, since another session may take the
lock again and again. `Load` is not fair: nobody promises another sample. `ES`:
the job runs every minute and the clock advances, weak fairness on each. `DV`: the job's
interval trigger and each step of a scan, since probes have a timeout. `IN`: each
pusher's requests go on and it pushes again, as an agent does every minute; this
includes starting the next push. `AR`: queries end and deliveries have timeouts;
handing over, edits and restarts have no fairness. `HT` and `RL` state no liveness.

**No deadlock check is switched off:** in every state of every run something can
still happen.

## Findings

*Two open problems for one trigger* (`TP_stray`): overlapping evaluations
of an item both find it OK. `ProblemHasEvent` says what survives the race (no problem
is without an open event), `StrayEventsHeal` how far the rest repairs itself. The proofs
narrow it down: evaluations that flip the same trigger while they overlap are the only cause
(`ExactWhenAlone`), and the next recovery that nothing overlaps repairs it for good
(`RecoveryHeals`).

*More than the limit in a window* (`RL_excess`): `allow` fetches the bucket of its key, and at
every 1024th call deletes all empty buckets (`api/ratelimit.py:35-37`). When its own is one of
them, the hit is appended to a deque that is no longer in the map, and the client has one
request too many in that window (`app/core/config.py:60`: "Per-IP rate limits
(requests/minute)"). `ExcessOnlyByCleanUp` says what is left of the promise: no excess but by
such hits, each the only one of its client in the window when it was made, other lost hits
aside. With a clean-up at every 1024th call of the process that is rarely more than one.

### Observations

Behaviour met while modelling that no run demonstrates:

- *An alert inside a maintenance window*: windows are looked up before
  the first probe (`tasks/scheduler.py:199`), and with retries the alert may leave minutes later.
  `WindowsHonoured` speaks of the moment of the lookup.
- *A lost UP/DOWN alert*: the transition is committed first (`scheduler.py:220`) and
  alerted last (291); a step in between that fails (host or trigger deleted,
  connection lost) ends the job, and the next job sees no transition.
  `SubscribersInformed` excepts such a monitor until its next alert.
- *A pause that is lost*: a job that is in flight when the user pauses stores a verdict that
  differs from the one it started from over PAUSED (`scheduler.py:219`), and the monitor is
  probed on. `PauseStops` speaks of a monitor that stays paused.
- *After resuming* a monitor is PENDING: its next verdict is not alerted, and a later alert may
  repeat what subscribers were told last before the pause.
- *A 500 for a sample that was stored*: the triggers are evaluated after the sample's commit
  (`api/routes/ingest.py:102`); when that fails an agent that retries stores it twice.
  `AnswerTruth` is about the other answers.
- *Retry-After: 60* is one instant short: a hit exactly one window old still counts.
- *A probe that raises*: `tcp://host:abc` makes `urlparse(...).port` raise a `ValueError`, an
  unparsable URL `httpx.InvalidURL`; neither is caught (`tasks/probes.py`), so nothing is
  stored, the monitor stays PENDING and never alerts.
- *A notification after the acknowledgement*: the escalation job does not look at a
  problem again between its read and the delivery. `StopsOnceHandled` says that this run
  is the last one.
- *Due steps hidden by the break* (`escalation_service.py:149`): nothing makes delays
  increase with `step_order`; `DueStepsExecuted` needs ladders that do (`Monotone`).
- *Replacing a policy that keeps a `step_order`*: the unit of work inserts the new steps
  before it deletes the old ones, against the unique constraint on policy and order
  (`escalation_service.py:57-73`): the PUT ends with a 500.
- *A cron window at the instant of its fire*: the docstring of `is_maintenance_active` says
  "find the latest fire time at or before now" (`maintenance_service.py:125`), but `get_prev`
  is strictly before now: a window does not yet hold jobs at the instant at which it opens.
  `WindowsHonoured` measures by the docstring and names this one exception.
- *A window without its fields*: PATCH and the form do not validate
  (`schemas/maintenance.py:30-40`); such a window is never active, and reading it back
  through the API fails its own schema.
- *A host named like another host's address* starves the discovery rule that covers
  the address: its scan fails on the unique name for ever. `MCDiscovery!Clash`
  leaves the door open for it; `DueRulesScanned` is checked without.
- *A late sample* is evaluated as if it were the newest, and its `collected_at` becomes
  the time of the problem (`api/routes/ingest.py:108`).
- *Acknowledging twice at the same time* keeps the second name (`problem_event_service.py:73`).
- *A client's buckets* stay in the limiter's map until a clean-up finds them
  already drained; draining happens only when the client comes back.
- *Sending a test* answers "sent" also when the delivery failed.
- *Alert tasks* are referenced by the event loop only weakly (`dispatcher.py:243`).
- Escalation steps and host item alerts are not silenced by maintenance windows.

## Theorems

For all values of the constants, from the ASSUMEs of the modules (sizes are naturals,
sets have the right elements) and what is named here:

- `ProbeSchedulerProofs`
  - `TypeCorrect`.
  - `VerdictStored`: `StatusIsLastVerdict`, if `StatusEdits` has neither UP nor DOWN and there
    are no stale forms. Not inductive alone: while a job probes, an UP or DOWN in the
    row must be the one the job loaded (`SnapshotIsCurrent`), otherwise skipping the
    column in `Record` would leave an old verdict beside a new result.
  - `AlertsKeepUp`, `AlertsAreNews`: `SubscribersInformed` and `NoRepeatedAlert`, whatever fails
    and whatever users write. The invariant (`InformedInv`) says of each monitor that is not `unsure`
    what a job knows at each await: subscribers know the status it started from
    (`AlertBase`), a stored verdict is only hidden by a pause or a deletion (`VerdictStands`),
    and nothing was said of a monitor before its first probe (`SilentBefore`). A job that ends
    before its alert (`InformedEnd`) either had no news or makes its monitor `unsure`.
  - `DownAfterRetries`: `DownOnlyAfterRetries`, without any hypothesis. The invariant
    (`AttemptsInv`) counts the attempts of a running job: never more than its budget and
    one, all but the last one DOWN, none outside the awaits that follow.
  - `FeedRefinement`: `Spec => FeedSpec`, for every kind of failure, restart, deletion and
    request, if no one but the jobs writes UP or DOWN (the edit form could make a job
    start from a verdict that is not the newest one). The invariant is the one of `VerdictStored`
    and that a job past its commit holds the verdict before (`PrevIsVerdict`). `Record`
    is a `Store`, `Alert` a `Tell`, every early end a `Drop`, a deletion a `Forget`.
  - `AlertsTellNewest`: an invariant proved of the abstract feed (`FeedNewest`) and carried over by
    the refinement: what a job is about to tell is the newest stored verdict.
- `TriggerProblemsProofs`
  - `TypeCorrect`, with the foreign key of the events.
  - `ProblemsVisible`, `ResolvedOnce`: for any number of overlapping
    evaluations: `ProblemHasEvent`, and an event is resolved by one session at a time and
    while it is open. Neither is inductive alone. `OverlapInv` adds that locked events are
    open (`ClosingOpen`), that the row locks keep closers of one trigger apart (`OneCloser`) and that
    whoever closes a trigger's events will store OK for it (`ClosesForOk`): then a commit that leaves
    PROBLEM in the row either adds an event or closes none.
  - `ExactWhenAlone`: a trigger has exactly one open event in PROBLEM and none otherwise
    (`OneOpen`) as long as no two sessions that evaluate *this* trigger overlap (`Alone`), however
    many others run beside them. The invariant (`AloneInv`) says of the one session that
    evaluates it what its snapshot is worth (`Fresh`): the loaded state still is the
    row's, and if it recovers the trigger it holds all of its open events.
  - `RecoveryHeals`: the same from any later moment. Without assuming anything of what came
    before, if nobody evaluates the trigger now and evaluations of it do not overlap from now on, its
    first recovery ends all stray events.
  - `RefinementWhenAlone`: `Spec => TimelineSpec` as long as `Alone` holds of every trigger, for
    any number of sessions. A commit is a `Flip` of the flipped triggers; everything else
    stutters or is the owner's own step.
  - `NewestAlertWhenAlone`: the newest alert of a trigger names its stored state (`Announced`) while
    no session flips the trigger before the last one that did has sent its alert (`AloneToTheEnd`).
    A session that dies in between leaves it unannounced, which `ToldInv` keeps track of.
  - `TimelineExact`, `Refinement`, `LastAlertNamesState`: `OneOpenIffProblem`, `TimelineSpec` and
    `AnnouncedState` when there is one session, as for a monitor (`Solo`). They follow, since a
    session alone is alone with every trigger (`SoloAlone`).
- `EscalationProofs`
  - `TypeCorrect`.
  - `StepsFireOnce`: `StepsAscend`. The invariant: what was sent is at most the stored step
    (`SentIsStored`), a pending delivery is beyond the step the job
    started from (`AheadOfRows`), and after the commit the rows have caught up (`CaughtUp`).
    It needs nothing about failures: a lost run delivers nothing.
  - `NoDueStepSkipped`: `DueStepsExecuted` if no ladder has a delay smaller than one before
    it (`Monotone`).
  - `HandledStops`: `StopsOnceHandled`; an acknowledgement or a resolution is never taken
    back, and a job loads open and unacknowledged problems only (`TodoEffect`). What a job has
    still to deliver is among what it loaded (`DueOfTodo`).
  - `SilentForGood`: the same from one moment on, as a temporal formula: once a problem
    is handled and the running job is done with it, its deliveries stay as they are for ever.
- `HistoryTrendsProofs`
  - `TypeCorrect`.
  - `SamplesKept`, `RowsGrow`, `PollsKeepInterval`: `NoSampleLost`, `TrendsOnlyGrow` and `PollsSpaced`
    if the settings and the environment are in time (`InTime`: the look-back covers the latest
    sample and the longest gap between two roll-ups, retention leaves the look-back alone,
    trends outlive samples; the defaults are). The invariant: only retention
    takes samples, and only old ones (`PrunedInv`); a sample that is in no row is still there and
    young enough for the next roll-up (`PendingInv`), which rests on the pace of the jobs
    (`PaceInv`). `WindowAligned` is the arithmetic: a window that starts on the hour sees
    an hour whole or not at all. Without `InTime` they are false.
  - `RowsComplete`: `TrendsComplete`, also from `InTime`: what `PendingInv` says of a sample that is
    in no row cannot be true of an old one, so once an hour can get no more samples its row has all of them.
- `RateLimiterProofs`
  - `TypeCorrect`: no bucket holds more than its limit.
  - `HitsKept`: `CountedHitsKept`, the clean-up and draining forget nothing that counts.
  - `ExcessBounded`: `ExcessOnlyByCleanUp`, from `CountedInv` (every admitted hit of a window is
    in the bucket, which its size bounds, or could be lost) and the numbering of the calls
    (`NumberInv`): a hit made later does not change whether an earlier one could be lost
    (`LosableKept`).
  - `RefusedForGoodReason`: `OnlyExcessRefused`, from `EarnedInv` (the hits in a bucket are
    admitted ones; neither refused calls nor a clean-up add any).
  - `RetryAfter`: `RetryAfterHonoured`, from `RefusedInv` (after a refusal the bucket gets
    no hit newer than the refusal).
- `AlertRoutingProofs`
  - `TypeCorrect`, with the foreign keys of links and windows.
  - `Refinement`: `Spec => DeliverySpec` for any number of alerts and channels. Every channel
    that qualified all the time is still to try or tried, and only channels that
    qualified at some moment are tried, none twice (`Good`).
  - `EndedAlertsTold`: proved of the contract (`PromiseKept`, which needs that nothing is tried
    before the hand-over) and carried over by the refinement: a task that has ended tried every channel
    that qualified all the time, and only channels that qualified at some moment.
  - `MaintenanceHonoured`: `WindowsHonoured`: comparing with the previous fire alone finds every
    open window but one that opens at that very instant (`ActiveIsOpen`).
- `DiscoveryProofs`
  - `TypeCorrect`.
  - `HostsComplete`: `ProvisionedComplete`. The invariant (`HeldBackInv`): between two hosts a scan with a
    template has a flushed host pending only if the template was empty.
  - `WaitsAscend`, `ScansNeverDeadlock`: `NoLockCycle`. Flushed addresses are below those to come
    (`AscendingInv`), so a scan that waits for another has a smaller next address than that one. That a finite
    group has a member that waits for no other is an induction: `MinimalMember` applies the
    well-foundedness of the subset order on a finite set, `HighestMember` picks the scan with the
    highest address.
- `IngestProofs`
  - `TypeCorrect`, `AnswersTrue`, `TemplateOnHost`: `TypeOK`, `AnswerTruth` and `TemplateApplied`.
    The invariant has a part for each request: the rows it refers to exist or are known to be
    gone (`Grounded`); what it stored fits the await it is at and its answer
    (`Truthful`); once an application has read the host's keys, what it read of the template is on the
    host, about to be inserted, or `lost` (`Ready`). Rows that others add do no harm (`GrowthKeepsFine`);
    deletions and renamings move the references (`DeleteKeeps`, `RenameKeeps`, `ItemKeeps`).

### Model-checked only

All liveness (`JobsFollowRows`, `PauseStops`, `TransitionAlerted`, `KeepsProbing`, `RoundsEnd`,
`StrayEventsHeal`, `EscalatesWhileOpen`, `DueRulesScanned`, `PushesGetThrough`,
`SteadyChannelsTold`): liveness is out of the prover's reach. Every safety property that a
passing run checks is also a theorem. `VerdictStored` and `FeedRefinement` assume that users
write neither UP nor DOWN, `NoDueStepSkipped` that ladders are monotone, the theorems of
`HistoryTrendsProofs` `InTime`, and those of `TriggerProblemsProofs` named above that
evaluations of a trigger do not overlap: otherwise they are false.

What a recursive definition computes cannot be proved by the installed provers, but a
finite set or a number can be minimised with the library's well-founded orders
(`HighestMember`, `EscalationProofs!LeastElement`), which is how the induction arguments
above are made.

## What is left

- A composition of `ProbeScheduler` with `AlertRouting`, so that a stored transition
  is followed to each channel; today the two share the hand-over as their interface.
  The abstract `VerdictFeed` and `AlertDelivery` are what such a composition would be built
  on: `AlertsTellNewest` and `EndedAlertsTold` are its two halves.
- `replace` of a policy statement by statement, with the order of the flush.
- Several owners, and who may see whose rows.
- The times of problems that late samples raise or resolve.

## Not modelled

- *Probes, SNMP, senders*: network I/O with timeouts; the models let them return any
  outcome, or fail.
- *Users, OIDC, encryption, egress policy*: cryptography, address classification and protocol
  code of libraries; apart from a row per user no state of their own.
- *Pages, charts, widgets, CLI, agent, metrics*: rendering, thin clients of the services,
  counters that nothing reads back. The forms that change state are modelled beside the
  API handlers.
- *Data*: values, thresholds, messages, names beyond identity, time zones and the parsing of cron
  expressions, private (encrypted) and disabled items.
