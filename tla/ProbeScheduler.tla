--------------------------- MODULE ProbeScheduler ---------------------------
(***************************************************************************)
(* The probe scheduler of app/tasks/scheduler.py with the rows it shares   *)
(* with the REST API and the web UI.                                       *)
(*                                                                         *)
(* Every 15 seconds a reconcile job reads the monitors that are not paused *)
(* (one await) and then brings the in-memory job table in line with what   *)
(* it read.  Each job runs _run_probe_job for its monitor; APScheduler     *)
(* keys max_instances=1 by job id, so a monitor has at most one running    *)
(* instance, even after its job was removed and added again.  A running    *)
(* instance is a sequence of awaits (job[m].pc), and between any two of    *)
(* them API requests, other jobs and the process itself may act.           *)
(*                                                                         *)
(* A request of the API is one action: its read and its write are one      *)
(* short transaction.  What a user looked at before sending it (the edit   *)
(* form of the web UI) is a state of its own.                              *)
(***************************************************************************)
EXTENDS Naturals, Sequences, SequencesExt

CONSTANTS
    Monitors,      \* monitor ids; an id is never reused (uuid4 keys)
    Intervals,     \* the probe intervals users choose
    MaxRetries,    \* bound on Monitor.retries (10 in MonitorBase)
    StatusEdits,   \* the statuses a PATCH may write into Monitor.status
    Faults         \* which failures happen, a subset of FaultKinds

FaultKinds ==
    { "restart",     \* the process stops: jobs and alert tasks are lost
      "dberror",     \* a statement of a running job fails (connection lost)
      "deletehost",  \* the user deletes a monitor's backing host
      "deletetrigger", \* the user deletes a trigger being evaluated
      "maintenance", \* maintenance windows open and close
      "staleform" }  \* the user saves an edit form rendered earlier

ASSUME RetriesAssumption  == MaxRetries \in Nat
ASSUME IntervalAssumption == Intervals \subseteq Nat \ {0} /\ Intervals # {}
ASSUME FaultsAssumption   == Faults \subseteq FaultKinds

Probed  == {"up", "down"}                         \* ProbeStatus
Outcomes == Probed    \* of run_probe: whatever goes wrong on the way is DOWN
Status  == Probed \cup {"pending", "paused"}      \* MonitorStatus
NoRow   == {"unborn", "deleted"}                  \* no row with this id
ASSUME StatusEditsAssumption == StatusEdits \subseteq Status

NoJob   == 0          \* no job with this id in the scheduler
Closed  == "closed"   \* no edit form open
Never   == "never"    \* no probe result, no alert so far

VARIABLES
    \* PostgreSQL
    status,      \* Monitor.status, or a member of NoRow
    interval,    \* Monitor.interval
    retries,     \* Monitor.retries
    host,        \* TRUE when Monitor.host_id points at a live backing host
    lastResult,  \* status of the newest MonitorResult row
    maint,       \* monitors inside an active maintenance window
    \* memory of the process
    jobs,        \* APScheduler's job table: job interval or NoJob
    reconcile,   \* the reconcile job: what it read, not yet applied
    job,         \* the running instance of _run_probe_job per monitor
    lastAlert,   \* new_status of the newest AlertEvent handed to dispatch
    \* a browser
    form,        \* the status shown in an open edit form
    unsure       \* history: monitors whose last alert need not be what is stored,
                 \* since an alert was lost or a status written by hand

dbVars  == <<status, interval, retries, host, lastResult, maint>>
memVars == <<jobs, reconcile, job, lastAlert>>
vars    == <<status, interval, retries, host, lastResult, maint,
             jobs, reconcile, job, lastAlert, form, unsure>>

JobPcs == {"idle", "loaded", "probing", "evaluate", "bridge", "mirror", "alert"}

\* Locals of _run_probe_job: the snapshot of the row taken when it started
\* and the outcomes of the probes made so far.
JobType == [pc: JobPcs, prev: Status, budget: 0..MaxRetries, host: BOOLEAN,
            attempts: Seq(Probed)]

NotRunning == [pc |-> "idle", prev |-> "pending", budget |-> 0,
               host |-> FALSE, attempts |-> <<>>]

IdleReconcile == [pc |-> "idle", desired |-> [m \in Monitors |-> NoJob]]

HasRow(m)   == status[m] \notin NoRow
Schedule(m) == HasRow(m) /\ status[m] # "paused"
Desired     == [m \in Monitors |-> IF Schedule(m) THEN interval[m] ELSE NoJob]

\* new_status: the outcome of the last attempt.
Final(m) == Last(job[m].attempts)

\* Mutants: the comparison with the new status is forgotten; recoveries are
\* not reported.
ShouldAlert_always(m)   == job[m].prev \in Probed
ShouldAlert_downOnly(m) == job[m].prev = "up" /\ Final(m) = "down"

\* "Only alert on UP<->DOWN transitions, never from PENDING".
ShouldAlert(m) == job[m].prev \in Probed /\ job[m].prev # Final(m)

\* The instance ran past its first commit: its results are stored.
Recorded(m) == job[m].pc \in {"evaluate", "bridge", "mirror", "alert"}

\* It stored a transition that it has yet to announce.
HasNews(m) == Recorded(m) /\ ShouldAlert(m)

TypeOK ==
    /\ status \in [Monitors -> Status \cup NoRow]
    /\ interval \in [Monitors -> Intervals]
    /\ retries \in [Monitors -> 0..MaxRetries]
    /\ host \in [Monitors -> BOOLEAN]
    /\ lastResult \in [Monitors -> Probed \cup {Never}]
    /\ maint \subseteq Monitors
    /\ jobs \in [Monitors -> Intervals \cup {NoJob}]
    /\ reconcile \in [pc: {"idle", "read"},
                      desired: [Monitors -> Intervals \cup {NoJob}]]
    /\ job \in [Monitors -> JobType]
    /\ \A m \in Monitors : Recorded(m) => job[m].attempts # <<>>
    /\ lastAlert \in [Monitors -> Probed \cup {Never}]
    /\ form \in [Monitors -> Status \cup {Closed}]
    /\ unsure \subseteq Monitors

Init ==
    /\ status = [m \in Monitors |-> "unborn"]
    /\ interval = [m \in Monitors |-> CHOOSE i \in Intervals : TRUE]
    /\ retries = [m \in Monitors |-> 0]
    /\ host = [m \in Monitors |-> FALSE]
    /\ lastResult = [m \in Monitors |-> Never]
    /\ maint = {}
    /\ jobs = [m \in Monitors |-> NoJob]
    /\ reconcile = IdleReconcile
    /\ job = [m \in Monitors |-> NotRunning]
    /\ lastAlert = [m \in Monitors |-> Never]
    /\ form = [m \in Monitors |-> Closed]
    /\ unsure = {}

-----------------------------------------------------------------------------
(* Requests: MonitorService and the monitor routes.                        *)

CreateMonitor(m) ==
    /\ status[m] = "unborn"
    /\ status' = [status EXCEPT ![m] = "pending"]
    /\ \E i \in Intervals : interval' = [interval EXCEPT ![m] = i]
    /\ \E r \in 0..MaxRetries : retries' = [retries EXCEPT ![m] = r]
    /\ UNCHANGED <<host, lastResult, maint, memVars, form, unsure>>

\* The form of the "new monitor" page.
CreateMonitorForm(m) == CreateMonitor(m)

\* A user writes a status.  Pausing says nothing about what subscribers know;
\* any other change makes the row say what no probe found.
WriteStatus(m, s) ==
    /\ status' = [status EXCEPT ![m] = s]
    /\ unsure' = IF s \in {status[m], "paused"} THEN unsure ELSE unsure \cup {m}

\* PATCH: any subset of the fields (exclude_unset), the rest keep their value.
UpdateMonitor(m) ==
    /\ HasRow(m)
    /\ \E s \in StatusEdits \cup {status[m]} : WriteStatus(m, s)
    /\ \E i \in Intervals : interval' = [interval EXCEPT ![m] = i]
    /\ \E r \in 0..MaxRetries : retries' = [retries EXCEPT ![m] = r]
    /\ UNCHANGED <<host, lastResult, maint, memVars, form>>

\* The edit form renders the current status as its selected option ...
OpenForm(m) ==
    /\ "staleform" \in Faults
    /\ HasRow(m) /\ form[m] = Closed
    /\ form' = [form EXCEPT ![m] = status[m]]
    /\ UNCHANGED <<dbVars, memVars, unsure>>

\* ... and saving it writes that status back with the other fields, whatever
\* the row says by then.
SubmitForm(m) ==
    /\ HasRow(m) /\ form[m] # Closed
    /\ WriteStatus(m, form[m])
    /\ \E i \in Intervals : interval' = [interval EXCEPT ![m] = i]
    /\ \E r \in 0..MaxRetries : retries' = [retries EXCEPT ![m] = r]
    /\ form' = [form EXCEPT ![m] = Closed]
    /\ UNCHANGED <<host, lastResult, maint, memVars>>

\* The row goes with its results and its maintenance links (cascades), and
\* the backing host is deleted in the same commit.
DeleteMonitor(m) ==
    /\ HasRow(m)
    /\ status' = [status EXCEPT ![m] = "deleted"]
    /\ host' = [host EXCEPT ![m] = FALSE]
    /\ lastResult' = [lastResult EXCEPT ![m] = Never]
    /\ maint' = maint \ {m}
    /\ form' = [form EXCEPT ![m] = Closed]
    /\ UNCHANGED <<interval, retries, memVars, unsure>>

\* The button of the monitor's page.
DeleteMonitorForm(m) == DeleteMonitor(m)

\* Deleting the backing host from the hosts page: ON DELETE SET NULL.
DeleteHost(m) ==
    /\ "deletehost" \in Faults
    /\ host[m]
    /\ host' = [host EXCEPT ![m] = FALSE]
    /\ UNCHANGED <<status, interval, retries, lastResult, maint, memVars, form, unsure>>

\* A window covering m opens or closes: the clock reaches its bound, it is
\* attached, detached, edited or deleted.
MaintenanceChanges(m) ==
    /\ "maintenance" \in Faults
    /\ HasRow(m)
    /\ maint' = IF m \in maint THEN maint \ {m} ELSE maint \cup {m}
    /\ UNCHANGED <<status, interval, retries, host, lastResult, memVars, form, unsure>>

-----------------------------------------------------------------------------
(* _reconcile_jobs                                                         *)

ReadMonitors ==
    /\ reconcile.pc = "idle"
    /\ reconcile' = [pc |-> "read", desired |-> Desired]
    /\ UNCHANGED <<dbVars, jobs, job, lastAlert, form, unsure>>

\* Mutants: jobs of monitors that are not wanted any more are kept; a job that
\* exists is left alone when its interval changes.
SyncJobs_keepStale ==
    /\ reconcile.pc = "read"
    /\ jobs' = [m \in Monitors |->
                  IF reconcile.desired[m] = NoJob THEN jobs[m] ELSE reconcile.desired[m]]
    /\ reconcile' = IdleReconcile
    /\ UNCHANGED <<dbVars, job, lastAlert, form, unsure>>

SyncJobs_noReschedule ==
    /\ reconcile.pc = "read"
    /\ jobs' = [m \in Monitors |->
                  IF jobs[m] # NoJob /\ reconcile.desired[m] # NoJob
                  THEN jobs[m] ELSE reconcile.desired[m]]
    /\ reconcile' = IdleReconcile
    /\ UNCHANGED <<dbVars, job, lastAlert, form, unsure>>

\* Remove stale jobs, add missing ones, reschedule changed intervals: no
\* await in between, so the table jumps to what was read.  Removing a job
\* does not stop its running instance.
SyncJobs ==
    /\ reconcile.pc = "read"
    /\ jobs' = reconcile.desired
    /\ reconcile' = IdleReconcile
    /\ UNCHANGED <<dbVars, job, lastAlert, form, unsure>>

-----------------------------------------------------------------------------
(* _run_probe_job                                                          *)

Goto(m, pc)  == job' = [job EXCEPT ![m].pc = pc]
Return(m)    == job' = [job EXCEPT ![m] = NotRunning]

\* The instance ends before its last step: what it has not announced, it
\* never will.
BreakOff(m) ==
    /\ Return(m)
    /\ unsure' = IF HasNews(m) THEN unsure \cup {m} ELSE unsure

\* Mutants: one retry too many; a pending monitor is not probed.
StartJob_extraRetry(m) ==
    /\ jobs[m] # NoJob /\ job[m].pc = "idle" /\ Schedule(m)
    /\ job' = [job EXCEPT ![m] = [pc |-> "loaded", prev |-> status[m],
                                  budget |-> retries[m] + 1, host |-> host[m],
                                  attempts |-> <<>>]]
    /\ UNCHANGED <<dbVars, jobs, reconcile, lastAlert, form, unsure>>

StartJob_notPending(m) ==
    /\ jobs[m] # NoJob /\ job[m].pc = "idle" /\ status[m] \in Probed
    /\ job' = [job EXCEPT ![m] = [pc |-> "loaded", prev |-> status[m],
                                  budget |-> retries[m], host |-> host[m],
                                  attempts |-> <<>>]]
    /\ UNCHANGED <<dbVars, jobs, reconcile, lastAlert, form, unsure>>

\* The job fires and loads the row; a missing or paused monitor is skipped.
StartJob(m) ==
    /\ jobs[m] # NoJob
    /\ job[m].pc = "idle"
    /\ Schedule(m)
    /\ job' = [job EXCEPT ![m] = [pc |-> "loaded", prev |-> status[m],
                                  budget |-> retries[m], host |-> host[m],
                                  attempts |-> <<>>]]
    /\ UNCHANGED <<dbVars, jobs, reconcile, lastAlert, form, unsure>>

\* is_monitor_under_maintenance
UnderMaintenance(m) == m \in maint

\* Maintenance is looked up once, before the first probe.
CheckMaintenance(m) ==
    /\ job[m].pc = "loaded"
    /\ IF UnderMaintenance(m) THEN Return(m) ELSE Goto(m, "probing")
    /\ UNCHANGED <<dbVars, jobs, reconcile, lastAlert, form, unsure>>

\* Mutant: the first attempt is counted as a retry.
MoreAttempts_oneShort(m) ==
    \/ job[m].attempts = <<>>
    \/ /\ Len(job[m].attempts) < job[m].budget
       /\ \A k \in DOMAIN job[m].attempts : job[m].attempts[k] = "down"

\* _probe_with_retries: the probes go on until one is UP or the retries the
\* row had at the start are used up.
MoreAttempts(m) ==
    /\ Len(job[m].attempts) <= job[m].budget
    /\ \A k \in DOMAIN job[m].attempts : job[m].attempts[k] = "down"

Probe(m) ==
    /\ job[m].pc = "probing"
    /\ MoreAttempts(m)
    /\ \E outcome \in Outcomes :
          job' = [job EXCEPT ![m].attempts = Append(@, outcome)]
    /\ UNCHANGED <<dbVars, jobs, reconcile, lastAlert, form, unsure>>

\* Mutant: the status of the first attempt is stored.
Record_firstAttempt(m) ==
    /\ job[m].pc = "probing" /\ ~MoreAttempts(m) /\ HasRow(m)
    /\ Goto(m, "evaluate")
    /\ lastResult' = [lastResult EXCEPT ![m] = Final(m)]
    /\ status' = [status EXCEPT ![m] = Head(job[m].attempts)]
    /\ UNCHANGED <<interval, retries, host, maint, jobs, reconcile, lastAlert, form, unsure>>

\* Mutant: the failure of the commit is swallowed and the instance goes on.
Record_swallowed(m) ==
    /\ job[m].pc = "probing" /\ ~MoreAttempts(m)
    /\ Goto(m, "evaluate")
    /\ IF HasRow(m)
       THEN /\ lastResult' = [lastResult EXCEPT ![m] = Final(m)]
            /\ status' = IF Final(m) = job[m].prev
                         THEN status ELSE [status EXCEPT ![m] = Final(m)]
       ELSE UNCHANGED <<lastResult, status>>
    /\ UNCHANGED <<interval, retries, host, maint, jobs, reconcile, lastAlert, form, unsure>>

\* Results and status in one commit.  The ORM writes the status column only
\* if it differs from the value this session loaded; without a row the
\* commit fails and the instance ends with nothing stored.
Record(m) ==
    /\ job[m].pc = "probing"
    /\ ~MoreAttempts(m)
    /\ IF HasRow(m)
       THEN /\ Goto(m, "evaluate")
            /\ lastResult' = [lastResult EXCEPT ![m] = Final(m)]
            /\ status' = IF Final(m) = job[m].prev
                         THEN status ELSE [status EXCEPT ![m] = Final(m)]
       ELSE /\ Return(m)
            /\ UNCHANGED <<lastResult, status>>
    /\ UNCHANGED <<interval, retries, host, maint, jobs, reconcile, lastAlert, form, unsure>>

\* TriggerService.evaluate (module TriggerProblems says what it does).  When a
\* trigger it flipped was deleted meanwhile its commit fails, and the instance
\* ends with it.
EvaluateTriggers(m) ==
    /\ job[m].pc = "evaluate"
    /\ \/ Goto(m, "bridge") /\ UNCHANGED unsure
       \/ "deletetrigger" \in Faults /\ BreakOff(m)
    /\ UNCHANGED <<dbVars, jobs, reconcile, lastAlert, form>>

\* ensure_backing_items trusts the host_id loaded at the start: without one
\* it creates the host and links it; with one whose host has gone since, the
\* insert of the missing items breaks a foreign key and the instance ends.
EnsureBacking(m) ==
    /\ job[m].pc = "bridge"
    /\ IF ~job[m].host /\ HasRow(m)
       THEN /\ host' = [host EXCEPT ![m] = TRUE]
            /\ job' = [job EXCEPT ![m].pc = "mirror", ![m].host = TRUE]
            /\ UNCHANGED unsure
       ELSE /\ UNCHANGED host
            /\ IF host[m] THEN Goto(m, "mirror") /\ UNCHANGED unsure ELSE BreakOff(m)
    /\ UNCHANGED <<status, interval, retries, lastResult, maint,
                   jobs, reconcile, lastAlert, form>>

\* The samples are committed, unless the items went with their host.
Mirror(m) ==
    /\ job[m].pc = "mirror"
    /\ IF host[m] THEN Goto(m, "alert") /\ UNCHANGED unsure ELSE BreakOff(m)
    /\ UNCHANGED <<dbVars, jobs, reconcile, lastAlert, form>>

\* The last step: hand the alert, if any, to schedule_dispatch.
Alert(m) ==
    /\ job[m].pc = "alert"
    /\ Return(m)
    /\ lastAlert' = IF ShouldAlert(m)
                    THEN [lastAlert EXCEPT ![m] = Final(m)] ELSE lastAlert
    /\ unsure' = IF ShouldAlert(m) /\ status[m] = Final(m) THEN unsure \ {m} ELSE unsure
    /\ UNCHANGED <<dbVars, jobs, reconcile, form>>

\* A statement of the running instance fails, or the probe raises (a port that
\* is not a number, an address httpx cannot parse): no handler, the job ends.
JobFails(m) ==
    /\ "dberror" \in Faults
    /\ job[m].pc # "idle"
    /\ BreakOff(m)
    /\ UNCHANGED <<dbVars, jobs, reconcile, lastAlert, form>>

JobStep(m) ==
    \/ StartJob(m) \/ CheckMaintenance(m) \/ Probe(m) \/ Record(m)
    \/ EvaluateTriggers(m) \/ EnsureBacking(m) \/ Mirror(m) \/ Alert(m)

\* ProbeScheduler.stop and a new start: the job store is in memory only.
Restart ==
    /\ "restart" \in Faults
    /\ jobs' = [m \in Monitors |-> NoJob]
    /\ reconcile' = IdleReconcile
    /\ job' = [m \in Monitors |-> NotRunning]
    /\ unsure' = unsure \cup {m \in Monitors : HasNews(m)}
    /\ UNCHANGED <<dbVars, lastAlert, form>>

-----------------------------------------------------------------------------
Request(m) ==
    \/ CreateMonitor(m) \/ CreateMonitorForm(m) \/ UpdateMonitor(m)
    \/ DeleteMonitor(m) \/ DeleteMonitorForm(m)
    \/ OpenForm(m) \/ SubmitForm(m) \/ DeleteHost(m) \/ MaintenanceChanges(m)

Next ==
    \/ \E m \in Monitors : Request(m) \/ JobStep(m) \/ JobFails(m)
    \/ ReadMonitors \/ SyncJobs \/ Restart

Spec == Init /\ [][Next]_vars

\* The interval triggers fire again and again and every await of a job ends:
\* probes have timeouts.  Nothing is assumed of users or of failures.
Fairness ==
    /\ WF_vars(ReadMonitors)
    /\ WF_vars(SyncJobs)
    /\ \A m \in Monitors : WF_vars(JobStep(m))

FairSpec == Spec /\ Fairness

-----------------------------------------------------------------------------
(* Safety.                                                                 *)

\* A status of UP or DOWN is the verdict of the newest stored probe result:
\* results and status are committed together by the only instance of the
\* monitor's job.  Needs users to write neither UP nor DOWN themselves.
StatusIsLastVerdict ==
    \A m \in Monitors : status[m] \in Probed => status[m] = lastResult[m]

\* "Consecutive probe failures tolerated before flipping to DOWN"
\* (MonitorBase.retries): a job stores DOWN only after retries + 1 failed
\* probes in a row, counted by the retries the monitor had when it started.
DownOnlyAfterRetries ==
    [][\A m \in Monitors :
          Record(m) /\ Recorded(m)' /\ Final(m) = "down" =>
             /\ Len(job[m].attempts) = job[m].budget + 1
             /\ \A k \in DOMAIN job[m].attempts : job[m].attempts[k] = "down"]_vars

\* Between two jobs, what subscribers of a monitor were last told is what its
\* row says: an UP<->DOWN alert is lost only with a job that breaks off after
\* its first commit, and otherwise only a status written by hand, resuming
\* included, keeps them in the dark; the next alert ends either.
SubscribersInformed ==
    \A m \in Monitors \ unsure :
       ~Recorded(m) /\ status[m] \in Probed =>
          lastAlert[m] \in {Never, status[m]}

\* The alert a job is about to send changes what subscribers know: no two
\* DOWN alerts without a recovery in between, and conversely, but after such
\* a loss or such a hand-written status.
NoRepeatedAlert ==
    \A m \in Monitors \ unsure :
       job[m].pc = "alert" /\ ShouldAlert(m) => lastAlert[m] # Final(m)

\* A stored transition that its instance has yet to announce.
News == [m \in Monitors |-> IF HasNews(m) THEN Final(m) ELSE Never]

Feed == INSTANCE VerdictFeed WITH
           verdict <- lastResult, news <- News, told <- lastAlert

\* "Only alert on UP<->DOWN transitions, never from PENDING": whatever fails
\* and whoever pauses, edits and deletes meanwhile, an alert tells a change of
\* the stored verdict, at most once and before the next one is stored.
FeedSpec == Feed!Spec

-----------------------------------------------------------------------------
(* Liveness, under Fairness.                                               *)

\* The job table converges to the rows: an active monitor gets a job at its
\* own interval, a paused or deleted one loses its job.
JobsFollowRows ==
    \A m \in Monitors : \A i \in Intervals \cup {NoJob} :
       (Desired[m] = i) ~> (jobs[m] = i \/ Desired[m] # i)

\* Pausing stops the probing: a monitor that stays paused loses its job, also
\* when reconcile had read it as active, and the instance in flight ends.
PauseStops ==
    \A m \in Monitors :
       <>[](status[m] = "paused") => <>[](jobs[m] = NoJob /\ job[m].pc = "idle")

\* "alerts over email/webhook on UP <-> DOWN": every stored transition of a
\* monitor that still exists reaches the dispatcher.
TransitionAlerted ==
    \A m \in Monitors : \A s \in Probed :
       (Recorded(m) /\ job[m].prev \in Probed \ {s} /\ Final(m) = s)
          ~> (lastAlert[m] = s \/ ~HasRow(m))

\* A monitor that stays active is probed to the end again and again.
KeepsProbing ==
    \A m \in Monitors :
       []<>(Schedule(m) => Recorded(m)) \/ []<>UnderMaintenance(m)
=============================================================================
