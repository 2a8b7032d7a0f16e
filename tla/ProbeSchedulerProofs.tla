------------------------ MODULE ProbeSchedulerProofs ------------------------
(***************************************************************************)
(* Theorems about ProbeScheduler for every set of monitors, intervals and  *)
(* every bound on the retries.                                             *)
(***************************************************************************)
EXTENDS ProbeScheduler, TLAPS

USE RetriesAssumption, IntervalAssumption, FaultsAssumption, StatusEditsAssumption

-----------------------------------------------------------------------------
(* Type correctness.                                                       *)

\* The initial state is well typed.
LEMMA InitType == Init => TypeOK
  BY DEF Init, TypeOK, NotRunning, IdleReconcile, JobType, JobPcs, Recorded,
         Probed, Status, NoRow, NoJob, Closed, Never

\* The outcome of the last attempt is a probe status.
LEMMA FinalType ==
  ASSUME TypeOK, NEW m \in Monitors, job[m].attempts # <<>>
  PROVE  Final(m) \in Probed
  BY DEF TypeOK, Final, JobType, Last

\* Every request of a user keeps the types.
LEMMA RequestType ==
  ASSUME TypeOK, NEW m \in Monitors, Request(m)
  PROVE  TypeOK'
  <1> USE DEF TypeOK, HasRow, Recorded, NoRow, Status, Closed, Never, dbVars, memVars
  <1>1. CASE CreateMonitor(m) \/ CreateMonitorForm(m)
    <2>1. CreateMonitor(m)
      BY <1>1 DEF CreateMonitorForm
    <2> QED
      BY <2>1 DEF CreateMonitor
  <1>2. CASE UpdateMonitor(m)
    BY <1>2 DEF UpdateMonitor, WriteStatus
  <1>3. CASE DeleteMonitor(m) \/ DeleteMonitorForm(m)
    <2>1. DeleteMonitor(m)
      BY <1>3 DEF DeleteMonitorForm
    <2> QED
      BY <2>1 DEF DeleteMonitor
  <1>4. CASE OpenForm(m)
    BY <1>4 DEF OpenForm
  <1>5. CASE SubmitForm(m)
    BY <1>5 DEF SubmitForm, WriteStatus
  <1>6. CASE DeleteHost(m)
    BY <1>6 DEF DeleteHost
  <1>7. CASE MaintenanceChanges(m)
    BY <1>7 DEF MaintenanceChanges
  <1> QED
    BY <1>1, <1>2, <1>3, <1>4, <1>5, <1>6, <1>7 DEF Request

\* The part of TypeOK about the running instances ...
JobOK ==
    /\ job \in [Monitors -> JobType]
    /\ \A m \in Monitors : Recorded(m) => job[m].attempts # <<>>

\* ... is kept by moving an instance to its next await and by ending it.
LEMMA GotoType ==
  ASSUME JobOK, NEW m \in Monitors, NEW pc \in JobPcs, Goto(m, pc),
         pc \in {"evaluate", "bridge", "mirror", "alert"} => job[m].attempts # <<>>
  PROVE  JobOK'
  BY DEF JobOK, Goto, JobType, Recorded

\* Ending an instance keeps JobOK.
LEMMA ReturnType ==
  ASSUME JobOK, NEW m \in Monitors, Return(m)
  PROVE  JobOK'
  <1>1. NotRunning \in JobType
    BY DEF NotRunning, JobType, JobPcs, Status
  <1> QED
    BY <1>1 DEF JobOK, Return, Recorded, NotRunning

\* Replacing the locals of one instance by well-typed ones keeps JobOK.
LEMMA SetType ==
  ASSUME JobOK, NEW m \in Monitors, NEW r \in JobType, job' = [job EXCEPT ![m] = r],
         r.pc \in {"evaluate", "bridge", "mirror", "alert"} => r.attempts # <<>>
  PROVE  JobOK'
  BY DEF JobOK, Recorded

\* Every await of a probe job, and its failure, keeps the types.
LEMMA InstanceType ==
  ASSUME TypeOK, NEW m \in Monitors, JobStep(m) \/ JobFails(m)
  PROVE  TypeOK'
  <1>0. JobOK /\ (JobOK' => job' \in [Monitors -> JobType]
                        /\ \A n \in Monitors : Recorded(n)' => job'[n].attempts # <<>>)
    BY DEF JobOK, TypeOK, Recorded
  <1>. USE DEF TypeOK, Recorded
  <1>1. CASE StartJob(m)
    <2>1. job'[m] \in JobType /\ job' = [job EXCEPT ![m] = job'[m]]
      BY <1>1 DEF StartJob, Schedule, HasRow, JobType, JobPcs, Status, NoRow
    <2>2. job'[m].pc = "loaded"
      BY <1>1 DEF StartJob
    <2> QED
      BY <1>1, <2>1, <2>2 DEF StartJob, dbVars
  <1>2. CASE CheckMaintenance(m)
    BY <1>0, <1>2, ReturnType, GotoType DEF CheckMaintenance, dbVars, JobPcs
  <1>3. CASE Probe(m)
    <2>1. PICK o \in Probed : job' = [job EXCEPT ![m].attempts = Append(@, o)]
      BY <1>3 DEF Probe, Outcomes
    <2> DEFINE r == [job[m] EXCEPT !.attempts = Append(@, o)]
    <2>0. job[m] \in JobType /\ job[m].pc = "probing"
      BY <1>3 DEF Probe, Outcomes
    <2>3. Append(job[m].attempts, o) \in Seq(Probed)
      BY <2>0 DEF JobType
    <2>2. r \in JobType /\ r.pc = "probing" /\ job' = [job EXCEPT ![m] = r]
      BY <2>1, <2>0, <2>3 DEF JobType
    <2>4. JobOK'
      BY <1>0, <2>2, SetType
    <2> QED
      BY <1>0, <1>3, <2>4 DEF Probe, Outcomes, dbVars
  <1>4. CASE Record(m)
    <2>1. job[m].attempts # <<>>
      BY <1>4 DEF Record, MoreAttempts, JobType
    <2>2. Final(m) \in Probed
      BY <2>1, FinalType
    <2>3. JobOK'
      BY <1>0, <1>4, <2>1, ReturnType, GotoType DEF Record, JobPcs
    <2>4. status' \in [Monitors -> Status \cup NoRow]
      BY <1>4, <2>2 DEF Record, Status
    <2>5. lastResult' \in [Monitors -> Probed \cup {Never}]
      BY <1>4, <2>2 DEF Record
    <2> QED
      BY <1>0, <1>4, <2>3, <2>4, <2>5 DEF Record
  <1>5. CASE EvaluateTriggers(m)
    BY <1>0, <1>5, GotoType, ReturnType DEF BreakOff, EvaluateTriggers, dbVars, JobPcs
  <1>6. CASE EnsureBacking(m)
    <2>1. CASE ~job[m].host /\ HasRow(m)
      <3> DEFINE r == [job[m] EXCEPT !.pc = "mirror", !.host = TRUE]
      <3>0. job[m] \in JobType /\ job[m].attempts # <<>>
        BY <1>6 DEF EnsureBacking
      <3>1. r \in JobType /\ r.attempts # <<>>
        BY <3>0 DEF JobType, JobPcs
      <3>2. job' = [job EXCEPT ![m] = r]
        BY <1>6, <2>1 DEF EnsureBacking
      <3>3. JobOK'
        BY <1>0, <3>1, <3>2, SetType
      <3>4. host' \in [Monitors -> BOOLEAN]
        BY <1>6, <2>1 DEF EnsureBacking
      <3> QED
        BY <1>0, <1>6, <2>1, <3>3, <3>4 DEF EnsureBacking
    <2>2. CASE ~(~job[m].host /\ HasRow(m))
      BY <1>0, <1>6, <2>2, ReturnType, GotoType DEF BreakOff, EnsureBacking, JobPcs
    <2> QED
      BY <2>1, <2>2
  <1>7. CASE Mirror(m)
    BY <1>0, <1>7, ReturnType, GotoType DEF BreakOff, Mirror, dbVars, JobPcs
  <1>8. CASE Alert(m)
    <2>1. Final(m) \in Probed
      BY <1>8, FinalType DEF Alert
    <2> QED
      BY <1>0, <1>8, <2>1, ReturnType DEF Alert, dbVars
  <1>9. CASE JobFails(m)
    BY <1>0, <1>9, ReturnType DEF BreakOff, JobFails, dbVars
  <1> QED
    BY <1>1, <1>2, <1>3, <1>4, <1>5, <1>6, <1>7, <1>8, <1>9 DEF JobStep

\* TypeOK is inductive.
LEMMA NextType == TypeOK /\ [Next]_vars => TypeOK'
  <1> SUFFICES ASSUME TypeOK, [Next]_vars PROVE TypeOK'
    OBVIOUS
  <1>1. CASE \E m \in Monitors : Request(m)
    BY <1>1, RequestType
  <1>2. CASE \E m \in Monitors : JobStep(m) \/ JobFails(m)
    BY <1>2, InstanceType
  <1>3. CASE ReadMonitors
    BY <1>3 DEF ReadMonitors, TypeOK, Desired, Schedule, HasRow, dbVars, Recorded
  <1>4. CASE SyncJobs
    BY <1>4 DEF SyncJobs, TypeOK, IdleReconcile, dbVars, Recorded
  <1>5. CASE Restart
    BY <1>5 DEF Restart, TypeOK, IdleReconcile, NotRunning, JobType, JobPcs,
                Status, Recorded, dbVars
  <1>6. CASE UNCHANGED vars
    BY <1>6 DEF vars, TypeOK, Recorded
  <1> QED
    BY <1>1, <1>2, <1>3, <1>4, <1>5, <1>6 DEF Next

\* Every variable of the model keeps its type: rows hold values the schema
\* admits, and an instance that stored its results has made a probe.
THEOREM TypeCorrect == Spec => []TypeOK
  BY InitType, NextType, PTL DEF Spec

-----------------------------------------------------------------------------
(* What the steps of an instance do to its locals.                         *)

\* The instances of other monitors are left alone.
Others(m) == \A n \in Monitors \ {m} : job'[n] = job[n]

SameLocals(m) ==
    /\ job'[m].prev = job[m].prev
    /\ job'[m].host = job[m].host
    /\ job'[m].attempts = job[m].attempts

\* Goto changes the program counter of one instance and nothing else.
LEMMA GotoEffect ==
  ASSUME TypeOK, NEW m \in Monitors, NEW pc, Goto(m, pc)
  PROVE  Others(m) /\ SameLocals(m) /\ job'[m].pc = pc
  BY DEF TypeOK, Goto, JobType, Others, SameLocals

\* Return idles one instance and leaves the others alone.
LEMMA ReturnEffect ==
  ASSUME TypeOK, NEW m \in Monitors, Return(m)
  PROVE  Others(m) /\ job'[m].pc = "idle"
  BY DEF TypeOK, Return, NotRunning, Others

\* A probe touches only the attempts of its own instance.
LEMMA ProbeEffect ==
  ASSUME TypeOK, NEW m \in Monitors, Probe(m)
  PROVE  /\ Others(m) /\ job[m].pc = "probing" /\ job'[m].pc = "probing"
         /\ job'[m].prev = job[m].prev /\ job'[m].host = job[m].host
  <1>1. PICK o \in Probed : job' = [job EXCEPT ![m].attempts = Append(@, o)]
    BY DEF Probe, Outcomes
  <1> QED
    BY <1>1 DEF TypeOK, JobType, Probe, Outcomes, Others

\* EnsureBacking keeps the snapshot and the attempts, or ends the instance.
LEMMA EnsureEffect ==
  ASSUME TypeOK, NEW m \in Monitors, EnsureBacking(m)
  PROVE  /\ Others(m) /\ job[m].pc = "bridge"
         /\ \/ /\ job'[m].pc = "mirror" /\ job'[m].host
               /\ job'[m].prev = job[m].prev /\ job'[m].attempts = job[m].attempts
               /\ UNCHANGED unsure
            \/ job'[m].pc = "mirror" /\ SameLocals(m) /\ UNCHANGED unsure
            \/ job'[m].pc = "idle" /\ BreakOff(m)
  <1>1. CASE ~job[m].host /\ HasRow(m)
    BY <1>1 DEF EnsureBacking, TypeOK, JobType, Others, SameLocals
  <1>2. CASE ~(~job[m].host /\ HasRow(m)) /\ host[m]
    BY <1>2, GotoEffect DEF EnsureBacking, TypeOK
  <1>3. CASE ~(~job[m].host /\ HasRow(m)) /\ ~host[m]
    BY <1>3, ReturnEffect DEF BreakOff, EnsureBacking, BreakOff, TypeOK
  <1> QED
    BY <1>1, <1>2, <1>3

-----------------------------------------------------------------------------
(* The stored status is the verdict of the newest result.                  *)

\* While an instance probes, a status of UP or DOWN is the one it loaded:
\* nobody else writes these two.
SnapshotIsCurrent ==
    \A m \in Monitors :
       job[m].pc \in {"loaded", "probing"} /\ status[m] \in Probed =>
          status[m] = job[m].prev

VerdictInv == TypeOK /\ SnapshotIsCurrent /\ StatusIsLastVerdict

\* Requests keep status and newest result in agreement.
LEMMA VerdictRequest ==
  ASSUME VerdictInv, StatusEdits \cap Probed = {}, "staleform" \notin Faults,
         \A n \in Monitors : form[n] = Closed,
         NEW m \in Monitors, Request(m)
  PROVE  (SnapshotIsCurrent /\ StatusIsLastVerdict)'
  <1> USE DEF VerdictInv, TypeOK, SnapshotIsCurrent, StatusIsLastVerdict, HasRow,
              NoRow, Probed, memVars, dbVars
  <1>1. CASE CreateMonitor(m) \/ CreateMonitorForm(m)
    <2>1. CreateMonitor(m)
      BY <1>1 DEF CreateMonitorForm
    <2> QED
      BY <2>1 DEF CreateMonitor
  <1>2. CASE UpdateMonitor(m)
    BY <1>2 DEF UpdateMonitor, WriteStatus
  <1>3. CASE DeleteMonitor(m) \/ DeleteMonitorForm(m)
    <2>1. DeleteMonitor(m)
      BY <1>3 DEF DeleteMonitorForm
    <2> QED
      BY <2>1 DEF DeleteMonitor
  <1>4. CASE OpenForm(m) \/ SubmitForm(m)
    BY <1>4 DEF OpenForm, SubmitForm, WriteStatus
  <1>5. CASE DeleteHost(m)
    BY <1>5 DEF DeleteHost
  <1>6. CASE MaintenanceChanges(m)
    BY <1>6 DEF MaintenanceChanges
  <1> QED
    BY <1>1, <1>2, <1>3, <1>4, <1>5, <1>6 DEF Request

\* The awaits of a probe job keep status and newest result in agreement.
LEMMA VerdictInstance ==
  ASSUME VerdictInv, NEW m \in Monitors, JobStep(m) \/ JobFails(m)
  PROVE  (SnapshotIsCurrent /\ StatusIsLastVerdict)'
  <1>0. TypeOK
    BY DEF VerdictInv
  <1> USE DEF VerdictInv, SnapshotIsCurrent, StatusIsLastVerdict, Others
  <1>1. CASE StartJob(m)
    BY <1>0, <1>1 DEF StartJob, dbVars, TypeOK
  <1>2. CASE CheckMaintenance(m)
    BY <1>0, <1>2, ReturnEffect, GotoEffect DEF CheckMaintenance, SameLocals, dbVars
  <1>3. CASE Probe(m)
    <2>1. UNCHANGED <<status, lastResult>>
      BY <1>3 DEF Probe, Outcomes, dbVars
    <2> QED
      BY <1>0, <1>3, <2>1, ProbeEffect
  <1>4. CASE Record(m)
    <2>1. job[m].pc = "probing" /\ job'[m].pc \in {"idle", "evaluate"} /\ Others(m)
      BY <1>0, <1>4, ReturnEffect, GotoEffect DEF Record
    <2>2. SnapshotIsCurrent'
      BY <1>0, <1>4, <2>1 DEF Record, TypeOK
    <2>3. StatusIsLastVerdict'
      BY <1>0, <1>4, <2>1 DEF Record, TypeOK
    <2> QED
      BY <2>2, <2>3
  <1>5. CASE EvaluateTriggers(m)
    BY <1>0, <1>5, GotoEffect, ReturnEffect DEF BreakOff, EvaluateTriggers, dbVars
  <1>6. CASE EnsureBacking(m)
    <2>1. UNCHANGED <<status, lastResult>>
      BY <1>6 DEF EnsureBacking
    <2> QED
      BY <1>0, <1>6, <2>1, EnsureEffect
  <1>7. CASE Mirror(m) \/ Alert(m) \/ JobFails(m)
    <2>1. UNCHANGED <<status, lastResult>>
      BY <1>7 DEF Mirror, Alert, JobFails, dbVars
    <2>2. job'[m].pc \in {"idle", "alert"} /\ Others(m)
      BY <1>0, <1>7, ReturnEffect, GotoEffect DEF BreakOff, Mirror, Alert, JobFails
    <2> QED
      BY <1>0, <2>1, <2>2
  <1> QED
    BY <1>1, <1>2, <1>3, <1>4, <1>5, <1>6, <1>7 DEF JobStep

\* Without stale forms no form is ever open.
LEMMA NoForms ==
  ASSUME "staleform" \notin Faults
  PROVE  Spec => [](\A n \in Monitors : form[n] = Closed)
  <1> DEFINE I == TypeOK /\ \A n \in Monitors : form[n] = Closed
  <1>1. Init => I
    BY InitType DEF Init
  <1>2. I /\ [Next]_vars => I'
    <2> SUFFICES ASSUME I, [Next]_vars PROVE \A n \in Monitors : form'[n] = Closed
      BY NextType
    <2>1. CASE \E m \in Monitors : Request(m)
      BY <2>1 DEF Request, CreateMonitor, CreateMonitorForm, UpdateMonitor, DeleteMonitor,
                  DeleteMonitorForm, WriteStatus, OpenForm, SubmitForm, DeleteHost, MaintenanceChanges, TypeOK
    <2>2. CASE \E m \in Monitors : JobStep(m) \/ JobFails(m)
      BY <2>2 DEF JobStep, StartJob, CheckMaintenance, Probe, Outcomes, Record, EvaluateTriggers,
                  EnsureBacking, Mirror, Alert, JobFails, BreakOff
    <2>3. CASE ReadMonitors \/ SyncJobs \/ Restart \/ UNCHANGED vars
      BY <2>3 DEF ReadMonitors, SyncJobs, Restart, vars
    <2> QED
      BY <2>1, <2>2, <2>3 DEF Next
  <1> QED
    BY <1>1, <1>2, PTL DEF Spec

\* Initially there is no status to agree with.
LEMMA VerdictInit == Init => VerdictInv
  BY InitType DEF Init, VerdictInv, SnapshotIsCurrent, StatusIsLastVerdict, Probed

\* Every step keeps status and newest result in agreement.
LEMMA VerdictNext ==
  ASSUME VerdictInv, StatusEdits \cap Probed = {}, "staleform" \notin Faults,
         \A n \in Monitors : form[n] = Closed, [Next]_vars
  PROVE  VerdictInv'
  <1>1. CASE \E m \in Monitors : Request(m)
    BY <1>1, VerdictRequest, NextType DEF VerdictInv
  <1>2. CASE \E m \in Monitors : JobStep(m) \/ JobFails(m)
    BY <1>2, VerdictInstance, NextType DEF VerdictInv
  <1>3. CASE ReadMonitors \/ SyncJobs \/ UNCHANGED vars
    <2>1. (SnapshotIsCurrent /\ StatusIsLastVerdict)'
      BY <1>3 DEF ReadMonitors, SyncJobs, vars, dbVars, VerdictInv,
                  SnapshotIsCurrent, StatusIsLastVerdict
    <2> QED
      BY <2>1, NextType DEF VerdictInv
  <1>4. CASE Restart
    <2>1. (SnapshotIsCurrent /\ StatusIsLastVerdict)'
      BY <1>4 DEF Restart, NotRunning, dbVars, VerdictInv,
                  SnapshotIsCurrent, StatusIsLastVerdict
    <2> QED
      BY <2>1, NextType DEF VerdictInv
  <1> QED
    BY <1>1, <1>2, <1>3, <1>4 DEF Next

\* A monitor shown UP or DOWN has a newest probe result that says so, as
\* long as users write neither status by hand: whatever the retries, the
\* pauses, the deletions and the failures of jobs, hosts and process.
THEOREM VerdictStored ==
  ASSUME StatusEdits \cap Probed = {}, "staleform" \notin Faults
  PROVE  Spec => []StatusIsLastVerdict
  <1> DEFINE NoForm == \A n \in Monitors : form[n] = Closed
  <1>1. VerdictInv /\ NoForm /\ [Next]_vars => VerdictInv'
    BY VerdictNext
  <1>2. VerdictInv => StatusIsLastVerdict
    BY DEF VerdictInv
  <1> QED
    BY <1>1, <1>2, VerdictInit, NoForms, PTL DEF Spec

-----------------------------------------------------------------------------
(* Alerts keep up with the stored status.                                  *)

\* An instance of a monitor outside `unsure` started from a status its
\* subscribers knew about, and before its commit the row only shows another
\* one when it was paused or deleted.
AlertBase(m) ==
    job[m].pc # "idle" =>
       /\ job[m].prev # "paused"
       /\ status[m] # "unborn"
       /\ job[m].prev \in Probed => lastAlert[m] \in {Never, job[m].prev}
       /\ job[m].prev = "pending" => lastAlert[m] = Never
       /\ ~Recorded(m) => status[m] \in {job[m].prev, "paused", "deleted"}

\* Once recorded, the verdict can only be hidden by a pause or a deletion.
VerdictStands(m) == Recorded(m) => status[m] \in {Final(m), "paused", "deleted"}

\* Nothing was said about a monitor that has not been probed.
SilentBefore(m) == status[m] \in {"unborn", "pending"} => lastAlert[m] = Never

\* SubscribersInformed for one monitor.
Told(m) == ~Recorded(m) /\ status[m] \in Probed => lastAlert[m] \in {Never, status[m]}

Informed(m) ==
    m \notin unsure => AlertBase(m) /\ VerdictStands(m) /\ SilentBefore(m) /\ Told(m)

InformedInv == TypeOK /\ \A m \in Monitors : Informed(m)

\* A step that leaves a monitor's row, instance and alert alone and does not
\* take it out of `unsure` keeps what is known of it.
LEMMA InformedFrame ==
  ASSUME NEW m \in Monitors, Informed(m), m \in unsure => m \in unsure',
         UNCHANGED <<status[m], lastAlert[m], job[m]>>
  PROVE  Informed(m)'
  BY DEF Informed, AlertBase, VerdictStands, SilentBefore, Told, Recorded, Final

\* Requests: another monitor's row is left alone, and whoever writes a status
\* other than "paused" into this one makes it unsure.
LEMMA InformedRequest ==
  ASSUME InformedInv, NEW m \in Monitors, Request(m)
  PROVE  \A n \in Monitors : Informed(n)'
  <1>0. TypeOK /\ Informed(m) /\ \A n \in Monitors : Informed(n)
    BY DEF InformedInv
  <1>1. /\ UNCHANGED <<job, lastAlert>> /\ unsure \subseteq unsure'
        /\ \A n \in Monitors \ {m} : status'[n] = status[n]
        /\ \/ status'[m] \in {status[m], "paused", "deleted"} \/ m \in unsure'
           \/ status[m] = "unborn" /\ status'[m] = "pending"
    <2> USE <1>0 DEF TypeOK, memVars, dbVars
    <2>1. CASE CreateMonitor(m) \/ CreateMonitorForm(m)
      BY <2>1 DEF CreateMonitor, CreateMonitorForm
    <2>2. CASE UpdateMonitor(m)
      BY <2>2 DEF UpdateMonitor, WriteStatus
    <2>3. CASE SubmitForm(m)
      BY <2>3 DEF SubmitForm, WriteStatus
    <2>4. CASE DeleteMonitor(m) \/ DeleteMonitorForm(m)
      BY <2>4 DEF DeleteMonitor, DeleteMonitorForm
    <2>5. CASE OpenForm(m) \/ DeleteHost(m) \/ MaintenanceChanges(m)
      BY <2>5 DEF OpenForm, DeleteHost, MaintenanceChanges
    <2> QED
      BY <2>1, <2>2, <2>3, <2>4, <2>5 DEF Request
  <1>2. ASSUME NEW n \in Monitors \ {m} PROVE Informed(n)'
    BY <1>0, <1>1, InformedFrame
  <1>3. Informed(m)'
    <2> SUFFICES ASSUME m \notin unsure'
                 PROVE  (AlertBase(m) /\ VerdictStands(m) /\ SilentBefore(m) /\ Told(m))'
      BY DEF Informed
    <2>1. m \notin unsure /\ AlertBase(m) /\ VerdictStands(m) /\ SilentBefore(m) /\ Told(m)
      BY <1>0, <1>1 DEF Informed
    <2>2. Recorded(m)' = Recorded(m) /\ Final(m)' = Final(m)
      BY <1>1 DEF Recorded, Final
    <2> QED
      BY <1>1, <2>1, <2>2
         DEF AlertBase, VerdictStands, SilentBefore, Told, Recorded, Probed
  <1> QED
    BY <1>2, <1>3

\* An instance that breaks off keeps its own monitor's part of the invariant.
LEMMA InformedEnd ==
  ASSUME InformedInv, NEW m \in Monitors, job'[m].pc = "idle",
         UNCHANGED <<status[m], lastAlert[m]>>,
         unsure \subseteq unsure', HasNews(m) => m \in unsure'
  PROVE  Informed(m)'
  <1> SUFFICES ASSUME m \notin unsure' PROVE Informed(m)'
    BY DEF Informed
  <1>1. AlertBase(m) /\ VerdictStands(m) /\ SilentBefore(m) /\ Told(m) /\ ~HasNews(m)
    BY DEF InformedInv, Informed
  <1>2. Recorded(m) => job[m].prev = "pending" \/ job[m].prev = Final(m)
    BY <1>1 DEF HasNews, ShouldAlert, AlertBase, InformedInv, TypeOK, JobType, Status, Recorded
  <1>3. Recorded(m) => lastAlert[m] \in {Never, Final(m)}
    <2>1. Recorded(m) => Final(m) \in Probed
      BY FinalType DEF InformedInv, TypeOK
    <2> QED
      BY <1>1, <1>2, <2>1 DEF AlertBase, Recorded
  <1> QED
    BY <1>1, <1>3
       DEF Informed, AlertBase, VerdictStands, SilentBefore, Told, Recorded, Probed

\* The awaits after the commit go on with the same locals or break off.
LEMMA BreaksOff ==
  ASSUME TypeOK, NEW m \in Monitors,
         EvaluateTriggers(m) \/ EnsureBacking(m) \/ Mirror(m) \/ JobFails(m)
  PROVE  /\ Others(m) /\ UNCHANGED <<status, lastAlert>> /\ unsure \subseteq unsure'
         /\ \/ /\ Recorded(m) /\ Recorded(m)' /\ job'[m].pc # "idle"
               /\ job'[m].prev = job[m].prev /\ job'[m].attempts = job[m].attempts
            \/ job'[m].pc = "idle" /\ (HasNews(m) => m \in unsure')
  <1>1. ASSUME BreakOff(m)
        PROVE  Others(m) /\ job'[m].pc = "idle" /\ (HasNews(m) => m \in unsure')
               /\ unsure \subseteq unsure'
    BY <1>1, ReturnEffect DEF BreakOff
  <1>2. CASE EvaluateTriggers(m)
    <2>1. UNCHANGED <<status, lastAlert>> /\ job[m].pc = "evaluate"
      BY <1>2 DEF EvaluateTriggers, dbVars
    <2> QED
      BY <1>1, <1>2, <2>1, GotoEffect DEF EvaluateTriggers, Recorded, SameLocals
  <1>3. CASE EnsureBacking(m)
    <2>1. UNCHANGED <<status, lastAlert>>
      BY <1>3 DEF EnsureBacking
    <2> QED
      BY <1>1, <1>3, <2>1, EnsureEffect DEF Recorded, SameLocals
  <1>4. CASE Mirror(m)
    <2>1. UNCHANGED <<status, lastAlert>> /\ job[m].pc = "mirror"
      BY <1>4 DEF Mirror, dbVars
    <2> QED
      BY <1>1, <1>4, <2>1, GotoEffect DEF Mirror, Recorded, SameLocals
  <1>5. CASE JobFails(m)
    BY <1>1, <1>5 DEF JobFails, dbVars
  <1> QED
    BY <1>2, <1>3, <1>4, <1>5

\* The awaits of a probe job.
LEMMA InformedInstance ==
  ASSUME InformedInv, NEW m \in Monitors, JobStep(m) \/ JobFails(m)
  PROVE  \A n \in Monitors : Informed(n)'
  <1>0. TypeOK /\ Informed(m) /\ \A n \in Monitors : Informed(n)
    BY DEF InformedInv
  <1> DEFINE Rest == \A n \in Monitors \ {m} :
                        UNCHANGED <<status[n], lastAlert[n], job[n]>>
                        /\ (n \in unsure => n \in unsure')
  <1>1. Rest => \A n \in Monitors \ {m} : Informed(n)'
    BY <1>0, InformedFrame
  <1> SUFFICES Rest /\ Informed(m)'
    BY <1>1
  <1>2. CASE StartJob(m)
    <2>1. /\ Others(m) /\ job[m].pc = "idle" /\ job'[m].pc = "loaded"
          /\ job'[m].prev = status[m] /\ HasRow(m) /\ status[m] # "paused"
          /\ UNCHANGED <<status, lastAlert, unsure>>
      BY <1>0, <1>2 DEF StartJob, Schedule, dbVars, TypeOK, Others
    <2> QED
      BY <1>0, <2>1 DEF Others, HasRow, NoRow, Informed, AlertBase, VerdictStands,
                        SilentBefore, Told, Recorded, Probed
  <1>3. CASE CheckMaintenance(m) \/ Probe(m)
    <2>1. /\ Others(m) /\ UNCHANGED <<status, lastAlert, unsure>> /\ ~Recorded(m)
          /\ job[m].pc # "idle"
          /\ \/ job'[m].pc = "idle"
             \/ job'[m].pc = "probing" /\ job'[m].prev = job[m].prev
      <3>1. CASE Probe(m)
        <4>1. UNCHANGED <<status, lastAlert, unsure>>
          BY <3>1 DEF Probe, Outcomes, dbVars
        <4> QED
          BY <1>0, <3>1, <4>1, ProbeEffect DEF Recorded
      <3>2. CASE CheckMaintenance(m)
        <4>1. UNCHANGED <<status, lastAlert, unsure>> /\ job[m].pc = "loaded"
          BY <3>2 DEF CheckMaintenance, dbVars
        <4> QED
          BY <1>0, <3>2, <4>1, ReturnEffect, GotoEffect
             DEF CheckMaintenance, SameLocals, Recorded
      <3> QED
        BY <1>3, <3>1, <3>2
    <2> QED
      BY <1>0, <2>1 DEF Others, Informed, AlertBase, VerdictStands, SilentBefore, Told, Recorded
  <1>4. CASE Record(m)
    <2>0. job[m].pc = "probing" /\ UNCHANGED <<lastAlert, unsure>>
      BY <1>4 DEF Record
    <2>1. Final(m) \in Probed
      <3>1. job[m].attempts # <<>>
        BY <1>0, <1>4 DEF Record, MoreAttempts, TypeOK, JobType
      <3> QED
        BY <1>0, <3>1, FinalType
    <2>2. CASE HasRow(m)
      <3>1. /\ Others(m) /\ job'[m].pc = "evaluate" /\ SameLocals(m)
            /\ Final(m)' = Final(m)
        BY <1>0, <1>4, <2>2, GotoEffect DEF Record, Final, SameLocals
      <3>2. /\ \A n \in Monitors \ {m} : status'[n] = status[n]
            /\ status'[m] = IF Final(m) = job[m].prev THEN status[m] ELSE Final(m)
        BY <1>0, <1>4, <2>2 DEF Record, TypeOK
      <3>3. ASSUME m \notin unsure
            PROVE  /\ AlertBase(m) /\ status[m] \in {job[m].prev, "paused"}
                   /\ status'[m] \in {Final(m), "paused"}
        BY <1>0, <2>0, <2>2, <3>2, <3>3 DEF Informed, AlertBase, Recorded, HasRow, NoRow
      <3>4. Informed(m)'
        BY <2>0, <2>1, <3>1, <3>3 DEF SameLocals, Informed, AlertBase, VerdictStands,
                                      SilentBefore, Told, Recorded, Probed
      <3> QED
        BY <2>0, <3>1, <3>2, <3>4 DEF Others
    <2>3. CASE ~HasRow(m)
      <3>1. Others(m) /\ job'[m].pc = "idle" /\ status' = status
        BY <1>0, <1>4, <2>3, ReturnEffect DEF Record
      <3>2. Informed(m)'
        BY <2>0, <3>1, InformedEnd DEF HasNews, Recorded
      <3> QED
        BY <2>0, <3>1, <3>2 DEF Others
    <2> QED
      BY <2>2, <2>3
  <1>5. CASE Alert(m)
    <2>1. /\ Others(m) /\ UNCHANGED status
          /\ job[m].pc = "alert" /\ job'[m].pc = "idle"
      BY <1>0, <1>5, ReturnEffect DEF Alert, dbVars
    <2>2. /\ \A n \in Monitors \ {m} : lastAlert'[n] = lastAlert[n] /\ (n \in unsure' <=> n \in unsure)
          /\ lastAlert'[m] = IF ShouldAlert(m) THEN Final(m) ELSE lastAlert[m]
          /\ m \notin unsure' => m \notin unsure \/ (ShouldAlert(m) /\ status[m] = Final(m))
          /\ ~ShouldAlert(m) => unsure' = unsure
      BY <1>0, <1>5 DEF Alert, TypeOK
    <2>3. CASE ~ShouldAlert(m)
      <3>1. Informed(m)'
        BY <2>1, <2>2, <2>3, InformedEnd DEF HasNews
      <3> QED
        BY <2>1, <2>2, <3>1 DEF Others
    <2>4. CASE ShouldAlert(m)
      <3>1. Final(m) \in Probed
        BY <1>0, <2>1, FinalType DEF TypeOK, Recorded
      <3>2. m \notin unsure' => status[m] \in {Final(m), "paused", "deleted"}
        BY <1>0, <2>1, <2>2 DEF Informed, VerdictStands, Recorded
      <3>3. Informed(m)'
        BY <2>1, <2>2, <2>4, <3>1, <3>2 DEF Informed, AlertBase, VerdictStands, SilentBefore,
                                           Told, Recorded, Probed
      <3> QED
        BY <2>1, <2>2, <3>3 DEF Others
    <2> QED
      BY <2>3, <2>4
  <1>6. CASE EvaluateTriggers(m) \/ EnsureBacking(m) \/ Mirror(m) \/ JobFails(m)
    <2>1. /\ Others(m) /\ UNCHANGED <<status, lastAlert>> /\ unsure \subseteq unsure'
          /\ \/ /\ Recorded(m) /\ Recorded(m)' /\ job'[m].pc # "idle"
                /\ job'[m].prev = job[m].prev /\ job'[m].attempts = job[m].attempts
             \/ job'[m].pc = "idle" /\ (HasNews(m) => m \in unsure')
      BY <1>0, <1>6, BreaksOff
    <2>2. Informed(m)'
      <3>1. CASE job'[m].pc = "idle" /\ (HasNews(m) => m \in unsure')
        BY <2>1, <3>1, InformedEnd
      <3>2. CASE /\ Recorded(m) /\ Recorded(m)' /\ job'[m].pc # "idle"
                 /\ job'[m].prev = job[m].prev /\ job'[m].attempts = job[m].attempts
        <4>1. Final(m)' = Final(m) /\ job[m].pc # "idle"
          BY <3>2 DEF Final, Recorded
        <4> QED
          BY <1>0, <2>1, <3>2, <4>1
             DEF Informed, AlertBase, VerdictStands, SilentBefore, Told
      <3> QED
        BY <2>1, <3>1, <3>2
    <2> QED
      BY <2>1, <2>2 DEF Others
  <1> QED
    BY <1>2, <1>3, <1>4, <1>5, <1>6 DEF JobStep

\* The alert invariant is inductive.
LEMMA InformedNext == InformedInv /\ [Next]_vars => InformedInv'
  <1> SUFFICES ASSUME InformedInv, [Next]_vars PROVE \A m \in Monitors : Informed(m)'
    BY NextType DEF InformedInv
  <1>1. CASE \E m \in Monitors : Request(m)
    BY <1>1, InformedRequest
  <1>2. CASE \E m \in Monitors : JobStep(m) \/ JobFails(m)
    BY <1>2, InformedInstance
  <1>3. CASE ReadMonitors \/ SyncJobs \/ UNCHANGED vars
    <2>1. UNCHANGED <<status, lastAlert, job, unsure>>
      BY <1>3 DEF ReadMonitors, SyncJobs, vars, dbVars
    <2> QED
      BY <2>1, InformedFrame DEF InformedInv
  <1>4. CASE Restart
    <2>1. /\ \A m \in Monitors : job'[m].pc = "idle" /\ (HasNews(m) => m \in unsure')
          /\ UNCHANGED <<status, lastAlert>> /\ unsure \subseteq unsure'
      BY <1>4 DEF Restart, NotRunning, dbVars
    <2> QED
      BY <2>1, InformedEnd
  <1> QED
    BY <1>1, <1>2, <1>3, <1>4 DEF Next

\* Whatever fails, restarts, is deleted, paused, edited or saved from a stale
\* form: unless a job broke off with an alert or a user wrote a status by hand
\* since the newest alert, what subscribers were told last is what is stored,
\* and no alert repeats the one before it.
THEOREM AlertsKeepUp == Spec => [](SubscribersInformed /\ NoRepeatedAlert)
  <1>1. Init => InformedInv
    BY InitType DEF Init, NotRunning, InformedInv, Informed, AlertBase, VerdictStands,
       SilentBefore, Told, Recorded, Probed
  <1>2. InformedInv => SubscribersInformed /\ NoRepeatedAlert
    <2> SUFFICES ASSUME InformedInv, NEW m \in Monitors \ unsure
                 PROVE  /\ ~Recorded(m) /\ status[m] \in Probed =>
                              lastAlert[m] \in {Never, status[m]}
                        /\ job[m].pc = "alert" /\ ShouldAlert(m) => lastAlert[m] # Final(m)
      BY DEF SubscribersInformed, NoRepeatedAlert
    <2>1. AlertBase(m) /\ Told(m)
      BY DEF InformedInv, Informed
    <2>2. job[m].pc = "alert" => Final(m) \in Probed
      BY FinalType DEF InformedInv, TypeOK, Recorded
    <2> QED
      BY <2>1, <2>2 DEF AlertBase, Told, ShouldAlert, Never, Probed
  <1> QED
    BY <1>1, <1>2, InformedNext, PTL DEF Spec

\* In particular no two DOWN alerts come without a recovery in between, and
\* conversely, but after such a loss or such a hand-written status.
THEOREM AlertsAreNews == Spec => []NoRepeatedAlert
  BY AlertsKeepUp, PTL

-----------------------------------------------------------------------------
(* DOWN is stored only after the retries of the snapshot are used up.      *)

\* The attempts of an instance: never more than the budget allows, and every
\* one but the last failed.
AttemptsOK(r) ==
    /\ Len(r.attempts) <= r.budget + 1
    /\ \A k \in 1..(Len(r.attempts) - 1) : r.attempts[k] = "down"

AttemptsInv == TypeOK /\ \A m \in Monitors : AttemptsOK(job[m])

\* An idle instance, and one that was just started, has made no attempt.
LEMMA NoAttempts ==
  ASSUME NEW r, r.attempts = <<>>, r.budget \in Nat
  PROVE  AttemptsOK(r)
  BY DEF AttemptsOK

\* One more attempt within the budget, after failed ones only.
LEMMA OneMoreAttempt ==
  ASSUME NEW r \in JobType, NEW o \in Probed, Len(r.attempts) <= r.budget,
         \A k \in DOMAIN r.attempts : r.attempts[k] = "down"
  PROVE  AttemptsOK([r EXCEPT !.attempts = Append(@, o)])
  <1> DEFINE s == Append(r.attempts, o)
  <1>1. r.attempts \in Seq(Probed) /\ r.budget \in Nat
    BY DEF JobType
  <1>2. Len(s) = Len(r.attempts) + 1 /\ \A k \in 1..Len(r.attempts) : s[k] = r.attempts[k]
    BY <1>1
  <1>3. DOMAIN r.attempts = 1..Len(r.attempts)
    BY <1>1
  <1>4. [r EXCEPT !.attempts = s].attempts = s /\ [r EXCEPT !.attempts = s].budget = r.budget
    BY DEF JobType
  <1> QED
    BY <1>1, <1>2, <1>3, <1>4 DEF AttemptsOK

\* The step of an instance adds one allowed attempt, keeps the attempts or
\* throws them away.
LEMMA AttemptsInstance ==
  ASSUME AttemptsInv, NEW m \in Monitors, JobStep(m) \/ JobFails(m)
  PROVE  \A n \in Monitors : AttemptsOK(job'[n])
  <1>0. TypeOK /\ Others(m) => (AttemptsOK(job'[m]) => \A n \in Monitors : AttemptsOK(job'[n]))
    BY DEF AttemptsInv, Others
  <1>1. TypeOK
    BY DEF AttemptsInv
  <1>2. CASE Return(m)
    <2>1. job'[m] = NotRunning
      BY <1>1, <1>2 DEF Return, TypeOK
    <2>2. AttemptsOK(job'[m])
      BY <2>1, NoAttempts DEF NotRunning
    <2> QED
      BY <1>0, <1>1, <1>2, <2>2, ReturnEffect
  <1>3. CASE StartJob(m)
    <2>1. job'[m].attempts = <<>> /\ job'[m].budget \in Nat /\ Others(m)
      BY <1>1, <1>3 DEF StartJob, TypeOK, Others
    <2>2. AttemptsOK(job'[m])
      BY <2>1, NoAttempts
    <2> QED
      BY <1>0, <1>1, <2>1, <2>2
  <1>4. CASE Probe(m)
    <2>1. PICK o \in Probed : job' = [job EXCEPT ![m].attempts = Append(@, o)]
      BY <1>4 DEF Probe, Outcomes
    <2>2. job[m] \in JobType /\ job'[m] = [job[m] EXCEPT !.attempts = Append(@, o)]
      BY <1>1, <2>1 DEF TypeOK
    <2>3. AttemptsOK(job'[m])
      BY <1>4, <2>2, OneMoreAttempt DEF Probe, MoreAttempts
    <2> QED
      BY <1>0, <1>1, <1>4, <2>3, ProbeEffect
  <1>5. CASE \E pc : Goto(m, pc)
    <2>1. Others(m) /\ job'[m].attempts = job[m].attempts /\ job'[m].budget = job[m].budget
      BY <1>1, <1>5 DEF Goto, TypeOK, JobType, Others
    <2> QED
      BY <1>0, <1>1, <2>1 DEF AttemptsInv, AttemptsOK
  <1>6. CASE EnsureBacking(m) /\ ~job[m].host /\ HasRow(m)
    <2>1. Others(m) /\ job'[m].attempts = job[m].attempts /\ job'[m].budget = job[m].budget
      BY <1>1, <1>6 DEF EnsureBacking, TypeOK, JobType, Others
    <2> QED
      BY <1>0, <1>1, <2>1 DEF AttemptsInv, AttemptsOK
  <1> QED
    BY <1>2, <1>3, <1>4, <1>5, <1>6 DEF JobStep, CheckMaintenance, Record, EvaluateTriggers,
       EnsureBacking, Mirror, Alert, JobFails, BreakOff

\* The bound on the attempts is inductive.
LEMMA AttemptsNext == AttemptsInv /\ [Next]_vars => AttemptsInv'
  <1> SUFFICES ASSUME AttemptsInv, [Next]_vars PROVE \A m \in Monitors : AttemptsOK(job'[m])
    BY NextType DEF AttemptsInv
  <1>1. CASE \E m \in Monitors : Request(m)
    BY <1>1 DEF Request, CreateMonitor, CreateMonitorForm, UpdateMonitor, DeleteMonitor,
       DeleteMonitorForm, WriteStatus, OpenForm, SubmitForm, DeleteHost, MaintenanceChanges, memVars,
       AttemptsInv
  <1>2. CASE \E m \in Monitors : JobStep(m) \/ JobFails(m)
    BY <1>2, AttemptsInstance
  <1>3. CASE ReadMonitors \/ SyncJobs \/ UNCHANGED vars
    BY <1>3 DEF ReadMonitors, SyncJobs, vars, AttemptsInv
  <1>4. CASE Restart
    BY <1>4, NoAttempts DEF Restart, NotRunning
  <1> QED
    BY <1>1, <1>2, <1>3, <1>4 DEF Next

\* When the probing ends on a failure, the whole budget went into failures.
LEMMA AllAttemptsFailed ==
  ASSUME AttemptsInv, NEW m \in Monitors, ~MoreAttempts(m), Final(m) = "down"
  PROVE  /\ Len(job[m].attempts) = job[m].budget + 1
         /\ \A k \in DOMAIN job[m].attempts : job[m].attempts[k] = "down"
  <1>1. job[m].attempts \in Seq(Probed) /\ job[m].budget \in Nat
    BY DEF AttemptsInv, TypeOK, JobType
  <1>2. job[m].attempts # <<>>
    BY <1>1 DEF MoreAttempts
  <1>3. Len(job[m].attempts) \in Nat \ {0} /\ DOMAIN job[m].attempts = 1..Len(job[m].attempts)
    BY <1>1, <1>2
  <1>4. job[m].attempts[Len(job[m].attempts)] = "down"
    BY DEF Final, Last
  <1>5. \A k \in DOMAIN job[m].attempts : job[m].attempts[k] = "down"
    BY <1>3, <1>4 DEF AttemptsInv, AttemptsOK
  <1> QED
    BY <1>1, <1>3, <1>5 DEF MoreAttempts, AttemptsInv, AttemptsOK

\* "Consecutive probe failures tolerated before flipping to DOWN": whatever
\* users edit meanwhile, a job stores DOWN only after as many failed probes
\* in a row as the row it loaded asked for, and one more.
THEOREM DownAfterRetries == Spec => DownOnlyAfterRetries
  <1>1. Init => AttemptsInv
    BY InitType, NoAttempts DEF Init, NotRunning, AttemptsInv
  <1>2. AttemptsInv /\ [Next]_vars =>
          [\A m \in Monitors :
             Record(m) /\ Recorded(m)' /\ Final(m) = "down" =>
               /\ Len(job[m].attempts) = job[m].budget + 1
               /\ \A k \in DOMAIN job[m].attempts : job[m].attempts[k] = "down"]_vars
    BY AllAttemptsFailed DEF Record
  <1> QED
    BY <1>1, <1>2, AttemptsNext, PTL DEF Spec, DownOnlyAfterRetries

-----------------------------------------------------------------------------
(* The scheduler implements the feed of verdicts.                          *)

\* A probing instance that started from UP or DOWN started from the newest
\* stored verdict, and nobody stores another one before it does.
PrevIsVerdict ==
    \A m \in Monitors :
       job[m].pc \in {"loaded", "probing"} /\ job[m].prev \in Probed =>
          lastResult[m] = job[m].prev \/ status[m] = "deleted"

FeedInv == VerdictInv /\ PrevIsVerdict

\* What the awaits of a job that are not the commit of its results leave of
\* the table of instances.
LEMMA AwaitEffect ==
  ASSUME TypeOK, NEW m \in Monitors, JobStep(m) \/ JobFails(m), ~Record(m)
  PROVE  /\ Others(m) /\ UNCHANGED <<status, lastResult>>
         /\ \/ StartJob(m) /\ job'[m].pc = "loaded" /\ job'[m].prev = status[m] /\ HasRow(m)
            \/ /\ job[m].pc \in {"loaded", "probing"} /\ job'[m].pc = "probing"
               /\ job'[m].prev = job[m].prev
            \/ /\ Recorded(m) /\ Recorded(m)'
               /\ job'[m].prev = job[m].prev /\ job'[m].attempts = job[m].attempts
            \/ job'[m].pc = "idle"
         /\ ~Alert(m) => UNCHANGED lastAlert
  <1>1. CASE StartJob(m)
    BY <1>1 DEF StartJob, Alert, TypeOK, Others, Schedule, dbVars
  <1>2. CASE Probe(m)
    BY <1>2, ProbeEffect DEF Probe, Alert, dbVars
  <1>3. CASE EnsureBacking(m)
    <2>1. UNCHANGED <<status, lastResult, lastAlert>>
      BY <1>3 DEF EnsureBacking
    <2> QED
      BY <1>3, <2>1, EnsureEffect DEF Recorded, SameLocals
  <1>4. CASE CheckMaintenance(m)
    <2>1. UNCHANGED <<status, lastResult, lastAlert>> /\ job[m].pc = "loaded"
      BY <1>4 DEF CheckMaintenance, dbVars
    <2> QED
      BY <1>4, <2>1, GotoEffect, ReturnEffect DEF CheckMaintenance, SameLocals
  <1>5. CASE EvaluateTriggers(m)
    <2>1. UNCHANGED <<status, lastResult, lastAlert>> /\ job[m].pc = "evaluate"
      BY <1>5 DEF EvaluateTriggers, dbVars
    <2> QED
      BY <1>5, <2>1, GotoEffect, ReturnEffect DEF BreakOff, EvaluateTriggers, Recorded, SameLocals
  <1>6. CASE Mirror(m)
    <2>1. UNCHANGED <<status, lastResult, lastAlert>> /\ job[m].pc = "mirror"
      BY <1>6 DEF Mirror, dbVars
    <2> QED
      BY <1>6, <2>1, GotoEffect, ReturnEffect DEF BreakOff, Mirror, Recorded, SameLocals
  <1>7. CASE Alert(m)
    BY <1>7, ReturnEffect DEF Alert, dbVars
  <1>8. CASE JobFails(m)
    BY <1>8, ReturnEffect DEF BreakOff, JobFails, dbVars
  <1> QED
    BY <1>1, <1>2, <1>3, <1>4, <1>5, <1>6, <1>7, <1>8 DEF JobStep

\* Requests change no instance; only a deletion touches the stored verdict,
\* and a row that was deleted stays so.
LEMMA RequestEffect ==
  ASSUME TypeOK, NEW m \in Monitors, Request(m)
  PROVE  /\ UNCHANGED <<job, lastAlert>>
         /\ \A n \in Monitors : status[n] = "deleted" => status'[n] = "deleted"
         /\ \/ UNCHANGED lastResult
            \/ status'[m] = "deleted" /\ lastResult' = [lastResult EXCEPT ![m] = Never]
  BY DEF TypeOK, Request, CreateMonitor, CreateMonitorForm, UpdateMonitor, DeleteMonitor,
         DeleteMonitorForm, WriteStatus, OpenForm, SubmitForm, DeleteHost, MaintenanceChanges, HasRow,
         NoRow, memVars, dbVars

\* The snapshot of a probing instance stays the newest stored verdict.
LEMMA PrevNext ==
  ASSUME FeedInv, [Next]_vars
  PROVE  PrevIsVerdict'
  <1>0. TypeOK /\ PrevIsVerdict /\ StatusIsLastVerdict
    BY DEF FeedInv, VerdictInv
  <1>1. ASSUME NEW m \in Monitors, Request(m) PROVE PrevIsVerdict'
    BY <1>0, <1>1, RequestEffect DEF PrevIsVerdict, TypeOK
  <1>2. ASSUME NEW m \in Monitors, Record(m) PROVE PrevIsVerdict'
    <2>1. Others(m) /\ job'[m].pc \in {"evaluate", "idle"}
      BY <1>0, <1>2, GotoEffect, ReturnEffect DEF Record
    <2>2. \A n \in Monitors \ {m} : status'[n] = status[n] /\ lastResult'[n] = lastResult[n]
      BY <1>0, <1>2 DEF Record, TypeOK
    <2> QED
      BY <1>0, <2>1, <2>2 DEF PrevIsVerdict, Others
  <1>3. ASSUME NEW m \in Monitors, JobStep(m) \/ JobFails(m), ~Record(m) PROVE PrevIsVerdict'
    BY <1>0, <1>3, AwaitEffect
       DEF PrevIsVerdict, StatusIsLastVerdict, Others, Recorded
  <1>4. CASE ReadMonitors \/ SyncJobs \/ UNCHANGED vars
    BY <1>0, <1>4 DEF ReadMonitors, SyncJobs, vars, dbVars, PrevIsVerdict
  <1>5. CASE Restart
    BY <1>5 DEF Restart, NotRunning, PrevIsVerdict
  <1> QED
    BY <1>1, <1>2, <1>3, <1>4, <1>5 DEF Next

\* News is told by the instance that stored it or not at all: an await keeps
\* what it has to tell or ends it.
LEMMA NewsOfAwait ==
  ASSUME TypeOK, NEW m \in Monitors, JobStep(m) \/ JobFails(m), ~Record(m)
  PROVE  News' = News \/ News' = [News EXCEPT ![m] = Never]
  <1>1. \A n \in Monitors \ {m} : News'[n] = News[n]
    BY AwaitEffect DEF Others, News, HasNews, Recorded, ShouldAlert, Final
  <1>2. News'[m] \in {News[m], Never}
    BY AwaitEffect DEF News, HasNews, Recorded, ShouldAlert, Final
  <1> QED
    BY <1>1, <1>2 DEF News

\* The commit of an instance's results stores a verdict, which is news if and
\* only if the instance will announce it.
LEMMA RecordStores ==
  ASSUME FeedInv, NEW m \in Monitors, Record(m), HasRow(m)
  PROVE  Final(m) \in Probed /\ Feed!Store(m, Final(m))
  <1>0. TypeOK /\ PrevIsVerdict /\ job[m].pc = "probing" /\ UNCHANGED lastAlert
    BY DEF FeedInv, VerdictInv, Record
  <1>1. Final(m) \in Probed
    <2>1. job[m].attempts # <<>>
      BY <1>0 DEF Record, MoreAttempts, TypeOK, JobType
    <2> QED
      BY <1>0, <2>1, FinalType
  <1>2. /\ Others(m) /\ job'[m].pc = "evaluate" /\ SameLocals(m)
        /\ lastResult' = [lastResult EXCEPT ![m] = Final(m)]
    BY <1>0, GotoEffect DEF Record
  <1>3. News[m] = Never /\ \A n \in Monitors \ {m} : News'[n] = News[n]
    BY <1>0, <1>2 DEF News, HasNews, Recorded, ShouldAlert, Final, Others
  <1>4. News'[m] = IF ShouldAlert(m) THEN Final(m) ELSE Never
    BY <1>2 DEF News, HasNews, Recorded, ShouldAlert, Final, SameLocals
  <1>5. ShouldAlert(m) => lastResult[m] \in Probed \ {Final(m)}
    BY <1>0 DEF ShouldAlert, PrevIsVerdict, HasRow, NoRow
  <1>6. News' = IF ShouldAlert(m) THEN [News EXCEPT ![m] = Final(m)] ELSE News
    BY <1>3, <1>4 DEF News
  <1> QED
    BY <1>0, <1>1, <1>2, <1>3, <1>5, <1>6 DEF Feed!Store, Feed!Never, Feed!Verdicts, Never, Probed

\* Every step of the scheduler is a step of the feed or leaves it alone.
LEMMA FeedStep ==
  ASSUME FeedInv, [Next]_vars
  PROVE  [Feed!Next]_(Feed!vars)
  <1>0. TypeOK
    BY DEF FeedInv, VerdictInv
  <1> USE DEF Feed!vars
  <1>1. ASSUME NEW m \in Monitors, Request(m)
        PROVE  Feed!Forget(m) \/ UNCHANGED Feed!vars
    <2>1. UNCHANGED <<News, lastAlert>>
      BY <1>0, <1>1, RequestEffect DEF News, HasNews, Recorded, ShouldAlert, Final
    <2> QED
      BY <1>0, <1>1, <2>1, RequestEffect DEF Feed!Forget, Feed!Never, Never
  <1>2. ASSUME NEW m \in Monitors, Record(m), ~HasRow(m)
        PROVE  UNCHANGED Feed!vars
    <2>1. /\ Others(m) /\ job[m].pc = "probing" /\ job'[m].pc = "idle"
          /\ UNCHANGED <<lastResult, lastAlert>>
      BY <1>0, <1>2, ReturnEffect DEF Record
    <2>2. UNCHANGED News
      BY <2>1 DEF News, HasNews, Recorded, ShouldAlert, Final, Others
    <2> QED
      BY <2>1, <2>2
  <1>3. ASSUME NEW m \in Monitors, Alert(m), ShouldAlert(m)
        PROVE  Feed!Tell(m)
    <2>1. /\ Others(m) /\ job[m].pc = "alert" /\ job'[m].pc = "idle" /\ Final(m) \in Probed
          /\ lastAlert' = [lastAlert EXCEPT ![m] = Final(m)] /\ UNCHANGED lastResult
      BY <1>0, <1>3, ReturnEffect, FinalType DEF Alert, dbVars, TypeOK, Recorded
    <2>2. News[m] = Final(m) /\ News[m] # Never
      BY <1>3, <2>1 DEF News, HasNews, Recorded, Probed, Never
    <2>3. News' = [News EXCEPT ![m] = Never]
      BY <2>1 DEF News, HasNews, Recorded, ShouldAlert, Final, Others
    <2> QED
      BY <2>1, <2>2, <2>3 DEF Feed!Tell, Feed!Never, Never
  <1>4. ASSUME NEW m \in Monitors, JobStep(m) \/ JobFails(m), ~Record(m),
               ~(Alert(m) /\ ShouldAlert(m))
        PROVE  Feed!Drop({m}) \/ UNCHANGED Feed!vars
    <2>1. UNCHANGED <<lastResult, lastAlert>>
      BY <1>0, <1>4, AwaitEffect DEF Alert
    <2>2. [News EXCEPT ![m] = Never] = [n \in Monitors |-> IF n \in {m} THEN Never ELSE News[n]]
      BY DEF News
    <2> QED
      BY <1>0, <1>4, <2>1, <2>2, NewsOfAwait DEF Feed!Drop, Feed!Never, Never
  <1>5. CASE ReadMonitors \/ SyncJobs \/ UNCHANGED vars
    BY <1>5 DEF ReadMonitors, SyncJobs, vars, dbVars, News, HasNews, Recorded, ShouldAlert, Final
  <1>6. CASE Restart
    <2>1. UNCHANGED <<lastResult, lastAlert>> /\ News' = [m \in Monitors |-> Never]
      BY <1>6 DEF Restart, NotRunning, dbVars, News, HasNews, Recorded
    <2>2. Feed!Drop(Monitors)
      BY <2>1 DEF Feed!Drop, Feed!Never, Never
    <2> QED
      BY <2>2 DEF Feed!Next
  <1>7. ASSUME NEW m \in Monitors, Record(m)
        PROVE  Feed!Next \/ UNCHANGED Feed!vars
    <2>1. CASE HasRow(m)
      BY <1>7, <2>1, RecordStores DEF Feed!Next, Feed!Verdicts, Probed
    <2> QED
      BY <1>2, <1>7, <2>1
  <1>8. ASSUME NEW m \in Monitors, JobStep(m) \/ JobFails(m)
        PROVE  Feed!Next \/ UNCHANGED Feed!vars
    <2>1. {m} \in SUBSET Monitors
      OBVIOUS
    <2> QED
      BY <1>3, <1>4, <1>7, <1>8, <2>1 DEF Feed!Next
  <1> QED
    BY <1>1, <1>5, <1>6, <1>8 DEF Next, Feed!Next

\* As long as users write neither UP nor DOWN by hand, the scheduler with all
\* its awaits, requests, failures and restarts implements the feed: an alert
\* tells a stored change of the verdict, once, before the next verdict.
THEOREM FeedRefinement ==
  ASSUME StatusEdits \cap Probed = {}, "staleform" \notin Faults
  PROVE  Spec => FeedSpec
  <1> DEFINE NoForm == \A n \in Monitors : form[n] = Closed
  <1>1. Init => FeedInv
    BY VerdictInit DEF Init, NotRunning, FeedInv, PrevIsVerdict
  <1>2. FeedInv /\ NoForm /\ [Next]_vars => FeedInv'
    BY VerdictNext, PrevNext DEF FeedInv
  <1>3. Init => Feed!Init
    BY DEF Init, NotRunning, Feed!Init, Feed!Never, Never, News, HasNews, Recorded
  <1>4. FeedInv /\ [Next]_vars => [Feed!Next]_(Feed!vars)
    BY FeedStep
  <1> QED
    BY <1>1, <1>2, <1>3, <1>4, NoForms, PTL DEF Spec, FeedSpec, Feed!Spec

\* The feed only ever announces its newest verdict.
LEMMA FeedNewest == FeedSpec => []Feed!NewsIsNewest
  <1> DEFINE Typed == lastResult \in [Monitors -> {"up", "down", "never"}]
                      /\ News \in [Monitors -> {"up", "down", "never"}]
  <1> USE DEF Feed!NewsIsNewest, Feed!Never, Feed!Verdicts
  <1>1. Feed!Init => Typed /\ Feed!NewsIsNewest
    BY DEF Feed!Init
  <1>2. Typed /\ Feed!NewsIsNewest /\ [Feed!Next]_(Feed!vars) => (Typed /\ Feed!NewsIsNewest)'
    <2> SUFFICES ASSUME Typed, Feed!NewsIsNewest, [Feed!Next]_(Feed!vars)
                 PROVE  (Typed /\ Feed!NewsIsNewest)'
      OBVIOUS
    <2>1. ASSUME NEW m \in Monitors, NEW v \in {"up", "down"}, Feed!Store(m, v)
          PROVE  (Typed /\ Feed!NewsIsNewest)'
      BY <2>1 DEF Feed!Store
    <2>2. ASSUME NEW m \in Monitors, Feed!Tell(m) \/ Feed!Forget(m)
          PROVE  (Typed /\ Feed!NewsIsNewest)'
      BY <2>2 DEF Feed!Tell, Feed!Forget
    <2>3. ASSUME NEW S \in SUBSET Monitors, Feed!Drop(S)
          PROVE  (Typed /\ Feed!NewsIsNewest)'
      BY <2>3 DEF Feed!Drop
    <2>4. CASE UNCHANGED Feed!vars
      BY <2>4 DEF Feed!vars
    <2> QED
      BY <2>1, <2>2, <2>3, <2>4 DEF Feed!Next
  <1> QED
    BY <1>1, <1>2, PTL DEF FeedSpec, Feed!Spec

\* Whatever fails in between, the alert a job is about to send names the
\* newest stored result of the monitor, unless the monitor was deleted.
THEOREM AlertsTellNewest ==
  ASSUME StatusEdits \cap Probed = {}, "staleform" \notin Faults
  PROVE  Spec => [](\A m \in Monitors : Recorded(m) /\ ShouldAlert(m) =>
                       lastResult[m] \in {Final(m), Never})
  <1> DEFINE Newest == \A m \in Monitors : Recorded(m) /\ ShouldAlert(m) =>
                          lastResult[m] \in {Final(m), Never}
  <1>1. TypeOK /\ Feed!NewsIsNewest => Newest
    <2> SUFFICES ASSUME TypeOK, Feed!NewsIsNewest, NEW m \in Monitors, Recorded(m), ShouldAlert(m)
                 PROVE  lastResult[m] \in {Final(m), Never}
      OBVIOUS
    <2>1. News[m] = Final(m) /\ Final(m) \in Probed
      BY FinalType DEF News, HasNews, TypeOK
    <2> QED
      BY <2>1 DEF Feed!NewsIsNewest, Feed!Never, Never, Probed
  <1> QED
    BY <1>1, FeedRefinement, FeedNewest, TypeCorrect, PTL
=============================================================================
