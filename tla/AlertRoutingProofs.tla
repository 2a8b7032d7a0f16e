------------------------- MODULE AlertRoutingProofs -------------------------
(***************************************************************************)
(* Theorems about AlertRouting for every set of monitors, hosts, channels, *)
(* windows and alerts, and any number of requests.                         *)
(***************************************************************************)
EXTENDS AlertRouting, TLAPS

USE WindowsAssumption, RoutingAssumption

-----------------------------------------------------------------------------
(* Type correctness.                                                       *)

\* An alert that has not been handed over is well typed.
LEMMA NoTaskType == NoTask \in TaskType
  BY DEF NoTask, TaskType

\* The requests on windows keep the rows and the associations typed.
LEMMA EditWindowsType ==
  ASSUME WindowsTypeOK, EditWindows
  PROVE  WindowsTypeOK'
  <1> USE DEF WindowsTypeOK
  <1>1. ASSUME NEW w \in Windows, NEW f \in Forms, MaintenanceCreate(w, f)
        PROVE  WindowsTypeOK'
    BY <1>1 DEF MaintenanceCreate
  <1>2. ASSUME NEW w \in Windows, NEW f \in Forms, MaintenanceUpdate(w, f)
        PROVE  WindowsTypeOK'
    BY <1>2 DEF MaintenanceUpdate
  <1>3. ASSUME NEW w \in Windows, MaintenanceDelete(w)
        PROVE  WindowsTypeOK'
    <2>1. ASSUME NEW c \in covers' PROVE c \in (DOMAIN window') \X Monitors
      <3>1. c \in covers /\ c[1] # w /\ DOMAIN window' = DOMAIN window \ {w}
        BY <1>3 DEF MaintenanceDelete
      <3>2. c \in (DOMAIN window) \X Monitors
        BY <3>1
      <3> QED
        BY <3>1, <3>2
    <2> QED
      BY <1>3, <2>1 DEF MaintenanceDelete
  <1>4. ASSUME NEW w \in Windows, NEW m \in Monitors,
               AttachMonitor(w, m) \/ DetachMonitor(w, m)
        PROVE  WindowsTypeOK'
    BY <1>4 DEF AttachMonitor, DetachMonitor
  <1> QED
    BY <1>1, <1>2, <1>3, <1>4
    DEF EditWindows, CreateMaintenance, CreateMaintenanceForm, UpdateMaintenance,
        UpdateMaintenanceForm, DeleteMaintenance, DeleteMaintenanceForm,
        AttachMonitorForm, DetachMonitorForm

\* The windows, as the rest of the module sees them.
WindowsKept == UNCHANGED <<clock, window, covers>>

LEMMA WindowsNext ==
  ASSUME WindowsTypeOK, [Next]_vars
  PROVE  WindowsTypeOK'
  <1>1. CASE WindowsKept
    BY <1>1 DEF WindowsKept, WindowsTypeOK
  <1>2. CASE EditMaintenance
    BY <1>2, EditWindowsType DEF EditMaintenance
  <1>3. CASE TimePasses
    BY <1>3 DEF TimePasses, Tick, WindowsTypeOK, Time
  <1>4. CASE EditRouting
    <2>1. covers' \subseteq covers
      BY <1>4 DEF EditRouting, ChangeChannels, ChangeLinks, CreateChannel, CreateChannelForm,
         UpdateChannel, UpdateChannelForm, DeleteChannel, DeleteChannelForm, AttachChannel,
         AttachChannelForm, DetachChannel, DetachChannelForm, AttachHostChannel,
         DetachHostChannel, Attach, Detach, DeleteSubject
    <2> QED
      BY <1>4, <2>1 DEF EditRouting, WindowsTypeOK
  <1> QED
    BY <1>1, <1>2, <1>3, <1>4
    DEF Next, vars, WindowsKept, TaskStep, Route, RouteFails, Deliver, Finish, Restart,
        SameTables, StartJob, EndJob, AlertMonitor, AlertHost, Escalate, TestChannel,
        TestChannelForm

\* What the tables must satisfy, besides the windows.
TablesOK ==
    /\ DOMAIN channel \subseteq Channels
    /\ \A c \in DOMAIN channel : channel[c] \in ChannelType
    /\ deleted \subseteq Subjects
    /\ links \subseteq (Subjects \ deleted) \X (DOMAIN channel)
    /\ covers \subseteq Windows \X (Monitors \ deleted)

\* Severity 0 is one of the severities, so the forms store good channels.
LEMMA ChannelChangeType ==
  ASSUME TablesOK, ChangeChannels
  PROVE  TablesOK'
  <1> USE DEF TablesOK, ChannelType
  <1>1. ASSUME NEW c \in Channels, NEW e \in BOOLEAN, NEW min \in Severities,
               CreateChannel(c, e, min)
        PROVE  TablesOK'
    BY <1>1 DEF CreateChannel
  <1>2. ASSUME NEW c \in Channels, NEW e \in BOOLEAN, NEW min \in Severities,
               UpdateChannel(c, e, min)
        PROVE  TablesOK'
    BY <1>2 DEF UpdateChannel
  <1>3. ASSUME NEW c \in Channels, DeleteChannel(c)
        PROVE  TablesOK'
    <2>1. ASSUME NEW l \in links' PROVE l \in (Subjects \ deleted') \X (DOMAIN channel')
      <3>1. l \in links /\ l[2] # c /\ DOMAIN channel' = DOMAIN channel \ {c} /\ deleted' = deleted
        BY <1>3 DEF DeleteChannel
      <3>2. l \in (Subjects \ deleted) \X (DOMAIN channel)
        BY <3>1
      <3> QED
        BY <3>1, <3>2
    <2> QED
      BY <1>3, <2>1 DEF DeleteChannel
  <1>4. ASSUME NEW c \in Channels, NEW e \in BOOLEAN, UpdateChannelForm(c, e)
        PROVE  TablesOK'
    <2>1. channel[c].min_severity \in Severities
      BY <1>4 DEF UpdateChannelForm
    <2> QED
      BY <1>2, <1>4, <2>1 DEF UpdateChannelForm
  <1> QED
    BY <1>1, <1>2, <1>3, <1>4
    DEF ChangeChannels, CreateChannelForm, DeleteChannelForm

LEMMA LinkChangeType ==
  ASSUME TablesOK, ChangeLinks
  PROVE  TablesOK'
  <1>1. ASSUME NEW s \in Subjects, NEW c \in Channels, Attach(s, c) \/ Detach(s, c)
        PROVE  TablesOK'
    BY <1>1 DEF Attach, Detach, TablesOK
  <1> QED
    BY <1>1 DEF ChangeLinks, AttachChannel, AttachChannelForm, DetachChannel,
       DetachChannelForm, AttachHostChannel, DetachHostChannel, Subjects

LEMMA DeleteSubjectType ==
  ASSUME TablesOK, NEW s \in Subjects, DeleteSubject(s)
  PROVE  TablesOK'
  <1>1. ASSUME NEW l \in links' PROVE l \in (Subjects \ deleted') \X (DOMAIN channel')
    <2>1. l \in links /\ l[1] # s
      BY DEF DeleteSubject
    <2>2. l \in (Subjects \ deleted) \X (DOMAIN channel)
      BY <2>1 DEF TablesOK
    <2> QED
      BY <2>1, <2>2 DEF DeleteSubject
  <1>2. ASSUME NEW c \in covers' PROVE c \in Windows \X (Monitors \ deleted')
    <2>1. c \in covers /\ c[2] # s
      BY DEF DeleteSubject
    <2>2. c \in Windows \X (Monitors \ deleted)
      BY <2>1 DEF TablesOK
    <2> QED
      BY <2>1, <2>2 DEF DeleteSubject
  <1> QED
    BY <1>1, <1>2 DEF DeleteSubject, TablesOK

\* The history keeps its type when the owner has changed the tables.
LEMMA RequalifyType ==
  ASSUME task \in [Alerts -> TaskType], DOMAIN channel' \subseteq Channels, Requalify
  PROVE  task' \in [Alerts -> TaskType]
  <1>1. ASSUME NEW a \in Alerts PROVE task'[a] \in TaskType
    <2> DEFINE Q == Qualified(task[a].subject, task[a].severity, channel', links')
    <2>1. Q \subseteq Channels
      BY DEF Qualified
    <2>2. task[a] \in TaskType
      OBVIOUS
    <2>3. task'[a] = IF Waiting(a) /\ task[a].subject # NoSubject
                     THEN [task[a] EXCEPT !.steady = @ \cap Q, !.ever = @ \cup Q]
                     ELSE task[a]
      BY DEF Requalify
    <2> HIDE DEF Q
    <2>4. [task[a] EXCEPT !.steady = @ \cap Q, !.ever = @ \cup Q] \in TaskType
      BY <2>1, <2>2 DEF TaskType
    <2> QED
      BY <2>2, <2>3, <2>4
  <1> QED
    BY <1>1 DEF Requalify

\* Handing an alert over, to the channels that qualify or to a given one.
LEMMA DispatchType ==
  ASSUME TypeOK, NEW s \in Subjects, NEW sev \in Severities, ScheduleDispatch(s, sev)
  PROVE  task' \in [Alerts -> TaskType]
  <1>0. DOMAIN channel \subseteq Channels /\ task \in [Alerts -> TaskType]
    BY DEF TypeOK
  <1> DEFINE Q == Qualified(s, sev, channel, links)
             t == [NoTask EXCEPT !.pc = "route", !.subject = s, !.severity = sev,
                                 !.steady = Q, !.ever = Q]
  <1>1. Q \subseteq Channels
    BY <1>0 DEF Qualified
  <1>2. PICK a \in Alerts : task' = [task EXCEPT ![a] = t]
    BY DEF ScheduleDispatch
  <1> HIDE DEF Q
  <1>3. t \in TaskType
    BY <1>1 DEF NoTask, TaskType
  <1> QED
    BY <1>0, <1>2, <1>3

LEMMA EscalationType ==
  ASSUME TypeOK, NEW c \in Channels, ScheduleEscalation(c)
  PROVE  task' \in [Alerts -> TaskType]
  <1>0. task \in [Alerts -> TaskType]
    BY DEF TypeOK
  <1>1. [NoTask EXCEPT !.pc = "deliver", !.todo = {c}, !.steady = {c}, !.ever = {c}] \in TaskType
    BY DEF NoTask, TaskType
  <1> QED
    BY <1>0, <1>1 DEF ScheduleEscalation

\* The steps of the alerts.
LEMMA TaskStepType ==
  ASSUME TypeOK, NEW a \in Alerts, TaskStep(a) \/ RouteFails(a)
  PROVE  task' \in [Alerts -> TaskType]
  <1>0. DOMAIN channel \subseteq Channels /\ task \in [Alerts -> TaskType] /\ task[a] \in TaskType
    BY DEF TypeOK
  <1>1. CASE Route(a)
    <2>1. Eligible(task[a]) \subseteq Channels
      BY <1>0 DEF Eligible
    <2>2. \A Q \in SUBSET Channels :
             [[task[a] EXCEPT !.pc = "deliver"] EXCEPT !.todo = Q] \in TaskType
      BY <1>0 DEF TaskType
    <2>3. task' = [task EXCEPT ![a] =
                     [[task[a] EXCEPT !.pc = "deliver"] EXCEPT !.todo = Eligible(task[a])]]
      BY <1>0, <1>1 DEF Route
    <2> QED
      BY <1>0, <2>1, <2>2, <2>3
  <1>2. CASE RouteFails(a)
    BY <1>0, <1>2 DEF RouteFails, TaskType
  <1>3. ASSUME NEW c \in Channels, Deliver(a, c) PROVE task' \in [Alerts -> TaskType]
    BY <1>0, <1>3 DEF Deliver, TaskType
  <1>4. CASE Finish(a)
    BY <1>0, <1>4 DEF Finish, TaskType
  <1> QED
    BY <1>1, <1>2, <1>3, <1>4 DEF TaskStep

LEMMA InitType == Init => TypeOK
  <1> SUFFICES ASSUME Init PROVE TypeOK
    OBVIOUS
  <1>1. WindowsTypeOK
    BY DEF Init, WindowsTypeOK, Time
  <1>2. covers \subseteq Windows \X Monitors
    BY <1>1 DEF WindowsTypeOK
  <1>3. /\ DOMAIN channel \subseteq Channels
        /\ \A c \in DOMAIN channel : channel[c] \in ChannelType
        /\ links \subseteq Subjects \X (DOMAIN channel)
    BY DEF Init, ChannelType
  <1> QED
    BY <1>1, <1>2, <1>3, NoTaskType DEF Init, TypeOK

LEMMA NextType == TypeOK /\ [Next]_vars => TypeOK'
  <1> SUFFICES ASSUME TypeOK, [Next]_vars PROVE TypeOK'
    OBVIOUS
  <1>0. WindowsTypeOK /\ WindowsTypeOK'
    BY WindowsNext DEF TypeOK
  <1>1. ASSUME SameTables, task' \in [Alerts -> TaskType],
               job' \in [Monitors -> {"idle", "probing", "held"}]
        PROVE  TypeOK'
    BY <1>0, <1>1 DEF SameTables, TypeOK
  <1>2. ASSUME NEW a \in Alerts, TaskStep(a) \/ RouteFails(a) PROVE TypeOK'
    <2>1. SameTables /\ UNCHANGED job
      BY <1>2 DEF TaskStep, Route, RouteFails, Deliver, Finish
    <2> QED
      BY <1>1, <1>2, <2>1, TaskStepType DEF TypeOK
  <1>3. ASSUME NEW m \in Monitors, StartJob(m) \/ EndJob(m) PROVE TypeOK'
    BY <1>1, <1>3 DEF StartJob, EndJob, TypeOK
  <1>4. ASSUME NEW m \in Monitors, AlertMonitor(m) PROVE TypeOK'
    <2>1. PICK sev \in Severities : ScheduleDispatch(m, sev)
      BY <1>4 DEF AlertMonitor
    <2> QED
      BY <1>1, <1>4, <2>1, DispatchType DEF AlertMonitor, TypeOK, Subjects
  <1>5. ASSUME NEW h \in Hosts, AlertHost(h) PROVE TypeOK'
    <2>1. PICK sev \in Severities : ScheduleDispatch(h, sev)
      BY <1>5 DEF AlertHost
    <2> QED
      BY <1>1, <1>5, <2>1, DispatchType DEF AlertHost, TypeOK, Subjects
  <1>6. ASSUME NEW c \in Channels, Escalate(c) \/ TestChannel(c) PROVE TypeOK'
    BY <1>1, <1>6, EscalationType DEF Escalate, TestChannel, TypeOK
  <1>7. CASE EditRouting
    <2>1. TablesOK /\ task \in [Alerts -> TaskType]
      BY DEF TypeOK, TablesOK
    <2>2. TablesOK'
      BY <1>7, <2>1, ChannelChangeType, LinkChangeType, DeleteSubjectType DEF EditRouting
    <2>3. task' \in [Alerts -> TaskType]
      BY <1>7, <2>1, <2>2, RequalifyType DEF EditRouting, TablesOK
    <2>4. edits' \in 0 .. MaxEdits /\ UNCHANGED job
      BY <1>7 DEF EditRouting, TypeOK
    <2> QED
      BY <1>0, <2>2, <2>3, <2>4 DEF TypeOK, TablesOK
  <1>8. CASE EditMaintenance
    <2>1. ASSUME NEW c \in covers' PROVE c \in Windows \X (Monitors \ deleted')
      <3>1. c \in Windows \X Monitors
        BY <1>0 DEF WindowsTypeOK
      <3>2. c \notin Windows \X deleted
        BY <1>8 DEF EditMaintenance
      <3> QED
        BY <1>8, <3>1, <3>2 DEF EditMaintenance
    <2> QED
      BY <1>0, <1>8, <2>1 DEF EditMaintenance, TypeOK
  <1>9. CASE TimePasses
    BY <1>0, <1>9 DEF TimePasses, Tick, TypeOK
  <1>10. CASE Restart
    <2>1. \A a \in Alerts : [task[a] EXCEPT !.pc = "lost"] \in TaskType /\ task[a] \in TaskType
      BY DEF TypeOK, TaskType
    <2>2. task' \in [Alerts -> TaskType]
      BY <1>10, <2>1 DEF Restart
    <2> QED
      BY <1>1, <1>10, <2>2 DEF Restart
  <1>11. CASE UNCHANGED vars
    BY <1>0, <1>11 DEF vars, TypeOK
  <1> QED
    BY <1>2, <1>3, <1>4, <1>5, <1>6, <1>7, <1>8, <1>9, <1>10, <1>11 DEF Next, TestChannelForm

\* The rows, the associations, the jobs and the alerts keep their types: no link
\* outlives the monitor, the host, the window or the channel it joins.
THEOREM TypeCorrect == Spec => []TypeOK
  BY InitType, NextType, PTL DEF Spec

-----------------------------------------------------------------------------
(* Delivery implements AlertDelivery.                                      *)

\* What the task of an alert relies on.  Until its SELECT the channels it will
\* find are the ones that qualify; then nobody who qualified all the time is
\* missing from its list, and nobody on it has been tried.
Good(t) ==
    /\ t.steady \subseteq t.ever
    /\ t.pc = "none" => t = NoTask
    /\ t.pc = "route" => /\ t.subject # NoSubject /\ t.tried = {}
                         /\ t.steady \subseteq Eligible(t)
                         /\ Eligible(t) \subseteq t.ever
    /\ t.pc = "deliver" => /\ t.steady \subseteq t.todo \cup t.tried
                           /\ t.todo \subseteq t.ever
                           /\ t.todo \cap t.tried = {}

DeliveryInv == \A a \in Alerts : Good(task[a])

LEMMA EligibleIsQualified ==
  ASSUME NEW t
  PROVE  Eligible(t) = Qualified(t.subject, t.severity, channel, links)
  BY DEF Eligible, Qualified

LEMMA DeliveryInit == Init => DeliveryInv
  BY DEF Init, DeliveryInv, Good, NoTask

\* A step that leaves the routing tables alone keeps the alerts it does not
\* change good.
LEMMA OthersStayGood ==
  ASSUME DeliveryInv, UNCHANGED <<channel, links>>,
         \A a \in Alerts : task'[a] = task[a] \/ Good(task'[a])
  PROVE  DeliveryInv'
  BY DEF DeliveryInv, Good, Eligible

LEMMA DispatchGood ==
  ASSUME TypeOK, DeliveryInv, NEW s \in Subjects, NEW sev \in Severities,
         ScheduleDispatch(s, sev), UNCHANGED <<channel, links>>
  PROVE  DeliveryInv'
  <1> DEFINE Q == Qualified(s, sev, channel, links)
             t == [NoTask EXCEPT !.pc = "route", !.subject = s, !.severity = sev,
                                 !.steady = Q, !.ever = Q]
  <1>1. PICK a \in Alerts : task' = [task EXCEPT ![a] = t]
    BY DEF ScheduleDispatch
  <1>2. /\ t.pc = "route" /\ t.subject = s /\ t.severity = sev /\ t.tried = {}
        /\ t.steady = Q /\ t.ever = Q
    BY DEF NoTask
  <1>3. Eligible(t) = Q
    BY <1>2, EligibleIsQualified
  <1>4. s # NoSubject
    BY DEF Subjects
  <1> HIDE DEF Q, t
  <1>5. Good(t)
    BY <1>2, <1>3, <1>4 DEF Good
  <1> QED
    BY <1>1, <1>5, OthersStayGood DEF TypeOK

LEMMA EscalationGood ==
  ASSUME TypeOK, DeliveryInv, NEW c \in Channels, ScheduleEscalation(c),
         UNCHANGED <<channel, links>>
  PROVE  DeliveryInv'
  <1>1. Good([NoTask EXCEPT !.pc = "deliver", !.todo = {c}, !.steady = {c}, !.ever = {c}])
    BY DEF NoTask, Good
  <1> QED
    BY <1>1, OthersStayGood DEF TypeOK, ScheduleEscalation

LEMMA TaskStepGood ==
  ASSUME TypeOK, DeliveryInv, NEW a \in Alerts, TaskStep(a) \/ RouteFails(a)
  PROVE  DeliveryInv'
  <1>0. /\ Good(task[a]) /\ task[a] \in TaskType /\ task \in [Alerts -> TaskType]
        /\ UNCHANGED <<channel, links>>
    BY DEF DeliveryInv, TypeOK, TaskStep, Route, RouteFails, Deliver, Finish, SameTables
  <1>1. CASE Route(a)
    <2> DEFINE E == Eligible(task[a])
    <2>1. task'[a] = [task[a] EXCEPT !.pc = "deliver", !.todo = E]
      BY <1>0, <1>1 DEF Route
    <2>2. task[a].steady \subseteq E /\ E \subseteq task[a].ever /\ task[a].tried = {}
      BY <1>0, <1>1 DEF Route, Good
    <2> HIDE DEF E
    <2>3. Good(task'[a])
      BY <1>0, <2>1, <2>2 DEF Good, TaskType
    <2> QED
      BY <1>0, <1>1, <2>3, OthersStayGood DEF Route
  <1>2. CASE RouteFails(a)
    <2>1. Good(task'[a])
      BY <1>0, <1>2 DEF RouteFails, Good, TaskType
    <2> QED
      BY <1>0, <1>2, <2>1, OthersStayGood DEF RouteFails
  <1>3. ASSUME NEW c \in Channels, Deliver(a, c) PROVE DeliveryInv'
    <2>1. Good(task'[a])
      BY <1>0, <1>3 DEF Deliver, Good, TaskType
    <2> QED
      BY <1>0, <1>3, <2>1, OthersStayGood DEF Deliver
  <1>4. CASE Finish(a)
    <2>1. Good(task'[a])
      BY <1>0, <1>4 DEF Finish, Good, TaskType
    <2> QED
      BY <1>0, <1>4, <2>1, OthersStayGood DEF Finish
  <1> QED
    BY <1>1, <1>2, <1>3, <1>4 DEF TaskStep

\* A change of the tables is taken over into the history of the alerts.
LEMMA EditRoutingGood ==
  ASSUME TypeOK, DeliveryInv, Requalify
  PROVE  DeliveryInv'
  <1> SUFFICES ASSUME NEW a \in Alerts PROVE Good(task[a])'
    BY DEF DeliveryInv
  <1> DEFINE t == task[a]
             Q == Qualified(t.subject, t.severity, channel', links')
  <1>1. Good(t) /\ t \in TaskType
    BY DEF DeliveryInv, TypeOK
  <1>2. task'[a] = IF Waiting(a) /\ t.subject # NoSubject
                   THEN [t EXCEPT !.steady = @ \cap Q, !.ever = @ \cup Q] ELSE t
    BY DEF Requalify
  <1>3. Eligible(task[a])' = Qualified(task'[a].subject, task'[a].severity, channel', links')
    BY DEF Eligible, Qualified
  <1>4. task'[a].subject = t.subject /\ task'[a].severity = t.severity
    BY <1>1, <1>2 DEF TaskType
  <1>5. Eligible(task[a])' = Q
    BY <1>3, <1>4
  <1>6. Waiting(a) <=> t.pc \in {"route", "deliver"}
    BY DEF Waiting
  <1>7. CASE Waiting(a) /\ t.subject # NoSubject
    <2> HIDE DEF Q
    <2>1. /\ task'[a].pc = t.pc /\ task'[a].tried = t.tried /\ task'[a].todo = t.todo
          /\ task'[a].steady = t.steady \cap Q /\ task'[a].ever = t.ever \cup Q
      BY <1>1, <1>2, <1>7 DEF TaskType
    <2> HIDE DEF t
    <2> QED
      BY <1>1, <1>4, <1>5, <1>6, <1>7, <2>1 DEF Good
  <1>8. CASE ~(Waiting(a) /\ t.subject # NoSubject)
    <2>1. task'[a] = t
      BY <1>2, <1>8
    <2>2. t.pc # "route"
      BY <1>1, <1>6, <1>8 DEF Good
    <2> HIDE DEF t, Q
    <2> QED
      BY <1>1, <2>1, <2>2 DEF Good
  <1> QED
    BY <1>7, <1>8

LEMMA DeliveryNext == TypeOK /\ DeliveryInv /\ [Next]_vars => DeliveryInv'
  <1> SUFFICES ASSUME TypeOK, DeliveryInv, [Next]_vars PROVE DeliveryInv'
    OBVIOUS
  <1>1. ASSUME UNCHANGED <<channel, links, task>> PROVE DeliveryInv'
    BY <1>1, OthersStayGood
  <1>2. ASSUME NEW a \in Alerts, TaskStep(a) \/ RouteFails(a) PROVE DeliveryInv'
    BY <1>2, TaskStepGood
  <1>3. ASSUME NEW m \in Monitors, AlertMonitor(m) PROVE DeliveryInv'
    BY <1>3, DispatchGood DEF AlertMonitor, SameTables, Subjects
  <1>4. ASSUME NEW h \in Hosts, AlertHost(h) PROVE DeliveryInv'
    BY <1>4, DispatchGood DEF AlertHost, SameTables, Subjects
  <1>5. ASSUME NEW c \in Channels, Escalate(c) \/ TestChannel(c) PROVE DeliveryInv'
    BY <1>5, EscalationGood DEF Escalate, TestChannel, SameTables
  <1>6. CASE EditRouting
    BY <1>6, EditRoutingGood DEF EditRouting
  <1>7. CASE Restart
    <2>1. ASSUME NEW a \in Alerts PROVE task'[a] = task[a] \/ Good(task'[a])
      <3>1. Good(task[a]) /\ task[a] \in TaskType
        BY DEF DeliveryInv, TypeOK
      <3>2. Good([task[a] EXCEPT !.pc = "lost"])
        BY <3>1 DEF Good, TaskType
      <3> QED
        BY <1>7, <3>2 DEF Restart
    <2> QED
      BY <1>7, <2>1, OthersStayGood DEF Restart, SameTables
  <1>8. ASSUME NEW m \in Monitors, StartJob(m) \/ EndJob(m) PROVE DeliveryInv'
    BY <1>1, <1>8 DEF StartJob, EndJob, SameTables
  <1> QED
    BY <1>1, <1>2, <1>3, <1>4, <1>5, <1>6, <1>7, <1>8
    DEF Next, TestChannelForm, EditMaintenance, TimePasses, vars

\* The steps of an alert are steps of AlertDelivery.
LEMMA TaskStepMaps ==
  ASSUME TypeOK, DeliveryInv, NEW a \in Alerts, TaskStep(a) \/ RouteFails(a)
  PROVE  Delivery!Next \/ UNCHANGED Delivery!vars
  <1>0. Good(task[a]) /\ task[a] \in TaskType /\ task \in [Alerts -> TaskType]
    BY DEF DeliveryInv, TypeOK
  <1>1. CASE Route(a)
    <2>1. \A b \in Alerts : /\ Phase(b)' = Phase(b) /\ task'[b].tried = task[b].tried
                            /\ task'[b].steady = task[b].steady /\ task'[b].ever = task[b].ever
      BY <1>0, <1>1 DEF Route, Phase, Waiting, TaskType
    <2> QED
      BY <2>1 DEF Delivery!vars
  <1>2. CASE RouteFails(a)
    <2>1. \A b \in Alerts : /\ Phase(b)' = IF b = a THEN "lost" ELSE Phase(b)
                            /\ task'[b].tried = task[b].tried
                            /\ task'[b].steady = task[b].steady /\ task'[b].ever = task[b].ever
      BY <1>0, <1>2 DEF RouteFails, Phase, Waiting, TaskType
    <2>2. Phase(a) = "open"
      BY <1>2 DEF RouteFails, Phase, Waiting
    <2>3. {a} \in SUBSET {b \in Alerts : [c \in Alerts |-> Phase(c)][b] = "open"}
      BY <2>2
    <2>4. [b \in Alerts |-> Phase(b)]'
            = [b \in Alerts |-> IF b \in {a} THEN "lost" ELSE [c \in Alerts |-> Phase(c)][b]]
      BY <2>1
    <2>5. Delivery!Lose
      BY <2>1, <2>3, <2>4 DEF Delivery!Lose
    <2> QED
      BY <2>5 DEF Delivery!Next
  <1>3. ASSUME NEW c \in Channels, Deliver(a, c)
        PROVE  Delivery!Next
    <2>1. \A b \in Alerts :
             /\ Phase(b)' = Phase(b)
             /\ task'[b].tried = IF b = a THEN task[a].tried \cup {c} ELSE task[b].tried
             /\ task'[b].steady = task[b].steady /\ task'[b].ever = task[b].ever
      BY <1>0, <1>3 DEF Deliver, Phase, Waiting, TaskType
    <2>2. Phase(a) = "open" /\ c \in task[a].ever \ task[a].tried
      BY <1>0, <1>3 DEF Deliver, Phase, Waiting, Good
    <2>3. Delivery!Try(a, c)
      BY <2>1, <2>2 DEF Delivery!Try
    <2> QED
      BY <2>3 DEF Delivery!Next
  <1>4. CASE Finish(a)
    <2>1. \A b \in Alerts : /\ Phase(b)' = IF b = a THEN "closed" ELSE Phase(b)
                            /\ task'[b].tried = task[b].tried
                            /\ task'[b].steady = task[b].steady /\ task'[b].ever = task[b].ever
      BY <1>0, <1>4 DEF Finish, Phase, Waiting, TaskType
    <2>2. Phase(a) = "open" /\ task[a].steady \subseteq task[a].tried
      BY <1>0, <1>4 DEF Finish, Phase, Waiting, Good
    <2>3. Delivery!Close(a)
      BY <2>1, <2>2 DEF Delivery!Close
    <2> QED
      BY <2>3 DEF Delivery!Next
  <1> QED
    BY <1>1, <1>2, <1>3, <1>4 DEF TaskStep

\* Whoever creates a task hands an alert over, for the channels in E.
LEMMA HandOverMaps ==
  ASSUME TypeOK, DeliveryInv, NEW a \in Alerts, NEW E \in SUBSET Channels,
         NEW t \in TaskType, task[a].pc = "none", task' = [task EXCEPT ![a] = t],
         t.pc \in {"route", "deliver"}, t.tried = {}, t.steady = E, t.ever = E
  PROVE  Delivery!Next
  <1>0. task[a] = NoTask /\ task \in [Alerts -> TaskType]
    BY DEF DeliveryInv, Good, TypeOK
  <1>1. \A b \in Alerts : /\ Phase(b)' = IF b = a THEN "open" ELSE Phase(b)
                          /\ task'[b].tried = task[b].tried
                          /\ task'[b].steady = IF b = a THEN E ELSE task[b].steady
                          /\ task'[b].ever = IF b = a THEN E ELSE task[b].ever
    <2> SUFFICES ASSUME NEW b \in Alerts
                 PROVE  /\ Phase(b)' = IF b = a THEN "open" ELSE Phase(b)
                        /\ task'[b].tried = task[b].tried
                        /\ task'[b].steady = IF b = a THEN E ELSE task[b].steady
                        /\ task'[b].ever = IF b = a THEN E ELSE task[b].ever
      OBVIOUS
    <2>1. task'[b] = IF b = a THEN t ELSE task[b]
      BY <1>0
    <2>2. CASE b = a
      <3>1. task'[b] = t /\ Phase(b)' = "open"
        BY <2>1, <2>2 DEF Phase, Waiting
      <3>2. task[b].tried = {}
        BY <1>0, <2>2 DEF NoTask
      <3> QED
        BY <2>2, <3>1, <3>2
    <2>3. CASE b # a
      BY <2>1, <2>3 DEF Phase, Waiting
    <2> QED
      BY <2>2, <2>3
  <1>2. Phase(a) = "none"
    BY DEF Phase, Waiting
  <1>3. [b \in Alerts |-> Phase(b)]' = [[b \in Alerts |-> Phase(b)] EXCEPT ![a] = "open"]
    BY <1>1
  <1>4. [b \in Alerts |-> task[b].tried]' = [b \in Alerts |-> task[b].tried]
    BY <1>1
  <1>5. [b \in Alerts |-> task[b].steady]' = [[b \in Alerts |-> task[b].steady] EXCEPT ![a] = E]
    <2>1. [b \in Alerts |-> task'[b].steady] =
            [b \in Alerts |-> IF b = a THEN E ELSE task[b].steady]
      BY <1>1
    <2>2. [[b \in Alerts |-> task[b].steady] EXCEPT ![a] = E]
            = [b \in Alerts |-> IF b = a THEN E ELSE task[b].steady]
      OBVIOUS
    <2> QED
      BY <2>1, <2>2
  <1>6. [b \in Alerts |-> task[b].ever]' = [[b \in Alerts |-> task[b].ever] EXCEPT ![a] = E]
    <2>1. [b \in Alerts |-> task'[b].ever] = [b \in Alerts |-> IF b = a THEN E ELSE task[b].ever]
      BY <1>1
    <2>2. [[b \in Alerts |-> task[b].ever] EXCEPT ![a] = E]
            = [b \in Alerts |-> IF b = a THEN E ELSE task[b].ever]
      OBVIOUS
    <2> QED
      BY <2>1, <2>2
  <1>7. [b \in Alerts |-> Phase(b)][a] = "none"
    BY <1>2
  <1>8. Delivery!HandOver(a)
    BY <1>3, <1>4, <1>5, <1>6, <1>7, Zenon DEF Delivery!HandOver
  <1> QED
    BY <1>8 DEF Delivery!Next

LEMMA DispatchMaps ==
  ASSUME TypeOK, DeliveryInv, NEW s \in Subjects, NEW sev \in Severities,
         ScheduleDispatch(s, sev)
  PROVE  Delivery!Next
  <1> DEFINE Q == Qualified(s, sev, channel, links)
             t == [NoTask EXCEPT !.pc = "route", !.subject = s, !.severity = sev,
                                 !.steady = Q, !.ever = Q]
  <1>1. PICK a \in Alerts : task[a].pc = "none" /\ task' = [task EXCEPT ![a] = t]
    BY DEF ScheduleDispatch
  <1>2. Q \subseteq Channels
    BY DEF Qualified, TypeOK
  <1>3. t.pc = "route" /\ t.tried = {} /\ t.steady = Q /\ t.ever = Q
    BY DEF NoTask
  <1> HIDE DEF Q
  <1>4. t \in TaskType
    BY <1>2 DEF NoTask, TaskType
  <1> HIDE DEF t
  <1> QED
    BY <1>1, <1>2, <1>3, <1>4, HandOverMaps

LEMMA EscalationMaps ==
  ASSUME TypeOK, DeliveryInv, NEW c \in Channels, ScheduleEscalation(c)
  PROVE  Delivery!Next
  <1> DEFINE t == [NoTask EXCEPT !.pc = "deliver", !.todo = {c}, !.steady = {c}, !.ever = {c}]
  <1>1. PICK a \in Alerts : task[a].pc = "none" /\ task' = [task EXCEPT ![a] = t]
    BY DEF ScheduleEscalation
  <1>2. t.pc = "deliver" /\ t.tried = {} /\ t.steady = {c} /\ t.ever = {c} /\ t \in TaskType
    BY DEF NoTask, TaskType
  <1> HIDE DEF t
  <1> QED
    BY <1>1, <1>2, HandOverMaps

\* A change of the tables changes who qualifies, and nothing else.
LEMMA EditRoutingMaps ==
  ASSUME TypeOK, TypeOK', DeliveryInv, Requalify
  PROVE  Delivery!Next
  <1> DEFINE Q(a) == Qualified(task[a].subject, task[a].severity, channel', links')
             E == [a \in Alerts |-> IF Waiting(a) /\ task[a].subject # NoSubject
                                    THEN Q(a) ELSE task[a].ever]
  <1>1. ASSUME NEW a \in Alerts
        PROVE  /\ E[a] \in SUBSET Channels
               /\ Phase(a)' = Phase(a) /\ task'[a].tried = task[a].tried
               /\ task'[a].steady = task[a].steady \cap E[a]
               /\ task'[a].ever = task[a].ever \cup E[a]
    <2>0. task[a] \in TaskType /\ task[a].steady \subseteq task[a].ever
      BY DEF TypeOK, DeliveryInv, Good
    <2>1. Q(a) \subseteq Channels
      BY DEF Qualified, TypeOK
    <2>2. task'[a] = IF Waiting(a) /\ task[a].subject # NoSubject
                     THEN [task[a] EXCEPT !.steady = @ \cap Q(a), !.ever = @ \cup Q(a)]
                     ELSE task[a]
      BY DEF Requalify
    <2> HIDE DEF Q
    <2>3. CASE Waiting(a) /\ task[a].subject # NoSubject
      <3>1. E[a] = Q(a) /\ task'[a] = [task[a] EXCEPT !.steady = @ \cap Q(a), !.ever = @ \cup Q(a)]
        BY <2>2, <2>3
      <3> HIDE DEF E
      <3> QED
        BY <2>0, <2>1, <3>1 DEF TaskType, Phase, Waiting
    <2>4. CASE ~(Waiting(a) /\ task[a].subject # NoSubject)
      <3>1. E[a] = task[a].ever /\ task'[a] = task[a]
        BY <2>2, <2>4
      <3> HIDE DEF E
      <3> QED
        BY <2>0, <3>1 DEF TaskType, Phase, Waiting
    <2> QED
      BY <2>3, <2>4
  <1>2. E \in [Alerts -> SUBSET Channels]
    BY <1>1
  <1> HIDE DEF E
  <1>3. Delivery!Change
    BY <1>1, <1>2 DEF Delivery!Change
  <1> QED
    BY <1>3 DEF Delivery!Next

LEMMA RestartMaps ==
  ASSUME TypeOK, Restart
  PROVE  Delivery!Next
  <1> DEFINE L == {a \in Alerts : Phase(a) = "open"}
  <1>1. ASSUME NEW a \in Alerts
        PROVE  /\ Phase(a)' = IF a \in L THEN "lost" ELSE Phase(a)
               /\ task'[a].tried = task[a].tried
               /\ task'[a].steady = task[a].steady /\ task'[a].ever = task[a].ever
    BY DEF Restart, Phase, Waiting, TypeOK, TaskType
  <1>2. Delivery!Lose
    <2>1. L \in SUBSET {a \in Alerts : [b \in Alerts |-> Phase(b)][a] = "open"}
      OBVIOUS
    <2> HIDE DEF L
    <2>2. [a \in Alerts |-> Phase(a)]'
            = [a \in Alerts |-> IF a \in L THEN "lost" ELSE [b \in Alerts |-> Phase(b)][a]]
      BY <1>1
    <2>3. /\ [a \in Alerts |-> task[a].tried]' = [a \in Alerts |-> task[a].tried]
          /\ [a \in Alerts |-> task[a].steady]' = [a \in Alerts |-> task[a].steady]
          /\ [a \in Alerts |-> task[a].ever]' = [a \in Alerts |-> task[a].ever]
      BY <1>1
    <2> QED
      BY <2>1, <2>2, <2>3, Zenon DEF Delivery!Lose
  <1> QED
    BY <1>2 DEF Delivery!Next

LEMMA NextMaps ==
  ASSUME TypeOK, TypeOK', DeliveryInv, [Next]_vars
  PROVE  [Delivery!Next]_(Delivery!vars)
  <1>1. ASSUME UNCHANGED task PROVE UNCHANGED Delivery!vars
    BY <1>1 DEF Delivery!vars, Phase, Waiting
  <1>2. ASSUME NEW a \in Alerts, TaskStep(a) \/ RouteFails(a)
        PROVE  Delivery!Next \/ UNCHANGED Delivery!vars
    BY <1>2, TaskStepMaps
  <1>3. ASSUME NEW m \in Monitors, AlertMonitor(m) PROVE Delivery!Next
    BY <1>3, DispatchMaps DEF AlertMonitor, Subjects
  <1>4. ASSUME NEW h \in Hosts, AlertHost(h) PROVE Delivery!Next
    BY <1>4, DispatchMaps DEF AlertHost, Subjects
  <1>5. ASSUME NEW c \in Channels, Escalate(c) \/ TestChannel(c) PROVE Delivery!Next
    BY <1>5, EscalationMaps DEF Escalate, TestChannel
  <1>6. CASE EditRouting
    BY <1>6, EditRoutingMaps DEF EditRouting
  <1>7. CASE Restart
    BY <1>7, RestartMaps
  <1>8. ASSUME NEW m \in Monitors, StartJob(m) \/ EndJob(m) PROVE UNCHANGED Delivery!vars
    BY <1>1, <1>8 DEF StartJob, EndJob
  <1> QED
    BY <1>1, <1>2, <1>3, <1>4, <1>5, <1>6, <1>7, <1>8
    DEF Next, TestChannelForm, EditMaintenance, TimePasses, vars

\* At first nothing has been handed over.
LEMMA InitMaps == Init => Delivery!Init
  BY DEF Init, NoTask, Phase, Waiting, Delivery!Init

\* However the owner edits channels, links and windows while alerts are under
\* way, and whatever fails, delivery keeps the promise of AlertDelivery.
THEOREM Refinement == Spec => DeliverySpec
  <1>1. Spec => [](TypeOK /\ DeliveryInv)
    BY InitType, NextType, DeliveryInit, DeliveryNext, PTL DEF Spec
  <1> QED
    BY <1>1, InitMaps, NextMaps, PTL DEF Spec, DeliverySpec, Delivery!Spec

\* Delivery as it is promised keeps its promise.
LEMMA PromiseHolds == DeliverySpec => []Delivery!PromiseKept
  <1> DEFINE Kept(a) == /\ Phase(a) = "none" => task[a].tried = {}
                        /\ Phase(a) = "closed" => task[a].steady \subseteq task[a].tried
                        /\ task[a].tried \subseteq task[a].ever
             Inv == \A a \in Alerts : Kept(a)
             Same(a) == /\ Phase(a)' = Phase(a) /\ task'[a].tried = task[a].tried
                        /\ task'[a].steady = task[a].steady /\ task'[a].ever = task[a].ever
  <1>1. Delivery!Init => Inv
    <2> SUFFICES ASSUME Delivery!Init, NEW a \in Alerts PROVE Kept(a)
      OBVIOUS
    <2>1. Phase(a) = "none" /\ task[a].tried = {}
      BY DEF Delivery!Init
    <2> QED
      BY <2>1
  <1>2. Inv /\ [Delivery!Next]_(Delivery!vars) => Inv'
    <2> SUFFICES ASSUME Inv, [Delivery!Next]_(Delivery!vars), NEW b \in Alerts PROVE Kept(b)'
      OBVIOUS
    <2>0. Kept(b) /\ (Same(b) => Kept(b)')
      OBVIOUS
    <2>1. ASSUME NEW a \in Alerts, Delivery!HandOver(a) PROVE Kept(b)'
      <3>1. CASE a = b
        <4>1. Phase(b) = "none" /\ Phase(b)' = "open" /\ task'[b].tried = task[b].tried
          BY <2>1, <3>1 DEF Delivery!HandOver
        <4> QED
          BY <2>0, <4>1
      <3>2. CASE a # b
        <4>1. Same(b)
          BY <2>1, <3>2 DEF Delivery!HandOver
        <4> QED
          BY <2>0, <4>1
      <3> QED
        BY <3>1, <3>2
    <2>2. ASSUME NEW a \in Alerts, Delivery!Close(a) PROVE Kept(b)'
      <3>1. CASE a = b
        <4>1. /\ task[b].steady \subseteq task[b].tried /\ Phase(b)' = "closed"
              /\ task'[b].tried = task[b].tried /\ task'[b].steady = task[b].steady
              /\ task'[b].ever = task[b].ever
          BY <2>2, <3>1 DEF Delivery!Close
        <4> QED
          BY <2>0, <4>1
      <3>2. CASE a # b
        <4>1. Same(b)
          BY <2>2, <3>2 DEF Delivery!Close
        <4> QED
          BY <2>0, <4>1
      <3> QED
        BY <3>1, <3>2
    <2>3. ASSUME NEW a \in Alerts, NEW c \in Channels, Delivery!Try(a, c) PROVE Kept(b)'
      <3>1. CASE a = b
        <4>1. /\ Phase(b) = "open" /\ Phase(b)' = Phase(b) /\ c \in task[b].ever
              /\ task'[b].tried = task[b].tried \cup {c} /\ task'[b].ever = task[b].ever
          BY <2>3, <3>1 DEF Delivery!Try
        <4> QED
          BY <2>0, <4>1
      <3>2. CASE a # b
        <4>1. Same(b)
          BY <2>3, <3>2 DEF Delivery!Try
        <4> QED
          BY <2>0, <4>1
      <3> QED
        BY <3>1, <3>2
    <2>4. CASE Delivery!Change
      <3>1. /\ Phase(b)' = Phase(b) /\ task'[b].tried = task[b].tried
            /\ task'[b].steady \subseteq task[b].steady /\ task[b].ever \subseteq task'[b].ever
        BY <2>4 DEF Delivery!Change
      <3> QED
        BY <2>0, <3>1
    <2>5. CASE Delivery!Lose
      <3>1. /\ Phase(b)' = "lost" \/ Phase(b)' = Phase(b)
            /\ task'[b].tried = task[b].tried /\ task'[b].steady = task[b].steady
            /\ task'[b].ever = task[b].ever
        BY <2>5 DEF Delivery!Lose
      <3> QED
        BY <2>0, <3>1
    <2>6. CASE UNCHANGED Delivery!vars
      <3>1. Same(b)
        BY <2>6 DEF Delivery!vars
      <3> QED
        BY <2>0, <3>1
    <2> QED
      BY <2>1, <2>2, <2>3, <2>4, <2>5, <2>6 DEF Delivery!Next
  <1>3. Inv => Delivery!PromiseKept
    BY DEF Delivery!PromiseKept
  <1> QED
    BY <1>1, <1>2, <1>3, PTL DEF DeliverySpec, Delivery!Spec

\* Whatever the owner edits meanwhile and whichever deliveries fail: when an
\* alert's task has ended, every channel that was meant to get the alert all
\* the time was tried, and none that was not meant to at any moment.
THEOREM EndedAlertsTold ==
  Spec => [](\A a \in Alerts :
                /\ task[a].tried \subseteq task[a].ever
                /\ task[a].pc = "done" => task[a].steady \subseteq task[a].tried)
  <1> DEFINE Told == \A a \in Alerts :
                        /\ task[a].tried \subseteq task[a].ever
                        /\ task[a].pc = "done" => task[a].steady \subseteq task[a].tried
  <1>1. Delivery!PromiseKept => Told
    BY DEF Delivery!PromiseKept, Phase, Waiting
  <1> QED
    BY <1>1, Refinement, PromiseHolds, PTL

-----------------------------------------------------------------------------
(* Maintenance windows.                                                    *)

\* Looking at the last fire before the instant is enough, as a window that is
\* still open after an earlier one is also open after the last: the code holds
\* a window active exactly when it is open and does not open at that instant.
LEMMA ActiveIsOpen ==
  ASSUME NEW f \in Forms, NEW t \in Time
  PROVE  IsActive(f, t) <=> IsOpen(f, t) /\ ~OpensAt(f, t)
  <1>0. f \in FormType /\ t \in Int
    BY DEF Time
  <1>1. CASE f.strategy = "once"
    BY <1>0, <1>1 DEF IsActive, IsOpen, OpensAt, Complete, FormType, Time, Never
  <1>2. CASE f.strategy = "cron" /\ Complete(f)
    <2>1. f.cron \in Patterns /\ f.duration \in Nat
      BY <1>0, <1>2 DEF Complete, FormType
    <2>2. /\ Previous(f.cron, t) \in Fires[f.cron] /\ Previous(f.cron, t) < t
          /\ \A g \in Fires[f.cron] : g < t => g <= Previous(f.cron, t)
      BY <2>1 DEF Previous
    <2>3. Fires[f.cron] \subseteq Int
      BY <2>1
    <2>4. t <= Previous(f.cron, t) + f.duration
            <=> \E x \in Fires[f.cron] : x < t /\ t <= x + f.duration
      BY <1>0, <2>1, <2>2, <2>3
    <2>5. OpensAt(f, t) <=> ~ \E x \in Fires[f.cron] : x < t /\ t <= x + f.duration
      BY <1>0, <1>2, <2>1, <2>3 DEF OpensAt
    <2>6. (\E x \in Fires[f.cron] : x < t /\ t <= x + f.duration)
            => \E x \in Fires[f.cron] : x <= t /\ t <= x + f.duration
      BY <1>0, <2>3
    <2> QED
      BY <1>2, <2>4, <2>5, <2>6 DEF IsActive, IsOpen, Complete
  <1>3. CASE f.strategy = "cron" /\ ~Complete(f)
    BY <1>3 DEF IsActive, IsOpen, Complete
  <1> QED
    BY <1>0, <1>1, <1>2, <1>3 DEF FormType

\* Whatever windows the owner stores, well formed or not, a probe job is held
\* only in an open window that covers its monitor, and it runs beside one only
\* at the instant at which that window opens.
THEOREM MaintenanceHonoured == Spec => WindowsHonoured
  <1>1. ASSUME TypeOK, NEW m \in Monitors, StartJob(m)
        PROVE  /\ job'[m] = "held" => Open(m, clock) # {}
               /\ job'[m] # "held" => \A w \in Open(m, clock) : OpensAt(window[w], clock)
    <2>1. clock \in Time /\ \A w \in DOMAIN window : window[w] \in Forms
      BY <1>1 DEF TypeOK, WindowsTypeOK
    <2>2. \A w \in DOMAIN window :
             IsActive(window[w], clock)
               <=> IsOpen(window[w], clock) /\ ~OpensAt(window[w], clock)
      BY <2>1, ActiveIsOpen
    <2>3. job'[m] = "held" <=> UnderMaintenance(m, clock)
      BY <1>1 DEF StartJob, TypeOK
    <2> QED
      BY <2>2, <2>3 DEF UnderMaintenance, Open
  <1>2. TypeOK =>
          [\A m \in Monitors : StartJob(m) =>
              /\ job'[m] = "held" => Open(m, clock) # {}
              /\ job'[m] # "held" => \A w \in Open(m, clock) : OpensAt(window[w], clock)]_vars
    BY <1>1
  <1> QED
    BY <1>2, TypeCorrect, PTL DEF Spec, WindowsHonoured
=============================================================================
