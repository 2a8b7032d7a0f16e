---------------------------- MODULE AlertRouting -----------------------------
(***************************************************************************)
(* From a state change to its notifications: the probe job that respects   *)
(* the maintenance windows, schedule_dispatch and schedule_escalation,     *)
(* dispatch_alert, and the notification channels with the requests that    *)
(* change them, for one owner.                                             *)
(*                                                                         *)
(* An alert is a task of the event loop.  It selects the eligible channels *)
(* and then delivers to all of them concurrently, from the rows it read.   *)
(* Nothing is stored about it.                                             *)
(***************************************************************************)
EXTENDS MaintenanceWindows

CONSTANTS
    Hosts,
    Channels,
    Alerts,        \* alerts; each is used once
    Severities,    \* ranks
    Faults,        \* a subset of {"restart", "query"}
    MaxEdits       \* bound of the model: requests of the owner

NoSubject == "nobody"    \* of an alert for one given channel

ASSUME RoutingAssumption ==
    /\ Severities \subseteq Nat /\ 0 \in Severities
    /\ Faults \subseteq {"restart", "query"}
    /\ NoSubject \notin Monitors \cup Hosts
    /\ MaxEdits \in Nat

VARIABLES
    channel,       \* the rows: the channels that exist
    links,         \* monitor_channels and host_channels
    deleted,       \* the monitors and hosts that were deleted
    job,           \* per monitor: its probe job
    task,          \* the alerts
    edits          \* history: number of requests

vars == <<clock, window, covers, channel, links, deleted, job, task, edits>>

Subjects == Monitors \cup Hosts

ChannelType == [is_enabled: BOOLEAN, min_severity: Severities]

TaskType ==
    [pc: {"none", "route", "deliver", "done", "lost"},
     subject: Subjects \cup {NoSubject},
     severity: Severities,
     todo: SUBSET Channels,     \* deliveries under way
     tried: SUBSET Channels,    \* history: deliveries that ended
     steady: SUBSET Channels,   \* history: qualified since the hand-over
     ever: SUBSET Channels]     \* history: qualified at some moment since

NoTask == [pc |-> "none", subject |-> NoSubject, severity |-> 0, todo |-> {},
           tried |-> {}, steady |-> {}, ever |-> {}]

\* A link needs both its rows (foreign keys).
TypeOK ==
    /\ WindowsTypeOK
    /\ DOMAIN channel \subseteq Channels
    /\ \A c \in DOMAIN channel : channel[c] \in ChannelType
    /\ deleted \subseteq Subjects
    /\ links \subseteq (Subjects \ deleted) \X (DOMAIN channel)
    /\ covers \subseteq Windows \X (Monitors \ deleted)
    /\ job \in [Monitors -> {"idle", "probing", "held"}]
    /\ task \in [Alerts -> TaskType]
    /\ edits \in 0 .. MaxEdits

\* The owner may have set up anything; these are the simplest set-ups.
Init ==
    /\ clock = 0
    /\ \E W \in SUBSET Windows :
          /\ window \in [W -> {f \in Forms : WellFormed(f)}]
          /\ covers = W \X Monitors
    /\ \E C \in {{}, Channels} :
          /\ channel \in [C -> [is_enabled: {TRUE}, min_severity: {0}]]
          /\ links = Subjects \X C
    /\ deleted = {}
    /\ job = [m \in Monitors |-> "idle"]
    /\ task = [a \in Alerts |-> NoTask]
    /\ edits = 0

-----------------------------------------------------------------------------
(* Routing and delivery                                                    *)

\* The channels that are meant to get an alert: attached, enabled, and "only
\* alerts at or above this severity are delivered through this channel".
Qualified(s, sev, ch, ln) ==
    {c \in DOMAIN ch : <<s, c>> \in ln /\ ch[c].is_enabled /\ ch[c].min_severity <= sev}

Waiting(a) == task[a].pc \in {"route", "deliver"}

\* Mutant: an alert of the threshold's own severity is not routed.
Eligible_above(t) ==
    {c \in DOMAIN channel : /\ <<t.subject, c>> \in links /\ channel[c].is_enabled
                            /\ channel[c].min_severity < t.severity}

\* _channels_for_monitor and _channels_for_host, then the severity threshold.
Eligible(t) ==
    {c \in DOMAIN channel : /\ <<t.subject, c>> \in links /\ channel[c].is_enabled
                            /\ channel[c].min_severity <= t.severity}

\* schedule_dispatch: a task is created, nothing is awaited.
ScheduleDispatch(s, sev) ==
    \E a \in Alerts :
       /\ task[a].pc = "none"
       /\ LET Q == Qualified(s, sev, channel, links)
          IN  task' = [task EXCEPT ![a] = [NoTask EXCEPT !.pc = "route", !.subject = s,
                         !.severity = sev, !.steady = Q, !.ever = Q]]

\* schedule_escalation: one delivery to a channel chosen by the caller; its
\* threshold does not count.
ScheduleEscalation(c) ==
    \E a \in Alerts :
       /\ task[a].pc = "none"
       /\ task' = [task EXCEPT ![a] = [NoTask EXCEPT !.pc = "deliver", !.todo = {c},
                                                     !.steady = {c}, !.ever = {c}]]

SameTables == UNCHANGED <<clock, window, covers, channel, links, deleted, edits>>

\* dispatch_alert: one SELECT.
Route(a) ==
    /\ task[a].pc = "route"
    /\ task' = [task EXCEPT ![a].pc = "deliver", ![a].todo = Eligible(task[a])]
    /\ SameTables /\ UNCHANGED job

\* The SELECT fails: _log_task_exception.
RouteFails(a) ==
    /\ "query" \in Faults /\ task[a].pc = "route"
    /\ task' = [task EXCEPT ![a].pc = "lost"]
    /\ SameTables /\ UNCHANGED job

\* Mutant: a delivery that fails cancels the others.
Deliver_cancelling(a, c) ==
    /\ task[a].pc = "deliver" /\ c \in task[a].todo
    /\ \E failed \in BOOLEAN :
          task' = [task EXCEPT ![a].todo = IF failed THEN {} ELSE @ \ {c},
                               ![a].tried = @ \cup {c}]
    /\ SameTables /\ UNCHANGED job

\* _deliver ends, with or without success: a DeliveryError is logged, gather
\* keeps any other exception to itself (return_exceptions).
Deliver(a, c) ==
    /\ task[a].pc = "deliver" /\ c \in task[a].todo
    /\ task' = [task EXCEPT ![a].todo = @ \ {c}, ![a].tried = @ \cup {c}]
    /\ SameTables /\ UNCHANGED job

Finish(a) ==
    /\ task[a].pc = "deliver" /\ task[a].todo = {}
    /\ task' = [task EXCEPT ![a].pc = "done"]
    /\ SameTables /\ UNCHANGED job

TaskStep(a) == Route(a) \/ Finish(a) \/ \E c \in Channels : Deliver(a, c)

\* The process stops and starts again: tasks live in memory only.
Restart ==
    /\ "restart" \in Faults
    /\ task' = [a \in Alerts |-> IF Waiting(a) THEN [task[a] EXCEPT !.pc = "lost"] ELSE task[a]]
    /\ job' = [m \in Monitors |-> "idle"]
    /\ SameTables

-----------------------------------------------------------------------------
(* Who hands alerts over                                                   *)

\* _run_probe_job looks the windows up before it probes ...
StartJob(m) ==
    /\ job[m] = "idle" /\ m \notin deleted
    /\ job' = [job EXCEPT ![m] = IF UnderMaintenance(m, clock) THEN "held" ELSE "probing"]
    /\ SameTables /\ UNCHANGED task

\* ... and ends without an alert, or with alerts of any severity (UP/DOWN and
\* its triggers).
EndJob(m) ==
    /\ job[m] # "idle"
    /\ job' = [job EXCEPT ![m] = "idle"]
    /\ SameTables /\ UNCHANGED task

AlertMonitor(m) ==
    /\ job[m] = "probing"
    /\ \E sev \in Severities : ScheduleDispatch(m, sev)
    /\ SameTables /\ UNCHANGED job

\* schedule_item_trigger_alerts
AlertHost(h) ==
    /\ \E sev \in Severities : ScheduleDispatch(h, sev)
    /\ SameTables /\ UNCHANGED job

\* A step of an escalation policy (see Escalation).
Escalate(c) ==
    /\ c \in DOMAIN channel /\ channel[c].is_enabled
    /\ ScheduleEscalation(c)
    /\ SameTables /\ UNCHANGED job

\* POST /channels/{id}/test and the button of the page: the same delivery,
\* awaited by the request.
TestChannel(c) ==
    /\ c \in DOMAIN channel
    /\ ScheduleEscalation(c)
    /\ SameTables /\ UNCHANGED job

TestChannelForm(c) == TestChannel(c)

-----------------------------------------------------------------------------
(* Requests of the owner: the API, then the pages' forms.                  *)

\* The history of the alerts under way, once the tables have changed.
Requalify ==
    task' = [a \in Alerts |->
               LET t == task[a]
                   Q == Qualified(t.subject, t.severity, channel', links')
               IN  IF Waiting(a) /\ t.subject # NoSubject
                   THEN [t EXCEPT !.steady = @ \cap Q, !.ever = @ \cup Q]
                   ELSE t]

CreateChannel(c, e, min) ==
    /\ c \notin DOMAIN channel
    /\ channel' = [d \in DOMAIN channel \cup {c} |->
                     IF d = c THEN [is_enabled |-> e, min_severity |-> min] ELSE channel[d]]
    /\ UNCHANGED <<links, deleted, covers>>

\* The form has no threshold: it is the default, INFO.
CreateChannelForm(c, e) == CreateChannel(c, e, 0)

UpdateChannel(c, e, min) ==
    /\ c \in DOMAIN channel
    /\ channel' = [channel EXCEPT ![c] = [is_enabled |-> e, min_severity |-> min]]
    /\ UNCHANGED <<links, deleted, covers>>

UpdateChannelForm(c, e) ==
    /\ c \in DOMAIN channel
    /\ UpdateChannel(c, e, channel[c].min_severity)

\* Mutant: no ON DELETE CASCADE on the association tables.
DeleteChannel_noCascade(c) ==
    /\ c \in DOMAIN channel
    /\ channel' = [d \in DOMAIN channel \ {c} |-> channel[d]]
    /\ UNCHANGED <<links, deleted, covers>>

DeleteChannel(c) ==
    /\ c \in DOMAIN channel
    /\ channel' = [d \in DOMAIN channel \ {c} |-> channel[d]]
    /\ links' = {l \in links : l[2] # c}
    /\ UNCHANGED <<deleted, covers>>

DeleteChannelForm(c) == DeleteChannel(c)

Attach(s, c) ==
    /\ s \notin deleted /\ c \in DOMAIN channel
    /\ links' = links \cup {<<s, c>>}
    /\ UNCHANGED <<channel, deleted, covers>>

Detach(s, c) ==
    /\ s \notin deleted /\ c \in DOMAIN channel
    /\ links' = links \ {<<s, c>>}
    /\ UNCHANGED <<channel, deleted, covers>>

AttachChannel(m, c) == Attach(m, c)
DetachChannel(m, c) == Detach(m, c)
AttachChannelForm(m, c) == Attach(m, c)
DetachChannelForm(m, c) == Detach(m, c)
AttachHostChannel(h, c) == Attach(h, c)
DetachHostChannel(h, c) == Detach(h, c)

\* The associations go with the monitor or the host.
DeleteSubject(s) ==
    /\ s \notin deleted
    /\ deleted' = deleted \cup {s}
    /\ links' = {l \in links : l[1] # s}
    /\ covers' = {c \in covers : c[2] # s}
    /\ UNCHANGED channel

ChangeChannels ==
    \E c \in Channels :
       \/ \E e \in BOOLEAN :
             \/ CreateChannelForm(c, e) \/ UpdateChannelForm(c, e)
             \/ \E min \in Severities : CreateChannel(c, e, min) \/ UpdateChannel(c, e, min)
       \/ DeleteChannel(c) \/ DeleteChannelForm(c)

ChangeLinks ==
    \E c \in Channels :
       \/ \E m \in Monitors :
             \/ AttachChannel(m, c) \/ AttachChannelForm(m, c)
             \/ DetachChannel(m, c) \/ DetachChannelForm(m, c)
       \/ \E h \in Hosts : AttachHostChannel(h, c) \/ DetachHostChannel(h, c)

EditRouting ==
    /\ edits < MaxEdits /\ edits' = edits + 1
    /\ ChangeChannels \/ ChangeLinks \/ \E s \in Subjects : DeleteSubject(s)
    /\ Requalify
    /\ UNCHANGED <<clock, window, job>>

EditMaintenance ==
    /\ edits < MaxEdits /\ edits' = edits + 1
    /\ EditWindows
    /\ covers' \cap (Windows \X deleted) = {}
    /\ UNCHANGED <<channel, links, deleted, job, task>>

TimePasses == Tick /\ UNCHANGED <<channel, links, deleted, job, task, edits>>

Next ==
    \/ \E a \in Alerts : TaskStep(a) \/ RouteFails(a)
    \/ \E m \in Monitors : StartJob(m) \/ EndJob(m) \/ AlertMonitor(m)
    \/ \E h \in Hosts : AlertHost(h)
    \/ \E c \in Channels : Escalate(c) \/ TestChannel(c) \/ TestChannelForm(c)
    \/ EditRouting \/ EditMaintenance \/ TimePasses \/ Restart

Spec == Init /\ [][Next]_vars

\* Queries end, deliveries have timeouts (15 s for mail, 10 s for webhooks).
FairSpec == Spec /\ \A a \in Alerts : WF_vars(TaskStep(a))

-----------------------------------------------------------------------------
\* "Alert silencing": a probe job is held only while a window that covers its
\* monitor is open, and while one is open it is held, whatever the owner stored:
\* overlapping windows, fires closer than the duration, or a PATCH that leaves a
\* window without the fields its strategy needs.  In one case the code does not
\* do what its docstring says ("at or before now"): a window that opens at this
\* very instant does not hold the job, get_prev looks strictly before it.
WindowsHonoured ==
    [][\A m \in Monitors : StartJob(m) =>
          /\ job'[m] = "held" => Open(m, clock) # {}
          /\ job'[m] # "held" => \A w \in Open(m, clock) : OpensAt(window[w], clock)]_vars

\* What a reader of the logs sees of an alert: under way, over, or lost.
Phase(a) ==
    IF Waiting(a) THEN "open" ELSE IF task[a].pc = "done" THEN "closed" ELSE task[a].pc

Delivery ==
    INSTANCE AlertDelivery WITH
        phase  <- [a \in Alerts |-> Phase(a)],
        tried  <- [a \in Alerts |-> task[a].tried],
        steady <- [a \in Alerts |-> task[a].steady],
        ever   <- [a \in Alerts |-> task[a].ever]

\* The promise of AlertDelivery: no channel is tried twice, or without having
\* qualified since the hand-over; a failing channel does not keep the alert
\* from the others; a channel that qualified all the time is never left out.
DeliverySpec == Delivery!Spec

\* "Alerts over email/webhook": a channel that qualifies from the hand-over on
\* is tried, unless the process stops.
SteadyChannelsTold ==
    \A a \in Alerts, c \in Channels :
       (Waiting(a) /\ c \in task[a].steady)
          ~> (c \in task[a].tried \/ c \notin task[a].steady \/ task[a].pc = "lost")
=============================================================================
