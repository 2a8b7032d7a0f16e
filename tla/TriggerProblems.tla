-------------------------- MODULE TriggerProblems ---------------------------
(***************************************************************************)
(* TriggerService.evaluate / evaluate_item and ProblemEventService, with   *)
(* the statements of concurrent database sessions interleaved.             *)
(*                                                                         *)
(* One module stands for both evaluators; what differs is who runs them.   *)
(* A monitor's triggers are evaluated by its probe job alone, which never  *)
(* overlaps with itself: one member of Sessions.  An item's triggers are   *)
(* evaluated by every request that pushes a sample for it and by the SNMP  *)
(* poller: several members.                                                *)
(*                                                                         *)
(* PostgreSQL runs at READ COMMITTED, sessions have autoflush off.  The    *)
(* SELECT of the enabled triggers is a snapshot (seen); the UPDATE that    *)
(* closes events runs at once and holds row locks until the commit         *)
(* (closing); the new states and the new events are written by the commit. *)
(***************************************************************************)
EXTENDS ProblemTimeline, Naturals

CONSTANTS
    Sessions,   \* evaluations of this monitor or item that may overlap
    Faults      \* what disturbs the evaluations, a subset of FaultKinds

FaultKinds ==
    { "failure",    \* a session dies between two statements
      "disable" }   \* the owner disables and enables triggers

ASSUME SessionFaultsAssumption == Faults \subseteq FaultKinds

VARIABLES
    ses,        \* per session: pc, todo, seen, flips, closing
    told        \* the state announced by the newest alert of each trigger,
                \* or Lost when that alert never left

vars == <<tables, ses, told>>

SessionType ==
    [pc: {"idle", "loop", "dispatch"},
     todo: SUBSET Triggers,                    \* still to be flipped
     seen: [Triggers -> States],               \* their Trigger.state as loaded
     flips: SUBSET Triggers,                   \* fired
     closing: [Triggers -> SUBSET EventIds]]   \* resolved by this transaction

NoSession == [pc |-> "idle", todo |-> {}, seen |-> [t \in Triggers |-> "ok"],
              flips |-> {}, closing |-> [t \in Triggers |-> {}]]

Lost == "lost"

Other(st) == IF st = "ok" THEN "problem" ELSE "ok"

TypeOK ==
    /\ TimelineTypeOK
    /\ ses \in [Sessions -> SessionType]
    /\ told \in [Triggers -> States \cup {Lost}]

Init ==
    /\ TimelineInit
    /\ ses = [s \in Sessions |-> NoSession]
    /\ told = [t \in Triggers |-> "ok"]

-----------------------------------------------------------------------------
\* Rows of open events locked by the uncommitted UPDATE of some session.
Locked(t) == UNION {ses[s].closing[t] : s \in Sessions}

\* s has still to close events of t, which r has locked.
Waits(s, r, t) == /\ t \in ses[s].todo /\ ses[s].seen[t] = "problem"
                  /\ r # s /\ ses[r].closing[t] # {}

\* Each session of G has still to wait for another one of them.
Deadlocked(G) ==
    G # {} /\ \A s \in G : \E r \in G, t \in Triggers : Waits(s, r, t)

\* The session ends; an uncommitted UPDATE is rolled back with it.
End(s) == ses' = [ses EXCEPT ![s] = NoSession]

\* Sessions that are going to open an event for t.
Opening(t) == {s \in Sessions : /\ ses[s].pc = "loop" /\ ses[s].seen[t] = "ok"
                               /\ t \in ses[s].todo \cup ses[s].flips}

\* Bound of the model: there is an id for one more event.
HasRoom(t) == \/ state[t] = "problem"
              \/ Cardinality(EventIds \ open[t]) > Cardinality(Opening(t))

\* SELECT the enabled triggers and compare.  A trigger without a value this
\* round, and one whose condition says what its loaded state says, is passed
\* over; todo holds the others, the ones this round flips.  A round that flips
\* nothing writes nothing.
Load(s) ==
    /\ ses[s].pc = "idle"
    /\ \E F \in SUBSET {t \in Triggers : enabled[t] /\ HasRoom(t)} :
          ses' = [ses EXCEPT ![s] =
                    IF F = {} THEN NoSession
                    ELSE [NoSession EXCEPT !.pc = "loop", !.todo = F,
                            !.seen = [t \in Triggers |-> IF t \in F THEN state[t] ELSE "ok"]]]
    /\ UNCHANGED <<tables, told>>

\* The condition is met and the loaded state was OK: the event is added to
\* the unit of work, nothing reaches the database yet.
Breach(s, t) ==
    /\ ses[s].pc = "loop" /\ t \in ses[s].todo
    /\ ses[s].seen[t] = "ok"
    /\ ses' = [ses EXCEPT ![s].todo = @ \ {t}, ![s].flips = @ \cup {t}]
    /\ UNCHANGED <<tables, told>>

\* Mutant: the new state is stored, the open events are left open.
Recover_leaveOpen(s, t) ==
    /\ ses[s].pc = "loop" /\ t \in ses[s].todo
    /\ ses[s].seen[t] = "problem"
    /\ Locked(t) = {}
    /\ ses' = [ses EXCEPT ![s].todo = @ \ {t}, ![s].flips = @ \cup {t}]
    /\ UNCHANGED <<tables, told>>

\* Mutant: one open event is closed, any other one is forgotten.
Recover_closeOne(s, t) ==
    /\ ses[s].pc = "loop" /\ t \in ses[s].todo
    /\ ses[s].seen[t] = "problem"
    /\ Locked(t) = {}
    /\ \E E \in SUBSET open[t] :
          /\ Cardinality(E) = 1 \/ open[t] = {}
          /\ ses' = [ses EXCEPT ![s].todo = @ \ {t}, ![s].flips = @ \cup {t},
                                ![s].closing[t] = E]
    /\ UNCHANGED <<tables, told>>

\* Mutant: closing the events commits by itself, before the state is stored.
Recover_commits(s, t) ==
    /\ ses[s].pc = "loop" /\ t \in ses[s].todo
    /\ ses[s].seen[t] = "problem"
    /\ Locked(t) = {}
    /\ ses' = [ses EXCEPT ![s].todo = @ \ {t}, ![s].flips = @ \cup {t}]
    /\ open' = [open EXCEPT ![t] = {}]
    /\ UNCHANGED <<row, enabled, state, told>>

\* The condition no longer holds and the loaded state was PROBLEM: UPDATE the
\* open events now.  It waits for rows another session is closing.
Recover(s, t) ==
    /\ ses[s].pc = "loop" /\ t \in ses[s].todo
    /\ ses[s].seen[t] = "problem"
    /\ Locked(t) = {}
    /\ ses' = [ses EXCEPT ![s].todo = @ \ {t}, ![s].flips = @ \cup {t},
                          ![s].closing[t] = open[t]]
    /\ UNCHANGED <<tables, told>>

\* Mutant: the changed states are not written back.
Commit_eventsOnly(s) ==
    /\ ses[s].pc = "loop" /\ ses[s].todo = {}
    /\ \A t \in ses[s].flips : row[t] = "live"
    /\ \E new \in [Triggers -> EventIds] :
          /\ \A t \in ses[s].flips : ses[s].seen[t] = "ok" => new[t] \notin open[t]
          /\ open' = [t \in Triggers |->
               IF t \in ses[s].flips /\ ses[s].seen[t] = "ok" THEN open[t] \cup {new[t]}
               ELSE open[t] \ ses[s].closing[t]]
    /\ ses' = [ses EXCEPT ![s].pc = "dispatch",
                          ![s].closing = [t \in Triggers |-> {}]]
    /\ UNCHANGED <<row, enabled, state, told>>

\* Every flipped trigger gets its new state, the closed events are resolved,
\* the new ones inserted.
Commit(s) ==
    /\ ses[s].pc = "loop" /\ ses[s].todo = {}
    /\ \A t \in ses[s].flips : row[t] = "live"
    /\ state' = [t \in Triggers |-> IF t \in ses[s].flips
                                    THEN Other(ses[s].seen[t]) ELSE state[t]]
    /\ \E new \in [Triggers -> EventIds] :
          /\ \A t \in ses[s].flips : ses[s].seen[t] = "ok" => new[t] \notin open[t]
          /\ open' = [t \in Triggers |->
               IF t \in ses[s].flips /\ ses[s].seen[t] = "ok" THEN open[t] \cup {new[t]}
               ELSE open[t] \ ses[s].closing[t]]
    /\ ses' = [ses EXCEPT ![s].pc = "dispatch",
                          ![s].closing = [t \in Triggers |-> {}]]
    /\ UNCHANGED <<row, enabled, told>>

\* Mutant: the failed session keeps its transaction, and its locks, open.
Rollback_leak(s) ==
    /\ ses[s].pc = "loop" /\ ses[s].todo = {}
    /\ \E t \in ses[s].flips : row[t] # "live"
    /\ ses' = [ses EXCEPT ![s].pc = "idle"]
    /\ UNCHANGED <<tables, told>>

\* A flipped trigger was deleted meanwhile: the flush fails and the whole
\* round is lost, its other flips too.
Rollback(s) ==
    /\ ses[s].pc = "loop" /\ ses[s].todo = {}
    /\ \E t \in ses[s].flips : row[t] # "live"
    /\ End(s)
    /\ UNCHANGED <<tables, told>>

\* Mutant: recoveries are not announced.
Dispatch_problemsOnly(s) ==
    /\ ses[s].pc = "dispatch"
    /\ told' = [t \in Triggers |->
                  IF t \in ses[s].flips /\ ses[s].seen[t] = "ok" THEN "problem" ELSE told[t]]
    /\ End(s)
    /\ UNCHANGED tables

\* The caller hands one alert per flip to the dispatcher.
Dispatch(s) ==
    /\ ses[s].pc = "dispatch"
    /\ told' = [t \in Triggers |-> IF t \in ses[s].flips
                                   THEN Other(ses[s].seen[t]) ELSE told[t]]
    /\ End(s)
    /\ UNCHANGED tables

\* Sessions closing the events of several triggers in different orders: the
\* database aborts one of a circle.
DeadlockVictim(s) ==
    /\ \E G \in SUBSET Sessions :
          s \in G /\ Deadlocked(G) /\ \A H \in SUBSET G : Deadlocked(H) => H = G
    /\ End(s)
    /\ UNCHANGED <<tables, told>>

\* The process or the connection dies: before the commit nothing is stored,
\* after it the alerts are lost.
SessionFails(s) ==
    /\ "failure" \in Faults
    /\ ses[s].pc # "idle"
    /\ told' = [t \in Triggers |-> IF ses[s].pc = "dispatch" /\ t \in ses[s].flips
                                   THEN Lost ELSE told[t]]
    /\ End(s)
    /\ UNCHANGED tables

Round(s) ==
    \/ Load(s) \/ Commit(s) \/ Rollback(s) \/ Dispatch(s) \/ DeadlockVictim(s)
    \/ \E t \in Triggers : Breach(s, t) \/ Recover(s, t)

\* Requests of the owner that touch no row a round holds for long.
Request(t) ==
    /\ CreateTrigger(t) \/ ("disable" \in Faults /\ UpdateTrigger(t))
    /\ UNCHANGED <<ses, told>>

\* The DELETE locks the trigger and its cascade waits for the events a round is
\* closing, while that round's commit waits for the trigger: the database
\* aborts one of the two.  Here it is the round; the request that is aborted
\* changes nothing.
Delete(t) ==
    /\ DeleteTrigger(t)
    /\ \A s \in Sessions : ses[s].closing[t] # {} => ses[s].todo = {}
    /\ ses' = [s \in Sessions |-> IF ses[s].closing[t] # {} THEN NoSession ELSE ses[s]]
    /\ told' = [told EXCEPT ![t] = "ok"]

Next ==
    \/ \E s \in Sessions : Round(s) \/ SessionFails(s)
    \/ \E t \in Triggers : Request(t) \/ Delete(t)

Spec == Init /\ [][Next]_vars

\* A session that has started runs on: each of its statements completes or
\* is aborted by the database, and the database serves the waiters of a row
\* lock in turn, hence strong fairness.
Running(s) == ses[s].pc # "idle" /\ Round(s)
FairSpec == Spec /\ \A s \in Sessions : SF_vars(Running(s))

-----------------------------------------------------------------------------
\* "Problem/OK state machine evaluated each probe, alerting on state changes":
\* the newest alert of a trigger names the state its row has, unless the
\* session that changed it has yet to hand its alerts over or died before it
\* could.
AnnouncedState ==
    \A t \in Triggers :
       row[t] = "live" /\ (\A s \in Sessions : ses[s].pc = "dispatch" => t \notin ses[s].flips)
          => told[t] \in {state[t], Lost}

\* A round never hangs on the row locks of another one.
RoundsEnd == \A s \in Sessions : (ses[s].pc # "idle") ~> (ses[s].pc = "idle")

Recovered(s, t) == Commit(s) /\ t \in ses[s].flips /\ ses[s].seen[t] = "problem"

\* An event left open by overlapping rounds is not lost for ever: if the
\* trigger keeps recovering, "any still-open problem(s)" are resolved
\* (ProblemEventService.close), the stray ones included.
StrayEventsHeal ==
    \A t \in Triggers, e \in EventIds :
       []<><<\E s \in Sessions : Recovered(s, t)>>_vars
          => ((e \in open[t]) ~> (e \notin open[t]))
=============================================================================
