-------------------------- MODULE ProblemTimeline ---------------------------
(***************************************************************************)
(* What the trigger tables promise their readers (the problem timeline,    *)
(* the host overview, the escalation engine): "trigger OK<->PROBLEM        *)
(* transitions are persisted as problem events (opened on a flip, resolved *)
(* on recovery)".  Here a round of evaluation is one atomic step.          *)
(*                                                                         *)
(* Only the events that are still open are kept: a resolved row stays in   *)
(* the table but no statement of the evaluation reads or writes it again.  *)
(* An acknowledgement changes neither the state nor what is open.          *)
(***************************************************************************)
EXTENDS FiniteSets

CONSTANTS Triggers,    \* trigger ids of one monitor or one item
          EventIds     \* ids of problem events

VARIABLES row,         \* "unborn", "live" or "deleted" per trigger
          enabled,     \* Trigger.is_enabled
          state,       \* Trigger.state
          open         \* ProblemEvent rows with resolved_at IS NULL

tables == <<row, enabled, state, open>>

States == {"ok", "problem"}

TimelineTypeOK ==
    /\ row \in [Triggers -> {"unborn", "live", "deleted"}]
    /\ enabled \in [Triggers -> BOOLEAN]
    /\ state \in [Triggers -> States]
    /\ open \in [Triggers -> SUBSET EventIds]
    /\ \A t \in Triggers : open[t] # {} => row[t] = "live"   \* foreign key

TimelineInit ==
    /\ row = [t \in Triggers |-> "unborn"]
    /\ enabled = [t \in Triggers |-> FALSE]
    /\ state = [t \in Triggers |-> "ok"]
    /\ open = [t \in Triggers |-> {}]

\* TriggerService.create / create_for_item: the state starts at OK.
CreateTrigger(t) ==
    /\ row[t] = "unborn"
    /\ row' = [row EXCEPT ![t] = "live"]
    /\ \E b \in BOOLEAN : enabled' = [enabled EXCEPT ![t] = b]
    /\ UNCHANGED <<state, open>>

\* TriggerService.update: enabling and disabling.  The state and the open
\* problem stay as they are.
UpdateTrigger(t) ==
    /\ row[t] = "live"
    /\ enabled' = [enabled EXCEPT ![t] = ~@]
    /\ UNCHANGED <<row, state, open>>

\* TriggerService.delete: the problem events go with the trigger (cascade).
DeleteTrigger(t) ==
    /\ row[t] = "live"
    /\ row' = [row EXCEPT ![t] = "deleted"]
    /\ enabled' = [enabled EXCEPT ![t] = FALSE]
    /\ state' = [state EXCEPT ![t] = "ok"]
    /\ open' = [open EXCEPT ![t] = {}]

\* A round of evaluation flips the triggers in F: each one that was OK gets
\* a new event of its own, each one that was in PROBLEM has its open events
\* resolved.
Flip(F) ==
    /\ F # {} /\ \A t \in F : row[t] = "live"
    /\ state' = [t \in Triggers |->
                   IF t \notin F THEN state[t]
                   ELSE IF state[t] = "ok" THEN "problem" ELSE "ok"]
    /\ \E new \in [Triggers -> EventIds] :
          /\ \A t \in F : state[t] = "ok" => new[t] \notin open[t]
          /\ open' = [t \in Triggers |->
                        IF t \notin F THEN open[t]
                        ELSE IF state[t] = "ok" THEN open[t] \cup {new[t]} ELSE {}]
    /\ UNCHANGED <<row, enabled>>

TimelineNext ==
    \/ \E t \in Triggers :
          CreateTrigger(t) \/ UpdateTrigger(t) \/ DeleteTrigger(t)
    \/ \E F \in SUBSET Triggers : Flip(F)

TimelineSpec == TimelineInit /\ [][TimelineNext]_tables

\* "opened on a flip, resolved on recovery": a trigger in PROBLEM has exactly
\* one open event, a trigger that is OK has none.
OneOpenIffProblem ==
    \A t \in Triggers :
       IF state[t] = "problem" THEN \E e \in EventIds : open[t] = {e}
                               ELSE open[t] = {}

\* A trigger in PROBLEM has an open event to show, acknowledge and escalate,
\* also when evaluations overlap and leave stray events behind.
ProblemHasEvent == \A t \in Triggers : state[t] = "problem" => open[t] # {}
=============================================================================
