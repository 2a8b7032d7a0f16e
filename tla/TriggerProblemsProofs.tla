----------------------- MODULE TriggerProblemsProofs ------------------------
(***************************************************************************)
(* Theorems about TriggerProblems.  For any number of overlapping          *)
(* sessions: typing, what survives their races, and that a trigger is all  *)
(* right as long as no two of them flip it.  For a monitor, whose triggers *)
(* only its own probe job evaluates: the sessions implement                *)
(* ProblemTimeline.                                                        *)
(***************************************************************************)
EXTENDS TriggerProblems, TLAPS

-----------------------------------------------------------------------------
(* Type correctness.                                                       *)

\* A session that has not started is well typed.
LEMMA NoSessionType == NoSession \in SessionType
  BY DEF NoSession, SessionType, States

\* The initial tables are empty.
LEMMA InitType == Init => TypeOK
  BY NoSessionType DEF Init, TimelineInit, TypeOK, TimelineTypeOK, States

\* Each step of a session keeps the session record well typed.
LEMMA SessionStepType ==
  ASSUME TypeOK, NEW s \in Sessions, NEW r \in SessionType, ses' = [ses EXCEPT ![s] = r]
  PROVE  ses' \in [Sessions -> SessionType]
  BY DEF TypeOK

\* A round of evaluation keeps the types: it inserts events only for live
\* triggers.
LEMMA RoundType ==
  ASSUME TypeOK, NEW s \in Sessions, Round(s) \/ SessionFails(s)
  PROVE  TypeOK'
  <1>0. ses[s] \in SessionType
    BY DEF TypeOK
  <1>1. CASE Load(s)
    <2>1. PICK F \in SUBSET Triggers : ses' = [ses EXCEPT ![s] =
             IF F = {} THEN NoSession
             ELSE [NoSession EXCEPT !.pc = "loop", !.todo = F,
                     !.seen = [t \in Triggers |-> IF t \in F THEN state[t] ELSE "ok"]]]
      BY <1>1 DEF Load
    <2>2. [t \in Triggers |-> IF t \in F THEN state[t] ELSE "ok"] \in [Triggers -> States]
      BY DEF TypeOK, TimelineTypeOK, States
    <2>3. ses'[s] \in SessionType
      BY <2>1, <2>2, NoSessionType DEF NoSession, SessionType, TypeOK
    <2> QED
      BY <1>1, <2>1, <2>3 DEF Load, TypeOK, TimelineTypeOK, tables
  <1>2. ASSUME NEW t \in Triggers, Breach(s, t)
        PROVE  TypeOK'
    <2> DEFINE r == [ses[s] EXCEPT !.todo = @ \ {t}, !.flips = @ \cup {t}]
    <2>1. r \in SessionType /\ ses' = [ses EXCEPT ![s] = r]
      BY <1>0, <1>2 DEF Breach, SessionType, TypeOK
    <2> QED
      BY <1>2, <2>1, SessionStepType DEF Breach, TypeOK, TimelineTypeOK, tables
  <1>3. ASSUME NEW t \in Triggers, Recover(s, t)
        PROVE  TypeOK'
    <2> DEFINE r == [ses[s] EXCEPT !.todo = @ \ {t}, !.flips = @ \cup {t},
                                   !.closing[t] = open[t]]
    <2>0. [ses[s].closing EXCEPT ![t] = open[t]] \in [Triggers -> SUBSET EventIds]
      BY <1>0 DEF SessionType, TypeOK, TimelineTypeOK
    <2>1. r \in SessionType
      BY <1>0, <2>0 DEF SessionType
    <2>2. ses' = [ses EXCEPT ![s] = r]
      BY <1>0, <1>3 DEF Recover, TypeOK
    <2> QED
      BY <1>3, <2>1, <2>2, SessionStepType DEF Recover, TypeOK, TimelineTypeOK, tables
  <1>4. CASE Commit(s)
    <2>1. state' \in [Triggers -> States]
      BY <1>4 DEF Commit, TypeOK, TimelineTypeOK, States, Other
    <2>2. PICK new \in [Triggers -> EventIds] : open' = [t \in Triggers |->
             IF t \in ses[s].flips /\ ses[s].seen[t] = "ok" THEN open[t] \cup {new[t]}
             ELSE open[t] \ ses[s].closing[t]]
      BY <1>4 DEF Commit
    <2>3. open' \in [Triggers -> SUBSET EventIds]
      BY <2>2 DEF TypeOK, TimelineTypeOK
    <2>4. \A t \in Triggers : open'[t] # {} => row[t] = "live"
      BY <1>4, <2>2 DEF Commit, TypeOK, TimelineTypeOK
    <2>5. ses' \in [Sessions -> SessionType]
      BY <1>0, <1>4 DEF Commit, SessionType, TypeOK
    <2> QED
      BY <1>4, <2>1, <2>3, <2>4, <2>5 DEF Commit, TypeOK, TimelineTypeOK
  <1>5. CASE Rollback(s) \/ DeadlockVictim(s) \/ SessionFails(s)
    BY <1>5, NoSessionType
       DEF Rollback, DeadlockVictim, SessionFails, End, TypeOK, TimelineTypeOK, tables
  <1>6. CASE Dispatch(s)
    <2>1. told' \in [Triggers -> States \cup {Lost}]
      BY <1>6 DEF Dispatch, TypeOK, States, Other
    <2> QED
      BY <1>6, <2>1, NoSessionType DEF Dispatch, End, TypeOK, TimelineTypeOK, tables
  <1> QED
    BY <1>1, <1>2, <1>3, <1>4, <1>5, <1>6 DEF Round

\* So do the owner's requests: the cascade removes the events of a deleted
\* trigger.
LEMMA OwnerType ==
  ASSUME TypeOK, NEW t \in Triggers, Request(t) \/ Delete(t)
  PROVE  TypeOK'
  <1>1. CASE Request(t)
    BY <1>1 DEF Request, CreateTrigger, UpdateTrigger, TypeOK, TimelineTypeOK
  <1>2. CASE Delete(t)
    BY <1>2, NoSessionType DEF Delete, DeleteTrigger, TypeOK, TimelineTypeOK, States
  <1> QED
    BY <1>1, <1>2

\* Type correctness is inductive.
LEMMA NextType == TypeOK /\ [Next]_vars => TypeOK'
  <1> SUFFICES ASSUME TypeOK, [Next]_vars PROVE TypeOK'
    OBVIOUS
  <1>1. CASE UNCHANGED vars
    BY <1>1 DEF vars, tables, TypeOK, TimelineTypeOK
  <1> QED
    BY <1>1, RoundType, OwnerType DEF Next

\* Any number of overlapping evaluations keeps the tables well formed; in
\* particular no open event outlives its trigger.
THEOREM TypeCorrect == Spec => []TypeOK
  BY InitType, NextType, PTL DEF Spec

-----------------------------------------------------------------------------
(* Any number of overlapping evaluations: the half of the timeline that    *)
(* survives.                                                               *)

\* A trigger that is disabled or gone is not selected, and a trigger that is
\* gone or yet to come is not in PROBLEM.
RowsInv == \A t \in Triggers : /\ enabled[t] => row[t] = "live"
                               /\ row[t] # "live" => state[t] = "ok"

\* The events a round is resolving are still open.
ClosingOpen == \A s \in Sessions, t \in Triggers : ses[s].closing[t] \subseteq open[t]

\* Two rounds never resolve events of one trigger at the same time.
OneCloser ==
    \A r, s \in Sessions, t \in Triggers :
       ses[r].closing[t] # {} /\ ses[s].closing[t] # {} => r = s

\* A round resolves events of a trigger only if its commit stores OK for it.
ClosesForOk ==
    \A s \in Sessions, t \in Triggers : ses[s].closing[t] # {} =>
       ses[s].pc = "loop" /\ t \in ses[s].flips /\ ses[s].seen[t] = "problem"

OverlapInv == /\ TypeOK
              /\ RowsInv
              /\ ProblemHasEvent
              /\ ClosingOpen
              /\ OneCloser
              /\ ClosesForOk

\* Initially nothing is open and nothing is being resolved.
LEMMA OverlapInit == Init => OverlapInv
  BY InitType DEF Init, TimelineInit, NoSession, OverlapInv, RowsInv, ProblemHasEvent,
     ClosingOpen, OneCloser, ClosesForOk

\* What the steps before a commit, and the end of a session, do to a session:
\* it locks nothing new, except the open events of a trigger nobody closes.
LEMMA LocksEffect ==
  ASSUME OverlapInv, NEW s \in Sessions, Round(s) \/ SessionFails(s), ~Commit(s)
  PROVE  /\ UNCHANGED tables
         /\ \A r \in Sessions \ {s} : ses'[r] = ses[r]
         /\ \A t \in Triggers : ses'[s].closing[t] # {} =>
               /\ ses'[s].pc = "loop" /\ t \in ses'[s].flips /\ ses'[s].seen[t] = "problem"
               /\ \/ ses'[s].closing[t] = ses[s].closing[t]
                  \/ ses'[s].closing[t] = open[t] /\ Locked(t) = {}
  <1>0. ses[s] \in SessionType
    BY DEF OverlapInv, TypeOK
  <1>1. CASE Load(s)
    <2>1. \A t \in Triggers : ses'[s].closing[t] = {}
      BY <1>1 DEF Load, NoSession, OverlapInv, TypeOK
    <2> QED
      BY <1>1, <2>1 DEF Load
  <1>2. CASE \E t \in Triggers : Breach(s, t)
    <2>1. PICK t \in Triggers : Breach(s, t)
      BY <1>2
    <2>0. /\ ses'[s] = [ses[s] EXCEPT !.todo = @ \ {t}, !.flips = @ \cup {t}]
          /\ ses[s].pc = "loop" /\ \A r \in Sessions \ {s} : ses'[r] = ses[r]
      BY <2>1 DEF Breach, OverlapInv, TypeOK
    <2>2. /\ ses'[s].pc = "loop" /\ ses'[s].flips = ses[s].flips \cup {t}
          /\ ses'[s].seen = ses[s].seen /\ ses'[s].closing = ses[s].closing
          /\ \A r \in Sessions \ {s} : ses'[r] = ses[r]
      BY <1>0, <2>0 DEF SessionType
    <2>3. UNCHANGED tables /\ ClosesForOk
      BY <2>1 DEF Breach, OverlapInv
    <2> QED
      BY <2>2, <2>3 DEF ClosesForOk
  <1>3. CASE \E t \in Triggers : Recover(s, t)
    <2>1. PICK t \in Triggers : Recover(s, t)
      BY <1>3
    <2>0. /\ ses'[s] = [ses[s] EXCEPT !.todo = @ \ {t}, !.flips = @ \cup {t},
                                      !.closing[t] = open[t]]
          /\ ses[s].pc = "loop" /\ \A r \in Sessions \ {s} : ses'[r] = ses[r]
      BY <2>1 DEF Recover, OverlapInv, TypeOK
    <2>2. /\ ses'[s].pc = "loop" /\ ses'[s].flips = ses[s].flips \cup {t}
          /\ ses'[s].seen = ses[s].seen
          /\ ses'[s].closing = [ses[s].closing EXCEPT ![t] = open[t]]
          /\ \A r \in Sessions \ {s} : ses'[r] = ses[r]
      BY <1>0, <2>0 DEF SessionType
    <2>3. /\ ses'[s].closing[t] = open[t]
          /\ \A u \in Triggers \ {t} : ses'[s].closing[u] = ses[s].closing[u]
      BY <1>0, <2>2 DEF SessionType
    <2>4. UNCHANGED tables /\ ClosesForOk /\ ses[s].seen[t] = "problem" /\ Locked(t) = {}
      BY <2>1 DEF Recover, OverlapInv
    <2>5. ASSUME NEW u \in Triggers, ses'[s].closing[u] # {}
          PROVE  /\ u \in ses'[s].flips /\ ses'[s].seen[u] = "problem"
                 /\ \/ ses'[s].closing[u] = ses[s].closing[u]
                    \/ ses'[s].closing[u] = open[u] /\ Locked(u) = {}
      BY <2>2, <2>3, <2>4, <2>5 DEF ClosesForOk
    <2> QED
      BY <2>2, <2>4, <2>5
  <1>4. CASE Rollback(s) \/ Dispatch(s) \/ DeadlockVictim(s) \/ SessionFails(s)
    <2>1. ses'[s] = NoSession /\ \A r \in Sessions \ {s} : ses'[r] = ses[r]
      BY <1>4 DEF Rollback, Dispatch, DeadlockVictim, SessionFails, End, OverlapInv, TypeOK
    <2>2. UNCHANGED tables
      BY <1>4 DEF Rollback, Dispatch, DeadlockVictim, SessionFails
    <2> QED
      BY <2>1, <2>2 DEF NoSession
  <1> QED
    BY <1>1, <1>2, <1>3, <1>4 DEF Round

\* Whoever stores PROBLEM inserts an event of its own; whoever resolves
\* events stores OK; and nobody resolves the events of another round.
LEMMA CommitOverlap ==
  ASSUME OverlapInv, NEW s \in Sessions, Commit(s)
  PROVE  RowsInv' /\ ProblemHasEvent' /\ ClosingOpen' /\ OneCloser' /\ ClosesForOk'
  <1>0. ses[s] \in SessionType /\ ses[s].flips \subseteq Triggers
    BY DEF OverlapInv, TypeOK, SessionType
  <1>1. PICK new \in [Triggers -> EventIds] : open' = [t \in Triggers |->
           IF t \in ses[s].flips /\ ses[s].seen[t] = "ok" THEN open[t] \cup {new[t]}
           ELSE open[t] \ ses[s].closing[t]]
    BY DEF Commit
  <1>2. /\ \A t \in Triggers : ses'[s].closing[t] = {}
        /\ \A r \in Sessions \ {s} : ses'[r] = ses[r]
        /\ UNCHANGED <<row, enabled>>
    BY DEF Commit, OverlapInv, TypeOK
  <1>3. RowsInv'
    BY <1>0, <1>2 DEF Commit, OverlapInv, RowsInv
  <1>4. ProblemHasEvent'
    <2> SUFFICES ASSUME NEW t \in Triggers, state'[t] = "problem" PROVE open'[t] # {}
      BY DEF ProblemHasEvent
    <2>1. CASE t \in ses[s].flips
      <3>1. ses[s].seen[t] = "ok"
        BY <1>0, <2>1 DEF Commit, Other, SessionType, States
      <3> QED
        BY <1>1, <2>1, <3>1
    <2>2. CASE t \notin ses[s].flips
      <3>1. state[t] = "problem" /\ ses[s].closing[t] = {}
        BY <2>2 DEF Commit, OverlapInv, ClosesForOk
      <3> QED
        BY <1>1, <2>2, <3>1 DEF OverlapInv, ProblemHasEvent
    <2> QED
      BY <2>1, <2>2
  <1>5. ClosingOpen'
    <2> SUFFICES ASSUME NEW r \in Sessions, NEW t \in Triggers, ses'[r].closing[t] # {}
                 PROVE  ses'[r].closing[t] \subseteq open'[t]
      BY DEF ClosingOpen
    <2>1. r # s /\ ses'[r] = ses[r]
      BY <1>2
    <2>2. ses[r].closing[t] \subseteq open[t] /\ ses[s].closing[t] = {}
      BY <2>1 DEF OverlapInv, ClosingOpen, OneCloser
    <2>3. open[t] \subseteq open'[t]
      BY <1>1, <2>2
    <2> QED
      BY <2>1, <2>2, <2>3
  <1>6. OneCloser' /\ ClosesForOk'
    BY <1>2 DEF OverlapInv, OneCloser, ClosesForOk
  <1> QED
    BY <1>3, <1>4, <1>5, <1>6

\* The requests of the owner: a deletion takes the events of the trigger away
\* and ends the round that was resolving them.
LEMMA OwnerOverlap ==
  ASSUME OverlapInv, NEW t \in Triggers, Request(t) \/ Delete(t)
  PROVE  RowsInv' /\ ProblemHasEvent' /\ ClosingOpen' /\ OneCloser' /\ ClosesForOk'
  <1> USE DEF OverlapInv, RowsInv, ProblemHasEvent, ClosingOpen, OneCloser, ClosesForOk
  <1>1. CASE Request(t)
    BY <1>1 DEF Request, CreateTrigger, UpdateTrigger, TypeOK, TimelineTypeOK
  <1>2. CASE Delete(t)
    <2>1. /\ \A u \in Triggers \ {t} : /\ row'[u] = row[u] /\ enabled'[u] = enabled[u]
                                       /\ state'[u] = state[u] /\ open'[u] = open[u]
          /\ row'[t] = "deleted" /\ ~enabled'[t] /\ state'[t] = "ok" /\ open'[t] = {}
      BY <1>2 DEF Delete, DeleteTrigger, TypeOK, TimelineTypeOK
    <2>2. \A s \in Sessions : \/ ses'[s] = NoSession
                              \/ ses'[s] = ses[s] /\ ses[s].closing[t] = {}
      BY <1>2 DEF Delete
    <2>3. \A u \in Triggers : NoSession.closing[u] = {}
      BY DEF NoSession
    <2>4. RowsInv' /\ ProblemHasEvent'
      BY <2>1
    <2>5. ClosingOpen'
      BY <2>1, <2>2, <2>3
    <2>6. OneCloser' /\ ClosesForOk'
      BY <2>2, <2>3
    <2> QED
      BY <2>4, <2>5, <2>6
  <1> QED
    BY <1>1, <1>2

\* The invariant of overlapping evaluations is inductive.
LEMMA OverlapNext == OverlapInv /\ [Next]_vars => OverlapInv'
  <1> SUFFICES ASSUME OverlapInv, [Next]_vars
               PROVE  RowsInv' /\ ProblemHasEvent' /\ ClosingOpen' /\ OneCloser' /\ ClosesForOk'
    BY NextType DEF OverlapInv
  <1>1. ASSUME NEW s \in Sessions, Round(s) \/ SessionFails(s), ~Commit(s)
        PROVE  RowsInv' /\ ProblemHasEvent' /\ ClosingOpen' /\ OneCloser' /\ ClosesForOk'
    <2>1. RowsInv' /\ ProblemHasEvent'
      BY <1>1, LocksEffect DEF OverlapInv, RowsInv, ProblemHasEvent, tables
    <2>2. ClosingOpen'
      BY <1>1, LocksEffect DEF OverlapInv, ClosingOpen, tables
    <2>3. OneCloser'
      <3>1. \A t \in Triggers : Locked(t) = {} => \A r \in Sessions : ses[r].closing[t] = {}
        BY DEF Locked
      <3> QED
        BY <1>1, <3>1, LocksEffect DEF OverlapInv, OneCloser
    <2>4. ClosesForOk'
      BY <1>1, LocksEffect DEF OverlapInv, ClosesForOk
    <2> QED
      BY <2>1, <2>2, <2>3, <2>4
  <1>2. CASE UNCHANGED vars
    BY <1>2 DEF vars, tables, OverlapInv, RowsInv, ProblemHasEvent, ClosingOpen, OneCloser,
                ClosesForOk
  <1> QED
    BY <1>1, <1>2, CommitOverlap, OwnerOverlap DEF Next

\* However many samples of an item are evaluated at the same time, a trigger
\* in PROBLEM always has an open event: the races that leave stray events
\* behind never leave a problem nobody can see, acknowledge or escalate.
THEOREM ProblemsVisible == Spec => []ProblemHasEvent
  <1>1. OverlapInv => ProblemHasEvent
    BY DEF OverlapInv
  <1> QED
    BY <1>1, OverlapInit, OverlapNext, PTL DEF Spec

\* No event is resolved twice: the row locks keep the rounds apart, and the
\* events a round is about to resolve are open until its commit.
THEOREM ResolvedOnce == Spec => [](ClosingOpen /\ OneCloser)
  <1>1. OverlapInv => ClosingOpen /\ OneCloser
    BY DEF OverlapInv
  <1> QED
    BY <1>1, OverlapInit, OverlapNext, PTL DEF Spec
\* Only a session in its loop has anything to do; it never has nothing to flip.
DoneInv == \A s \in Sessions : IF ses[s].pc = "loop" THEN ses[s].todo \cup ses[s].flips # {}
                                                     ELSE ses[s].todo = {}

\* A session enters its loop with something to flip and leaves it with nothing
\* to do.
LEMMA DoneNext == TypeOK /\ DoneInv /\ [Next]_vars => DoneInv'
  <1> SUFFICES ASSUME TypeOK, DoneInv, [Next]_vars PROVE DoneInv'
    OBVIOUS
  <1>1. ASSUME NEW s \in Sessions, Round(s) \/ SessionFails(s)
        PROVE  DoneInv'
    <2>0. ses[s] \in SessionType
      BY DEF TypeOK
    <2>1. CASE Load(s)
      BY <2>1 DEF Load, NoSession, TypeOK, DoneInv
    <2>2. CASE \E t \in Triggers : Breach(s, t) \/ Recover(s, t)
      <3>1. PICK t \in Triggers : Breach(s, t) \/ Recover(s, t)
        BY <2>2
      <3>2. /\ \/ ses'[s] = [ses[s] EXCEPT !.todo = @ \ {t}, !.flips = @ \cup {t}]
               \/ ses'[s] = [ses[s] EXCEPT !.todo = @ \ {t}, !.flips = @ \cup {t},
                                           !.closing[t] = open[t]]
            /\ ses[s].pc = "loop" /\ \A r \in Sessions \ {s} : ses'[r] = ses[r]
        BY <3>1 DEF Breach, Recover, TypeOK
      <3>3. ses'[s].pc = "loop" /\ ses'[s].flips = ses[s].flips \cup {t}
        BY <2>0, <3>2 DEF SessionType
      <3> QED
        BY <3>2, <3>3 DEF DoneInv
    <2>3. CASE Commit(s)
      <3>1. /\ ses'[s].pc = "dispatch" /\ ses'[s].todo = {}
            /\ \A r \in Sessions \ {s} : ses'[r] = ses[r]
        BY <2>0, <2>3 DEF Commit, TypeOK, SessionType
      <3> QED
        BY <3>1 DEF DoneInv
    <2>4. CASE Rollback(s) \/ Dispatch(s) \/ DeadlockVictim(s) \/ SessionFails(s)
      BY <2>4 DEF Rollback, Dispatch, DeadlockVictim, SessionFails, End, NoSession, TypeOK,
                  DoneInv
    <2> QED
      BY <1>1, <2>1, <2>2, <2>3, <2>4 DEF Round
  <1>2. ASSUME NEW t \in Triggers, Request(t) \/ Delete(t)
        PROVE  DoneInv'
    BY <1>2 DEF Request, Delete, NoSession, DoneInv
  <1>3. CASE UNCHANGED vars
    BY <1>3 DEF vars, DoneInv
  <1> QED
    BY <1>1, <1>2, <1>3 DEF Next

-----------------------------------------------------------------------------
(* Overlapping evaluations that leave one trigger alone: nothing but two   *)
(* sessions flipping the same trigger disturbs its timeline.               *)

\* s has loaded t, is going to flip it, and has not committed.
Evaluates(s, t) == ses[s].pc = "loop" /\ t \in ses[s].todo \cup ses[s].flips

\* Sessions may overlap, but not two of them that flip t.
Alone(t) == \A r, s \in Sessions : Evaluates(r, t) /\ Evaluates(s, t) => r = s

\* OneOpenIffProblem, of one trigger.
OneOpen(t) == IF state[t] = "problem" THEN \E e \in EventIds : open[t] = {e}
                                      ELSE open[t] = {}

\* What s loaded of t is still in its row, and the events that s has locked
\* are all the open ones.
Fresh(s, t) ==
    Evaluates(s, t) =>
       /\ row[t] # "unborn"
       /\ row[t] = "live" =>
             /\ ses[s].seen[t] = state[t]
             /\ t \in ses[s].flips /\ state[t] = "problem" => ses[s].closing[t] = open[t]

AllFresh(t) == \A s \in Sessions : Fresh(s, t)

AloneInv(t) == OneOpen(t) /\ AllFresh(t)

\* What the steps before a commit, and the end of a session, do to what the
\* session has loaded of one trigger.
LEMMA SnapshotEffect ==
  ASSUME OverlapInv, NEW s \in Sessions, Round(s) \/ SessionFails(s), ~Commit(s),
         NEW t \in Triggers, Evaluates(s, t)'
  PROVE  \/ row[t] = "live" /\ ses'[s].seen[t] = state[t] /\ t \notin ses'[s].flips
         \/ /\ Evaluates(s, t) /\ ses'[s].seen = ses[s].seen
            /\ \/ ses'[s].closing[t] = ses[s].closing[t]
                  /\ (t \in ses'[s].flips => t \in ses[s].flips \/ ses[s].seen[t] = "ok")
               \/ ses'[s].closing[t] = open[t]
  <1>0. ses[s] \in SessionType /\ ses'[s].pc = "loop"
    BY DEF OverlapInv, TypeOK, Evaluates
  <1>1. CASE Load(s)
    <2>1. PICK F \in SUBSET {u \in Triggers : enabled[u] /\ HasRoom(u)} : ses'[s] =
             IF F = {} THEN NoSession
             ELSE [NoSession EXCEPT !.pc = "loop", !.todo = F,
                     !.seen = [u \in Triggers |-> IF u \in F THEN state[u] ELSE "ok"]]
      BY <1>1 DEF Load, OverlapInv, TypeOK
    <2>2. F # {}
      BY <1>0, <2>1 DEF NoSession
    <2>3. ses'[s].todo = F /\ ses'[s].flips = {}
          /\ ses'[s].seen = [u \in Triggers |-> IF u \in F THEN state[u] ELSE "ok"]
      BY <2>1, <2>2 DEF NoSession
    <2>4. t \in F
      BY <2>3 DEF Evaluates
    <2> QED
      BY <2>1, <2>3, <2>4 DEF OverlapInv, RowsInv
  <1>2. ASSUME NEW u \in Triggers, Breach(s, u)
        PROVE  /\ Evaluates(s, t) /\ ses'[s].seen = ses[s].seen
               /\ ses'[s].closing[t] = ses[s].closing[t]
               /\ t \in ses'[s].flips => t \in ses[s].flips \/ ses[s].seen[t] = "ok"
    <2>1. ses'[s] = [ses[s] EXCEPT !.todo = @ \ {u}, !.flips = @ \cup {u}]
          /\ ses[s].pc = "loop" /\ u \in ses[s].todo /\ ses[s].seen[u] = "ok"
      BY <1>2 DEF Breach, OverlapInv, TypeOK
    <2>2. /\ ses'[s].todo = ses[s].todo \ {u} /\ ses'[s].flips = ses[s].flips \cup {u}
          /\ ses'[s].seen = ses[s].seen /\ ses'[s].closing = ses[s].closing
      BY <1>0, <2>1 DEF SessionType
    <2> QED
      BY <2>1, <2>2 DEF Evaluates
  <1>3. ASSUME NEW u \in Triggers, Recover(s, u)
        PROVE  /\ Evaluates(s, t) /\ ses'[s].seen = ses[s].seen
               /\ \/ ses'[s].closing[t] = ses[s].closing[t]
                     /\ (t \in ses'[s].flips => t \in ses[s].flips)
                  \/ ses'[s].closing[t] = open[t]
    <2>1. ses'[s] = [ses[s] EXCEPT !.todo = @ \ {u}, !.flips = @ \cup {u},
                                   !.closing[u] = open[u]]
          /\ ses[s].pc = "loop" /\ u \in ses[s].todo
      BY <1>3 DEF Recover, OverlapInv, TypeOK
    <2>2. /\ ses'[s].todo = ses[s].todo \ {u} /\ ses'[s].flips = ses[s].flips \cup {u}
          /\ ses'[s].seen = ses[s].seen
          /\ ses'[s].closing = [ses[s].closing EXCEPT ![u] = open[u]]
      BY <1>0, <2>1 DEF SessionType
    <2>3. IF t = u THEN ses'[s].closing[t] = open[t]
                   ELSE ses'[s].closing[t] = ses[s].closing[t]
      BY <1>0, <2>2 DEF SessionType
    <2> QED
      BY <2>1, <2>2, <2>3 DEF Evaluates
  <1>4. ~(Rollback(s) \/ Dispatch(s) \/ DeadlockVictim(s) \/ SessionFails(s))
    BY <1>0 DEF Rollback, Dispatch, DeadlockVictim, SessionFails, End, OverlapInv, TypeOK,
                NoSession
  <1> QED
    BY <1>1, <1>2, <1>3, <1>4 DEF Round

\* The commit of a session that flips t: the only one to touch it.
LEMMA CommitAlone ==
  ASSUME OverlapInv, NEW s \in Sessions, Commit(s), NEW t \in Triggers,
         AllFresh(t), Alone(t)
  PROVE  AllFresh(t)' /\ (OneOpen(t) \/ Recovered(s, t) => OneOpen(t)')
  <1>0. /\ ses[s] \in SessionType /\ ses[s].pc = "loop" /\ ses'[s].pc = "dispatch"
        /\ \A r \in Sessions \ {s} : ses'[r] = ses[r]
        /\ UNCHANGED row
    BY DEF Commit, OverlapInv, TypeOK
  <1>1. PICK new \in [Triggers -> EventIds] : open' = [u \in Triggers |->
           IF u \in ses[s].flips /\ ses[s].seen[u] = "ok" THEN open[u] \cup {new[u]}
           ELSE open[u] \ ses[s].closing[u]]
    BY DEF Commit
  <1>2. state'[t] = IF t \in ses[s].flips THEN Other(ses[s].seen[t]) ELSE state[t]
    BY DEF Commit
  <1>3. CASE t \in ses[s].flips
    <2>1. row[t] = "live" /\ Evaluates(s, t) /\ Fresh(s, t)
      BY <1>0, <1>3 DEF Commit, AllFresh, Evaluates
    <2>2. /\ ses[s].seen[t] = state[t] /\ state[t] \in States
          /\ state[t] = "problem" => ses[s].closing[t] = open[t]
      BY <1>0, <1>3, <2>1 DEF Fresh, SessionType
    <2>3. OneOpen(t) \/ Recovered(s, t) => OneOpen(t)'
      BY <1>1, <1>2, <1>3, <2>2 DEF OneOpen, Other, States, Recovered
    <2>4. \A r \in Sessions : ~Evaluates(r, t)'
      BY <1>0, <2>1 DEF Alone, Evaluates
    <2> QED
      BY <2>3, <2>4 DEF AllFresh, Fresh
  <1>4. CASE t \notin ses[s].flips
    <2>1. ses[s].closing[t] = {}
      BY <1>4 DEF OverlapInv, ClosesForOk
    <2>2. open'[t] = open[t] /\ state'[t] = state[t]
      BY <1>1, <1>2, <1>4, <2>1
    <2>3. ~Evaluates(s, t)'
      BY <1>0 DEF Evaluates
    <2> QED
      BY <1>0, <1>4, <2>2, <2>3 DEF AllFresh, OneOpen, Fresh, Evaluates, Recovered
  <1> QED
    BY <1>3, <1>4

\* The owner's requests, about this trigger or another one.
LEMMA OwnerAlone ==
  ASSUME OverlapInv, NEW u \in Triggers, Request(u) \/ Delete(u), NEW t \in Triggers,
         AllFresh(t)
  PROVE  AllFresh(t)' /\ (OneOpen(t) => OneOpen(t)')
  <1>1. CASE Request(u)
    <2>1. /\ UNCHANGED <<state, open, ses>>
          /\ row'[t] = row[t] \/ (row[t] = "unborn" /\ row'[t] = "live")
      BY <1>1 DEF Request, CreateTrigger, UpdateTrigger, OverlapInv, TypeOK, TimelineTypeOK
    <2> QED
      BY <2>1 DEF AllFresh, OneOpen, Fresh, Evaluates
  <1>2. CASE Delete(u)
    <2>1. IF t = u THEN row'[t] = "deleted" /\ state'[t] = "ok" /\ open'[t] = {}
                   ELSE row'[t] = row[t] /\ state'[t] = state[t] /\ open'[t] = open[t]
      BY <1>2 DEF Delete, DeleteTrigger, OverlapInv, TypeOK, TimelineTypeOK
    <2>2. OneOpen(t) => OneOpen(t)'
      BY <2>1 DEF OneOpen
    <2>3. ASSUME NEW s \in Sessions
          PROVE  Fresh(s, t)'
      <3>1. CASE ses'[s] = NoSession
        BY <3>1 DEF Fresh, Evaluates, NoSession
      <3>2. CASE ses'[s] = ses[s]
        BY <2>1, <3>2 DEF AllFresh, Fresh, Evaluates
      <3> QED
        BY <1>2, <3>1, <3>2 DEF Delete
    <2> QED
      BY <2>2, <2>3 DEF AllFresh
  <1> QED
    BY <1>1, <1>2

\* A trigger that is left alone stays exact, and becomes exact by recovering.
LEMMA AloneStep ==
  ASSUME OverlapInv, [Next]_vars, NEW t \in Triggers, AllFresh(t), Alone(t)
  PROVE  /\ AllFresh(t)'
         /\ OneOpen(t) \/ (\E s \in Sessions : Recovered(s, t)) => OneOpen(t)'
  <1>1. ASSUME NEW s \in Sessions, Round(s) \/ SessionFails(s), ~Commit(s)
        PROVE  AllFresh(t)' /\ (OneOpen(t) => OneOpen(t)')
    <2>1. UNCHANGED tables /\ \A r \in Sessions \ {s} : ses'[r] = ses[r]
      BY <1>1, LocksEffect
    <2>2. (OneOpen(t) => OneOpen(t)') /\ \A r \in Sessions \ {s} : Fresh(r, t)'
      BY <2>1 DEF AllFresh, OneOpen, Fresh, Evaluates, tables
    <2>3. ASSUME Evaluates(s, t)'
          PROVE  Fresh(s, t)'
      <3>1. ses[s].seen \in [Triggers -> States] /\ Fresh(s, t)
        BY DEF OverlapInv, TypeOK, SessionType, AllFresh
      <3> QED
        BY <1>1, <2>1, <2>3, <3>1, SnapshotEffect DEF Fresh, tables, States
    <2> QED
      BY <2>2, <2>3 DEF AllFresh, Fresh
  <1>2. ASSUME UNCHANGED vars
        PROVE  AllFresh(t)' /\ (OneOpen(t) => OneOpen(t)')
    BY <1>2 DEF vars, tables, AllFresh, OneOpen, Fresh, Evaluates
  <1>3. AllFresh(t)' /\ (OneOpen(t) => OneOpen(t)')
    BY <1>1, <1>2, CommitAlone, OwnerAlone DEF Next
  <1>4. (\E s \in Sessions : Recovered(s, t)) => OneOpen(t)'
    BY CommitAlone DEF Recovered
  <1> QED
    BY <1>3, <1>4

\* The invariant of a trigger that is left alone.
LEMMA AloneNext ==
  ASSUME OverlapInv, [Next]_vars, NEW t \in Triggers, AloneInv(t), Alone(t)
  PROVE  AloneInv(t)'
  BY AloneStep DEF AloneInv

\* The timeline of a trigger is exact as long as no two evaluations that flip
\* this trigger overlap, however many others do: the race of two samples is
\* the only thing that can leave a stray event.
THEOREM ExactWhenAlone ==
  ASSUME NEW t \in Triggers
  PROVE  Spec /\ []Alone(t) => []OneOpen(t)
  <1>1. Init => AloneInv(t)
    BY DEF Init, TimelineInit, NoSession, AloneInv, AllFresh, OneOpen, Fresh, Evaluates
  <1>2. OverlapInv /\ [Next]_vars /\ AloneInv(t) /\ Alone(t) => AloneInv(t)'
    BY AloneNext
  <1>3. AloneInv(t) => OneOpen(t)
    BY DEF AloneInv
  <1> QED
    BY <1>1, <1>2, <1>3, OverlapInit, OverlapNext, PTL DEF Spec

\* Races heal: from any moment at which nobody evaluates a trigger, and unless
\* evaluations of it overlap again, its first recovery resolves whatever stray
\* events earlier races left, and from then on its timeline is exact.
THEOREM RecoveryHeals ==
  ASSUME NEW t \in Triggers
  PROVE  Spec => []((\A s \in Sessions : ~Evaluates(s, t)) /\ []Alone(t) =>
                      [][OneOpen(t) \/ (\E s \in Sessions : Recovered(s, t)) => OneOpen(t)']_vars)
  <1> DEFINE Quiet == \A s \in Sessions : ~Evaluates(s, t)
  <1>1. Quiet => AllFresh(t)
    BY DEF AllFresh, Fresh
  <1>2. OverlapInv /\ [Next]_vars /\ AllFresh(t) /\ Alone(t) => AllFresh(t)'
    BY AloneStep
  <1>3. OverlapInv /\ [Next]_vars /\ AllFresh(t) /\ Alone(t) =>
           [OneOpen(t) \/ (\E s \in Sessions : Recovered(s, t)) => OneOpen(t)']_vars
    BY AloneStep
  <1> QED
    BY <1>1, <1>2, <1>3, OverlapInit, OverlapNext, PTL DEF Spec

\* The commit is the flip of the atomic timeline.
LEMMA CommitFlips ==
  ASSUME OverlapInv, DoneInv, NEW s \in Sessions, Commit(s), \A t \in Triggers : AloneInv(t)
  PROVE  Flip(ses[s].flips)
  <1>0. /\ ses[s] \in SessionType /\ ses[s].pc = "loop" /\ ses[s].todo = {}
        /\ \A t \in ses[s].flips : t \in Triggers /\ row[t] = "live" /\ Fresh(s, t)
    BY DEF Commit, OverlapInv, TypeOK, SessionType, AloneInv, AllFresh
  <1>1. ses[s].flips # {}
    BY <1>0 DEF DoneInv
  <1>2. \A t \in ses[s].flips : /\ ses[s].seen[t] = state[t] /\ state[t] \in States
                                /\ state[t] = "problem" => ses[s].closing[t] = open[t]
    BY <1>0 DEF Fresh, Evaluates, SessionType
  <1>3. \A t \in Triggers \ ses[s].flips : ses[s].closing[t] = {}
    BY DEF OverlapInv, ClosesForOk
  <1>4. state' = [t \in Triggers |->
                    IF t \notin ses[s].flips THEN state[t]
                    ELSE IF state[t] = "ok" THEN "problem" ELSE "ok"]
    BY <1>2 DEF Commit, Other
  <1>5. PICK new \in [Triggers -> EventIds] :
           /\ \A t \in ses[s].flips : ses[s].seen[t] = "ok" => new[t] \notin open[t]
           /\ open' = [t \in Triggers |->
                IF t \in ses[s].flips /\ ses[s].seen[t] = "ok" THEN open[t] \cup {new[t]}
                ELSE open[t] \ ses[s].closing[t]]
    BY DEF Commit
  <1>6. ASSUME NEW t \in Triggers
        PROVE  open'[t] = IF t \notin ses[s].flips THEN open[t]
                          ELSE IF state[t] = "ok" THEN open[t] \cup {new[t]} ELSE {}
    BY <1>2, <1>3, <1>5 DEF States
  <1>7. open' = [t \in Triggers |->
                   IF t \notin ses[s].flips THEN open[t]
                   ELSE IF state[t] = "ok" THEN open[t] \cup {new[t]} ELSE {}]
    BY <1>5, <1>6
  <1>8. \A t \in ses[s].flips : state[t] = "ok" => new[t] \notin open[t]
    BY <1>2, <1>5
  <1> QED
    BY <1>0, <1>1, <1>4, <1>7, <1>8 DEF Flip, Commit

\* Every step of the sessions is a step of the atomic timeline or leaves the
\* tables alone.
LEMMA StepRefines ==
  ASSUME OverlapInv, DoneInv, [Next]_vars, \A t \in Triggers : AloneInv(t)
  PROVE  [TimelineNext]_tables
  <1>1. ASSUME NEW s \in Sessions, Round(s) \/ SessionFails(s), ~Commit(s)
        PROVE  UNCHANGED tables
    BY <1>1, LocksEffect
  <1>2. ASSUME NEW t \in Triggers, Request(t) \/ Delete(t)
        PROVE  TimelineNext
    BY <1>2 DEF Request, Delete, TimelineNext
  <1>3. ASSUME NEW s \in Sessions, Commit(s)
        PROVE  TimelineNext
    <2>1. ses[s].flips \in SUBSET Triggers
      BY DEF OverlapInv, TypeOK, SessionType
    <2> QED
      BY <1>3, <2>1, CommitFlips DEF TimelineNext
  <1>4. CASE UNCHANGED vars
    BY <1>4 DEF vars
  <1> QED
    BY <1>1, <1>2, <1>3, <1>4 DEF Next

\* The interleaved statements of rounds and requests implement the timeline in
\* which a round is one atomic step, as long as rounds that overlap flip
\* different triggers.
THEOREM RefinementWhenAlone == Spec /\ [](\A t \in Triggers : Alone(t)) => TimelineSpec
  <1> DEFINE Inv == DoneInv /\ \A t \in Triggers : AloneInv(t)
             Apart == \A t \in Triggers : Alone(t)
  <1>1. Init => Inv /\ TimelineInit
    BY DEF Init, TimelineInit, NoSession, AloneInv, AllFresh, OneOpen, Fresh, Evaluates, DoneInv
  <1>2. OverlapInv /\ Inv /\ [Next]_vars /\ Apart => Inv'
    BY AloneNext, DoneNext DEF OverlapInv
  <1>3. OverlapInv /\ Inv /\ [Next]_vars => [TimelineNext]_tables
    BY StepRefines
  <1> QED
    BY <1>1, <1>2, <1>3, OverlapInit, OverlapNext, PTL DEF Spec, TimelineSpec

-----------------------------------------------------------------------------
(* Its alerts.                                                             *)

\* s has stored a new state of t and is going to announce it.
Announces(s, t) == ses[s].pc = "dispatch" /\ t \in ses[s].flips

\* No session flips t before the one that flipped it last has sent its alert.
AloneToTheEnd(t) ==
    \A r, s \in {q \in Sessions : Evaluates(q, t) \/ Announces(q, t)} : r = s

\* AnnouncedState, of one trigger.
Announced(t) ==
    row[t] = "live" /\ (\A s \in Sessions : ~Announces(s, t)) => told[t] \in {state[t], Lost}

\* What is about to be announced is stored; nothing was said of a trigger that
\* is yet to be created.
ToldInv(t) ==
    /\ Announced(t)
    /\ row[t] = "unborn" => told[t] = "ok"
    /\ \A s \in Sessions : Announces(s, t) =>
          row[t] # "unborn" /\ (row[t] = "live" => state[t] = Other(ses[s].seen[t]))

\* The steps of a session before its commit announce nothing.
LEMMA QuietStep ==
  ASSUME OverlapInv, DoneInv, NEW s \in Sessions, Round(s), ~Commit(s), ~Dispatch(s),
         NEW t \in Triggers
  PROVE  /\ UNCHANGED <<row, state, told>>
         /\ \A r \in Sessions \ {s} : ses'[r] = ses[r]
         /\ ~Announces(s, t) /\ ~Announces(s, t)'
  <1>0. ses[s] \in SessionType
    BY DEF OverlapInv, TypeOK
  <1>1. CASE Load(s)
    BY <1>1 DEF Load, tables, NoSession, Announces, OverlapInv, TypeOK
  <1>2. CASE \E u \in Triggers : Breach(s, u) \/ Recover(s, u)
    <2>1. ses[s].pc = "loop" /\ ses'[s].pc = "loop"
      BY <1>0, <1>2 DEF Breach, Recover, OverlapInv, TypeOK, SessionType
    <2> QED
      BY <1>2, <2>1 DEF Breach, Recover, tables, Announces, OverlapInv, TypeOK
  <1>3. CASE Rollback(s) \/ DeadlockVictim(s)
    <2>1. ses[s].pc = "loop"
      BY <1>3 DEF Rollback, DeadlockVictim, Deadlocked, Waits, DoneInv
    <2>2. ses'[s] = NoSession /\ \A r \in Sessions \ {s} : ses'[r] = ses[r]
      BY <1>3 DEF Rollback, DeadlockVictim, End, OverlapInv, TypeOK
    <2> QED
      BY <1>3, <2>1, <2>2 DEF Rollback, DeadlockVictim, tables, Announces, NoSession
  <1> QED
    BY <1>1, <1>2, <1>3 DEF Round

\* A session that sends its alerts, or dies before.
LEMMA EndTold ==
  ASSUME OverlapInv, NEW s \in Sessions, Dispatch(s) \/ SessionFails(s),
         NEW t \in Triggers, ToldInv(t)
  PROVE  ToldInv(t)'
  <1>1. /\ UNCHANGED <<row, state>> /\ ses'[s] = NoSession
        /\ \A r \in Sessions \ {s} : ses'[r] = ses[r]
    BY DEF Dispatch, SessionFails, End, tables, OverlapInv, TypeOK
  <1>2. ~Announces(s, t)' /\ \A r \in Sessions \ {s} : Announces(r, t)' = Announces(r, t)
    BY <1>1 DEF Announces, NoSession
  <1>3. CASE Announces(s, t)
    <2>1. told'[t] \in {Other(ses[s].seen[t]), Lost}
      BY <1>3 DEF Dispatch, SessionFails, Announces
    <2> QED
      BY <1>1, <1>2, <1>3, <2>1 DEF ToldInv, Announced
  <1>4. CASE ~Announces(s, t)
    <2>1. told'[t] = told[t]
      BY <1>4 DEF Dispatch, SessionFails, Announces
    <2> QED
      BY <1>1, <1>2, <1>4, <2>1 DEF ToldInv, Announced
  <1> QED
    BY <1>3, <1>4

\* The commit: what it stores is what it is going to announce.
LEMMA CommitTold ==
  ASSUME OverlapInv, NEW s \in Sessions, Commit(s), NEW t \in Triggers, AloneToTheEnd(t),
         AloneInv(t), ToldInv(t)
  PROVE  ToldInv(t)'
  <1>0. ses[s] \in SessionType /\ ses[s].pc = "loop"
    BY DEF Commit, OverlapInv, TypeOK
  <1>1. /\ ses'[s].pc = "dispatch" /\ ses'[s].flips = ses[s].flips
        /\ ses'[s].seen = ses[s].seen
        /\ \A r \in Sessions \ {s} : ses'[r] = ses[r]
        /\ UNCHANGED <<row, told>>
    BY <1>0 DEF Commit, OverlapInv, TypeOK, SessionType
  <1>2. state'[t] = IF t \in ses[s].flips THEN Other(ses[s].seen[t]) ELSE state[t]
    BY DEF Commit
  <1>3. CASE t \in ses[s].flips
    <2>1. row[t] = "live" /\ Evaluates(s, t) /\ Announces(s, t)'
      BY <1>0, <1>1, <1>3 DEF Commit, Evaluates, Announces
    <2>2. \A r \in Sessions \ {s} : ~Announces(r, t)'
      BY <1>1, <2>1 DEF AloneToTheEnd, Announces
    <2> QED
      BY <1>1, <1>2, <1>3, <2>1, <2>2 DEF ToldInv, Announced
  <1>4. CASE t \notin ses[s].flips
    <2>1. \A r \in Sessions : Announces(r, t)' = Announces(r, t)
      BY <1>0, <1>1, <1>4 DEF Announces
    <2> QED
      BY <1>0, <1>1, <1>2, <1>4, <2>1 DEF ToldInv, Announced, Announces
  <1> QED
    BY <1>3, <1>4

\* The owner's requests.
LEMMA OwnerTold ==
  ASSUME OverlapInv, NEW u \in Triggers, Request(u) \/ Delete(u), NEW t \in Triggers,
         ToldInv(t)
  PROVE  ToldInv(t)'
  <1>1. CASE Request(u)
    <2>1. /\ UNCHANGED <<state, told, ses>>
          /\ row'[t] = row[t] \/ (row[t] = "unborn" /\ row'[t] = "live")
      BY <1>1 DEF Request, CreateTrigger, UpdateTrigger, OverlapInv, TypeOK, TimelineTypeOK
    <2>2. row[t] = "unborn" => state[t] = told[t]
      BY DEF OverlapInv, RowsInv, ToldInv
    <2> QED
      BY <2>1, <2>2 DEF ToldInv, Announced, Announces
  <1>2. CASE Delete(u)
    <2>1. IF t = u THEN row'[t] = "deleted"
                   ELSE row'[t] = row[t] /\ state'[t] = state[t] /\ told'[t] = told[t]
      BY <1>2 DEF Delete, DeleteTrigger, OverlapInv, TypeOK, TimelineTypeOK
    <2>2. ASSUME NEW s \in Sessions
          PROVE  Announces(s, t)' = Announces(s, t) /\ (Announces(s, t) => ses'[s] = ses[s])
      <3>1. CASE ses[s].closing[u] # {}
        BY <1>2, <3>1 DEF Delete, OverlapInv, ClosesForOk, NoSession, Announces
      <3>2. CASE ses[s].closing[u] = {}
        BY <1>2, <3>2 DEF Delete, Announces
      <3> QED
        BY <3>1, <3>2
    <2> QED
      BY <2>1, <2>2 DEF ToldInv, Announced
  <1> QED
    BY <1>1, <1>2

\* The invariant of the alerts of a trigger that is left alone.
LEMMA ToldNext ==
  ASSUME OverlapInv, DoneInv, [Next]_vars, NEW t \in Triggers, AloneToTheEnd(t),
         AloneInv(t), ToldInv(t)
  PROVE  ToldInv(t)'
  <1>1. ASSUME NEW s \in Sessions, Round(s), ~Commit(s), ~Dispatch(s)
        PROVE  ToldInv(t)'
    <2>1. \A r \in Sessions : Announces(r, t)' = Announces(r, t)
      BY <1>1, QuietStep DEF Announces
    <2> QED
      BY <1>1, <2>1, QuietStep DEF ToldInv, Announced
  <1>2. CASE UNCHANGED vars
    BY <1>2 DEF vars, tables, ToldInv, Announced, Announces
  <1> QED
    BY <1>1, <1>2, CommitTold, EndTold, OwnerTold DEF Next

\* Alerts are not mixed up: while no session flips a trigger before the last
\* one has sent its alert, the newest alert names the stored state, unless it
\* was lost with its session; evaluations of other triggers may overlap.
THEOREM NewestAlertWhenAlone ==
  ASSUME NEW t \in Triggers
  PROVE  Spec /\ []AloneToTheEnd(t) => []Announced(t)
  <1>1. Init => AloneInv(t) /\ ToldInv(t) /\ DoneInv
    BY DEF Init, TimelineInit, NoSession, AloneInv, AllFresh, OneOpen, Fresh, Evaluates, ToldInv,
           Announced, Announces, DoneInv
  <1>2. AloneToTheEnd(t) => Alone(t)
    BY DEF AloneToTheEnd, Alone
  <1>3. OverlapInv /\ DoneInv /\ [Next]_vars /\ AloneInv(t) /\ ToldInv(t) /\ AloneToTheEnd(t)
           => AloneInv(t)' /\ ToldInv(t)' /\ DoneInv'
    BY <1>2, AloneNext, ToldNext, DoneNext DEF OverlapInv
  <1>4. ToldInv(t) => Announced(t)
    BY DEF ToldInv
  <1> QED
    BY <1>1, <1>3, <1>4, OverlapInit, OverlapNext, PTL DEF Spec

-----------------------------------------------------------------------------
(* One evaluation at a time.                                               *)

\* The evaluations never overlap: what the scheduler guarantees of a probe.
Solo == \A r, s \in Sessions : r = s

\* Then no trigger is ever disturbed.
LEMMA SoloAlone == ASSUME Solo PROVE \A t \in Triggers : AloneToTheEnd(t) /\ Alone(t)
  BY DEF Solo, AloneToTheEnd, Alone

\* The timeline of a monitor is exact: a trigger in PROBLEM has one open
\* problem, any other trigger has none, whatever the owner does to the
\* triggers during a round and wherever a round dies.
THEOREM TimelineExact == ASSUME Solo PROVE Spec => []OneOpenIffProblem
  <1> DEFINE Inv == \A t \in Triggers : AloneInv(t)
  <1>1. Init => Inv
    BY DEF Init, TimelineInit, NoSession, AloneInv, AllFresh, OneOpen, Fresh, Evaluates
  <1>2. OverlapInv /\ Inv /\ [Next]_vars => Inv'
    BY SoloAlone, AloneNext
  <1>3. Inv => OneOpenIffProblem
    BY DEF AloneInv, OneOpen, OneOpenIffProblem
  <1> QED
    BY <1>1, <1>2, <1>3, OverlapInit, OverlapNext, PTL DEF Spec

\* The probe job of a monitor implements the timeline in which its round of
\* evaluation is one atomic step.
THEOREM Refinement == ASSUME Solo PROVE Spec => TimelineSpec
  <1>1. \A t \in Triggers : Alone(t)
    BY SoloAlone
  <1> QED
    BY <1>1, RefinementWhenAlone, PTL

\* The newest alert of a monitor's trigger names the state of its row, except
\* while the round that changed it is about to hand its alerts over and when
\* it died at that point.
THEOREM LastAlertNamesState ==
  ASSUME Solo
  PROVE  Spec => []AnnouncedState
  <1> DEFINE Inv == DoneInv /\ \A t \in Triggers : AloneInv(t) /\ ToldInv(t)
  <1>1. Init => Inv
    BY DEF Init, TimelineInit, NoSession, AloneInv, AllFresh, OneOpen, Fresh, Evaluates, ToldInv,
           Announced, Announces, DoneInv
  <1>2. OverlapInv /\ Inv /\ [Next]_vars => Inv'
    BY SoloAlone, AloneNext, ToldNext, DoneNext DEF OverlapInv
  <1>3. Inv => AnnouncedState
    BY DEF ToldInv, Announced, Announces, AnnouncedState
  <1> QED
    BY <1>1, <1>2, <1>3, OverlapInit, OverlapNext, PTL DEF Spec
=============================================================================
