----------------------------- MODULE Escalation -----------------------------
(***************************************************************************)
(* EscalationService.due_escalations and the job that calls it every       *)
(* minute, for one owner.                                                  *)
(*                                                                         *)
(* The job reads the open, unacknowledged problems, then the ladder in     *)
(* force (the newest enabled policy), executes the steps that came due,    *)
(* commits the progress of every problem at once and only then hands the   *)
(* deliveries over.  The owner and the trigger evaluations act between any *)
(* two of these awaits.                                                    *)
(*                                                                         *)
(* A ladder is a function from step orders to delays in minutes.  Whether  *)
(* a step's channel may be used when it is executed (it exists, is the     *)
(* owner's, is enabled, is a webhook if the step is a remediation) is a    *)
(* free choice; a deleted channel takes its steps out of the ladder.       *)
(***************************************************************************)
EXTENDS Naturals

CONSTANTS
    Problems,     \* problem event ids; an id is never reused
    Ladders,      \* the ladders the owner may put in force
    MaxOrder,     \* largest step_order (100 in EscalationStepCreate)
    MaxTime,      \* bound on the clock, in minutes
    Faults        \* {"restart"} when the process may stop

NoLadder == <<>>  \* no enabled policy

ASSUME OrderAssumption  == MaxOrder \in Nat /\ MaxTime \in Nat
ASSUME LadderAssumption ==
    \A L \in Ladders : DOMAIN L \subseteq 1..MaxOrder /\ \A o \in DOMAIN L : L[o] \in Nat
ASSUME RestartAssumption == Faults \subseteq {"restart"}

VARIABLES
    now,          \* the clock
    problem,      \* ProblemEvent rows
    ladder,       \* the steps of the owner's newest enabled policy
    job,          \* the running _escalation_job
    sent          \* per problem: the steps handed to schedule_escalation

vars == <<now, problem, ladder, job, sent>>

ProblemType == [row: {"none", "open", "resolved", "deleted"},
                started: 0..MaxTime, acked: BOOLEAN, step: 0..MaxOrder]

JobType == [pc: {"idle", "policy", "steps", "dispatch"},
            at: 0..MaxTime,                       \* now, when the job started
            todo: SUBSET Problems,                \* the problems it loaded
            steps: Ladders \cup {NoLadder},       \* the ladder it loaded
            reached: [Problems -> 0..MaxOrder],   \* escalated_step in memory
            due: SUBSET (Problems \X (1..MaxOrder))]   \* deliveries

NoJob == [pc |-> "idle", at |-> 0, todo |-> {}, steps |-> NoLadder,
          reached |-> [p \in Problems |-> 0], due |-> {}]

TypeOK ==
    /\ now \in 0..MaxTime
    /\ problem \in [Problems -> ProblemType]
    /\ ladder \in Ladders \cup {NoLadder}
    /\ job \in JobType
    /\ sent \in [Problems -> SUBSET (1..MaxOrder)]

Init ==
    /\ now = 0
    /\ problem = [p \in Problems |->
                    [row |-> "none", started |-> 0, acked |-> FALSE, step |-> 0]]
    /\ ladder = NoLadder
    /\ job = NoJob
    /\ sent = [p \in Problems |-> {}]

-----------------------------------------------------------------------------
(* The owner, the evaluations and the clock.                               *)

OpenProblem(p) ==
    /\ problem[p].row = "none"
    /\ problem' = [problem EXCEPT ![p].row = "open", ![p].started = now]
    /\ UNCHANGED <<now, ladder, job, sent>>

Acknowledge(p) ==
    /\ problem[p].row \in {"open", "resolved"} /\ ~problem[p].acked
    /\ problem' = [problem EXCEPT ![p].acked = TRUE]
    /\ UNCHANGED <<now, ladder, job, sent>>

ResolveProblem(p) ==
    /\ problem[p].row = "open"
    /\ problem' = [problem EXCEPT ![p].row = "resolved"]
    /\ UNCHANGED <<now, ladder, job, sent>>

\* The trigger is deleted, and with it its events (cascade).
DeleteProblem(p) ==
    /\ problem[p].row \in {"open", "resolved"}
    /\ problem' = [problem EXCEPT ![p].row = "deleted"]
    /\ UNCHANGED <<now, ladder, job, sent>>

\* The button of the problems page.
AcknowledgeForm(p) == Acknowledge(p)

PutInForce(L) ==
    /\ ladder' = L
    /\ UNCHANGED <<now, problem, job, sent>>

\* A new policy is the newest one; a disabled one changes nothing.
CreatePolicy == \E L \in Ladders : PutInForce(L)

\* PUT gives a policy new steps, and enables or disables it: it, or an older
\* one, may come into force.  Only the policies' ladders are known here, so
\* this is any ladder.
ReplacePolicy == \E L \in Ladders \cup {NoLadder} : PutInForce(L)

\* The next older enabled policy, if there is one, comes into force.
DeletePolicy == \E L \in Ladders \cup {NoLadder} : PutInForce(L)

CreatePolicyForm == CreatePolicy
DeletePolicyForm == DeletePolicy

\* The steps go with their channel (cascade).
DeleteChannel ==
    \E S \in SUBSET DOMAIN ladder :
       /\ [o \in S |-> ladder[o]] \in Ladders \cup {NoLadder}
       /\ PutInForce([o \in S |-> ladder[o]])

ChangePolicy ==
    \/ CreatePolicy \/ CreatePolicyForm \/ ReplacePolicy
    \/ DeletePolicy \/ DeletePolicyForm \/ DeleteChannel

Tick ==
    /\ now < MaxTime
    /\ now' = now + 1
    /\ UNCHANGED <<problem, ladder, job, sent>>

-----------------------------------------------------------------------------
(* _escalation_job                                                         *)

\* Mutant: only problems that were never escalated are loaded.
ReadProblems_new ==
    /\ job.pc = "idle"
    /\ LET todo == {p \in Problems : /\ problem[p].row = "open" /\ ~problem[p].acked
                                     /\ problem[p].step = 0}
       IN  /\ todo # {}
           /\ job' = [NoJob EXCEPT !.pc = "policy", !.at = now, !.todo = todo,
                        !.reached = [p \in Problems |-> problem[p].step]]
    /\ UNCHANGED <<now, problem, ladder, sent>>

\* Mutant: acknowledged problems are loaded as well.
ReadProblems_acked ==
    /\ job.pc = "idle"
    /\ LET todo == {p \in Problems : problem[p].row = "open"}
       IN  /\ todo # {}
           /\ job' = [NoJob EXCEPT !.pc = "policy", !.at = now, !.todo = todo,
                        !.reached = [p \in Problems |-> problem[p].step]]
    /\ UNCHANGED <<now, problem, ladder, sent>>

\* Without an open, unacknowledged problem the job has nothing to do.
ReadProblems ==
    /\ job.pc = "idle"
    /\ LET todo == {p \in Problems : problem[p].row = "open" /\ ~problem[p].acked}
       IN  /\ todo # {}
           /\ job' = [NoJob EXCEPT !.pc = "policy", !.at = now, !.todo = todo,
                        !.reached = [p \in Problems |-> problem[p].step]]
    /\ UNCHANGED <<now, problem, ladder, sent>>

ReadPolicy ==
    /\ job.pc = "policy"
    /\ job' = [job EXCEPT !.pc = "steps", !.steps = ladder]
    /\ UNCHANGED <<now, problem, ladder, sent>>

\* Steps of the loaded ladder beyond the progress of p.
Ahead(p) == {o \in DOMAIN job.steps : o > job.reached[p]}

\* Mutant: the comparison with the delay is strict.
IsDue_strict(p, o) ==
    /\ o \in Ahead(p) /\ \A q \in Ahead(p) : o <= q
    /\ problem[p].started + job.steps[o] < job.at

\* The loop over the steps stops at the first one that is not due.
IsDue(p, o) ==
    /\ o \in Ahead(p) /\ \A q \in Ahead(p) : o <= q
    /\ problem[p].started + job.steps[o] <= job.at

\* A step whose channel cannot be used is passed over for good.
ExecuteStep(p, o) ==
    /\ job.pc = "steps" /\ p \in job.todo /\ IsDue(p, o)
    /\ \E usable \in BOOLEAN :
          job' = [job EXCEPT !.reached[p] = o,
                             !.due = IF usable THEN @ \cup {<<p, o>>} ELSE @]
    /\ UNCHANGED <<now, problem, ladder, sent>>

StepsDone == \A p \in job.todo : \A o \in DOMAIN job.steps : ~IsDue(p, o)

\* The problems this transaction updates.
Advanced == {p \in job.todo : job.reached[p] # problem[p].step}

\* Mutant: the progress is not stored.
Commit_lost ==
    /\ job.pc = "steps" /\ StepsDone
    /\ \A p \in Advanced : problem[p].row # "deleted"
    /\ job' = [job EXCEPT !.pc = "dispatch"]
    /\ UNCHANGED <<now, problem, ladder, sent>>

\* One commit for all problems.
Commit ==
    /\ job.pc = "steps" /\ StepsDone
    /\ \A p \in Advanced : problem[p].row # "deleted"
    /\ problem' = [p \in Problems |->
                     IF p \in Advanced THEN [problem[p] EXCEPT !.step = job.reached[p]]
                                       ELSE problem[p]]
    /\ job' = [job EXCEPT !.pc = "dispatch"]
    /\ UNCHANGED <<now, ladder, sent>>

\* A problem to be updated has gone: the commit fails, the steps of all the
\* others are taken again by the next run.
CommitFails ==
    /\ job.pc = "steps" /\ StepsDone
    /\ \E p \in Advanced : problem[p].row = "deleted"
    /\ job' = NoJob
    /\ UNCHANGED <<now, problem, ladder, sent>>

\* schedule_escalation for each delivery.
Dispatch ==
    /\ job.pc = "dispatch"
    /\ sent' = [p \in Problems |-> sent[p] \cup {o \in 1..MaxOrder : <<p, o>> \in job.due}]
    /\ job' = NoJob
    /\ UNCHANGED <<now, problem, ladder>>

\* The process stops and starts again.
Restart ==
    /\ "restart" \in Faults
    /\ job' = NoJob
    /\ UNCHANGED <<now, problem, ladder, sent>>

JobStep ==
    \/ ReadProblems \/ ReadPolicy \/ Commit \/ CommitFails \/ Dispatch
    \/ \E p \in Problems, o \in 1..MaxOrder : ExecuteStep(p, o)

Next ==
    \/ \E p \in Problems :
          \/ OpenProblem(p) \/ Acknowledge(p) \/ AcknowledgeForm(p)
          \/ ResolveProblem(p) \/ DeleteProblem(p)
    \/ ChangePolicy \/ Tick \/ JobStep \/ Restart

Spec == Init /\ [][Next]_vars

\* The job runs every minute and its awaits end; time passes.
FairSpec == Spec /\ WF_vars(JobStep) /\ WF_vars(Tick)

-----------------------------------------------------------------------------
\* "Persists the per-problem progress so steps fire once", "steps fire in
\* ascending order": a delivery for a problem always has a higher order than
\* everything sent for it before, across changes of policy and restarts.
StepsAscend ==
    [][Dispatch => \A d \in job.due : \A o \in sent[d[1]] : o < d[2]]_vars

\* "Minutes after the problem opened at which this step notifies": when a run
\* stores its progress, no step of its ladder whose delay had elapsed is left
\* unexecuted.  The loop relies on "later steps have larger delays".
DueStepsExecuted ==
    [][Commit => \A p \in job.todo : \A o \in Ahead(p) :
                    problem[p].started + job.steps[o] > job.at]_vars

Handled(p) == problem[p].acked \/ problem[p].row \in {"resolved", "deleted"}

\* "Ack/resolve naturally stop it": a problem that was acknowledged, resolved or
\* deleted stays so, no run loads it any more, and nothing is sent for it but
\* by the run that had loaded it before.
StopsOnceHandled ==
    [][\A p \in Problems : Handled(p) /\ p \notin job.todo =>
          Handled(p)' /\ p \notin job'.todo /\ sent'[p] = sent[p]]_vars

Escalating(p, L) ==
    problem[p].row = "open" /\ ~problem[p].acked /\ ladder = L

\* "Notify channels at increasing delays while a problem stays open and
\* unacknowledged": unless the process keeps being restarted, under an unchanged
\* ladder the problem climbs to every step whose delay it lives to see.
EscalatesWhileOpen ==
    (<>[][~Restart]_vars) =>
       \A p \in Problems, L \in Ladders :
          \A o \in {q \in DOMAIN L : \A k \in DOMAIN L : k <= q => L[k] <= L[q]} :
             (Escalating(p, L) /\ problem[p].started + L[o] <= MaxTime)
                ~> (~Escalating(p, L) \/ problem[p].step >= o)
=============================================================================
