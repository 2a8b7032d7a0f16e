-------------------------- MODULE EscalationProofs --------------------------
(***************************************************************************)
(* Theorems about Escalation for every set of problems and ladders.        *)
(***************************************************************************)
EXTENDS Escalation, WellFoundedInduction, TLAPS

USE OrderAssumption, LadderAssumption

-----------------------------------------------------------------------------
(* Type correctness.                                                       *)

\* A job that does not run is well typed.
LEMMA NoJobType == NoJob \in JobType
  BY DEF NoJob, JobType

\* Whatever the owner does to the policies, a known ladder is in force.
LEMMA PolicyChangesLadder ==
  ASSUME ChangePolicy
  PROVE  ladder' \in Ladders \cup {NoLadder} /\ UNCHANGED <<now, problem, job, sent>>
  <1>1. CASE DeleteChannel
    <2>1. PICK S \in SUBSET DOMAIN ladder :
             /\ [o \in S |-> ladder[o]] \in Ladders \cup {NoLadder}
             /\ PutInForce([o \in S |-> ladder[o]])
      BY <1>1 DEF DeleteChannel
    <2> QED
      BY <2>1 DEF PutInForce
  <1>2. CASE CreatePolicy \/ CreatePolicyForm \/ ReplacePolicy \/ DeletePolicy \/ DeletePolicyForm
    BY <1>2 DEF CreatePolicy, CreatePolicyForm, ReplacePolicy, DeletePolicy, DeletePolicyForm,
                PutInForce
  <1> QED
    BY <1>1, <1>2 DEF ChangePolicy

\* Initially there are no problems and no policy.
LEMMA InitType == Init => TypeOK
  BY NoJobType DEF Init, TypeOK, ProblemType

\* The ladder a job has loaded numbers its steps from 1 to MaxOrder.
LEMMA LadderType ==
  ASSUME TypeOK
  PROVE  /\ DOMAIN job.steps \subseteq 1..MaxOrder
         /\ \A o \in DOMAIN job.steps : job.steps[o] \in Nat
  <1>1. job.steps \in Ladders \cup {NoLadder}
    BY DEF TypeOK, JobType
  <1>2. DOMAIN NoLadder = {}
    BY DEF NoLadder
  <1> QED
    BY <1>1, <1>2

\* The steps of the job keep the types.
LEMMA JobStepType ==
  ASSUME TypeOK, JobStep
  PROVE  TypeOK'
  <1>0. job \in JobType /\ problem \in [Problems -> ProblemType]
    BY DEF TypeOK
  <1>1. CASE ReadProblems
    <2>1. [p \in Problems |-> problem[p].step] \in [Problems -> 0..MaxOrder]
      BY <1>0 DEF ProblemType
    <2>2. job' \in JobType
      BY <1>1, <2>1, NoJobType DEF ReadProblems, NoJob, JobType, TypeOK
    <2> QED
      BY <1>1, <2>2 DEF ReadProblems, TypeOK
  <1>2. CASE ReadPolicy
    BY <1>0, <1>2 DEF ReadPolicy, JobType, TypeOK
  <1>3. ASSUME NEW p \in Problems, NEW o \in 1..MaxOrder, ExecuteStep(p, o)
        PROVE  TypeOK'
    <2>1. PICK usable \in BOOLEAN :
             job' = [job EXCEPT !.reached[p] = o,
                                !.due = IF usable THEN @ \cup {<<p, o>>} ELSE @]
      BY <1>3 DEF ExecuteStep
    <2>2. [job.reached EXCEPT ![p] = o] \in [Problems -> 0..MaxOrder]
      BY <1>0 DEF JobType
    <2>3. (IF usable THEN job.due \cup {<<p, o>>} ELSE job.due)
             \in SUBSET (Problems \X (1..MaxOrder))
      BY <1>0 DEF JobType
    <2>4. job' \in JobType
      BY <1>0, <2>1, <2>2, <2>3 DEF JobType
    <2> QED
      BY <1>3, <2>4 DEF ExecuteStep, TypeOK
  <1>4. CASE Commit
    <2>1. problem' \in [Problems -> ProblemType]
      BY <1>0, <1>4 DEF Commit, ProblemType, JobType
    <2>2. job' \in JobType
      BY <1>0, <1>4 DEF Commit, JobType
    <2> QED
      BY <1>4, <2>1, <2>2 DEF Commit, TypeOK
  <1>5. CASE CommitFails
    BY <1>5, NoJobType DEF CommitFails, TypeOK
  <1>6. CASE Dispatch
    <2>1. sent' \in [Problems -> SUBSET (1..MaxOrder)]
      BY <1>6 DEF Dispatch, TypeOK
    <2> QED
      BY <1>6, <2>1, NoJobType DEF Dispatch, TypeOK
  <1> QED
    BY <1>1, <1>2, <1>3, <1>4, <1>5, <1>6 DEF JobStep

\* So do the owner, the evaluations, the clock and a restart.
LEMMA NextType == TypeOK /\ [Next]_vars => TypeOK'
  <1> SUFFICES ASSUME TypeOK, [Next]_vars PROVE TypeOK'
    OBVIOUS
  <1>1. ASSUME NEW p \in Problems,
               \/ OpenProblem(p) \/ Acknowledge(p) \/ AcknowledgeForm(p)
               \/ ResolveProblem(p) \/ DeleteProblem(p)
        PROVE  TypeOK'
    <2>0. now \in 0..MaxTime /\ problem[p] \in ProblemType
      BY DEF TypeOK
    <2>1. problem'[p] \in ProblemType /\ problem' = [problem EXCEPT ![p] = problem'[p]]
      <3>1. CASE OpenProblem(p)
        BY <2>0, <3>1 DEF OpenProblem, TypeOK, ProblemType
      <3>2. CASE Acknowledge(p) \/ AcknowledgeForm(p)
        <4>1. Acknowledge(p)
          BY <3>2 DEF AcknowledgeForm
        <4> QED
          BY <2>0, <4>1 DEF Acknowledge, TypeOK, ProblemType
      <3>3. CASE ResolveProblem(p) \/ DeleteProblem(p)
        BY <2>0, <3>3 DEF ResolveProblem, DeleteProblem, TypeOK, ProblemType
      <3> QED
        BY <1>1, <3>1, <3>2, <3>3
    <2> QED
      BY <1>1, <2>1 DEF OpenProblem, Acknowledge, AcknowledgeForm, ResolveProblem,
                        DeleteProblem, TypeOK
  <1>2. CASE ChangePolicy
    BY <1>2, PolicyChangesLadder DEF TypeOK
  <1>3. CASE Tick
    BY <1>3 DEF Tick, TypeOK
  <1>4. CASE Restart
    BY <1>4, NoJobType DEF Restart, TypeOK
  <1>5. CASE UNCHANGED vars
    BY <1>5 DEF vars, TypeOK
  <1> QED
    BY <1>1, <1>2, <1>3, <1>4, <1>5, JobStepType DEF Next

\* The rows and the job keep their types, whatever ladders the owner makes.
THEOREM TypeCorrect == Spec => []TypeOK
  BY InitType, NextType, PTL DEF Spec

-----------------------------------------------------------------------------
(* Every step of the ladder fires at most once, in ascending order.        *)

\* What was sent is below the stored progress.
SentIsStored == \A p \in Problems : \A o \in sent[p] : o <= problem[p].step

\* Before the commit the job is ahead of the rows, and what it is about to
\* send lies between the two.
AheadOfRows ==
    /\ job.pc \in {"policy", "steps"} =>
          \A p \in Problems : problem[p].step <= job.reached[p]
    /\ job.pc = "policy" => job.due = {}
    /\ job.pc = "steps" =>
          \A d \in job.due : /\ d[1] \in job.todo
                             /\ problem[d[1]].step < d[2]
                             /\ d[2] <= job.reached[d[1]]

\* After it, the rows have caught up and nothing of it was sent before.
CaughtUp ==
    job.pc = "dispatch" =>
       \A d \in job.due : /\ d[2] <= problem[d[1]].step
                          /\ \A o \in sent[d[1]] : o < d[2]

ProgressInv == SentIsStored /\ AheadOfRows /\ CaughtUp

\* Nothing but a commit changes the stored progress.
LEMMA OthersKeepProgress ==
  ASSUME TypeOK, Next, ~JobStep
  PROVE  \A p \in Problems : problem'[p].step = problem[p].step
  <1>1. ASSUME NEW p \in Problems, OpenProblem(p)
        PROVE  \A q \in Problems : problem'[q].step = problem[q].step
    BY <1>1 DEF OpenProblem, TypeOK, ProblemType
  <1>2. ASSUME NEW p \in Problems,
               \/ Acknowledge(p) \/ AcknowledgeForm(p)
               \/ ResolveProblem(p) \/ DeleteProblem(p)
        PROVE  \A q \in Problems : problem'[q].step = problem[q].step
    BY <1>2 DEF Acknowledge, AcknowledgeForm, ResolveProblem, DeleteProblem, TypeOK, ProblemType
  <1>3. CASE ChangePolicy \/ Tick \/ Restart
    BY <1>3, PolicyChangesLadder DEF Tick, Restart
  <1> QED
    BY <1>1, <1>2, <1>3 DEF Next

\* The steps of the job keep the order of rows, memory and deliveries.
LEMMA JobProgress ==
  ASSUME TypeOK, ProgressInv, JobStep
  PROVE  ProgressInv'
  <1>0. job \in JobType /\ problem \in [Problems -> ProblemType]
        /\ sent \in [Problems -> SUBSET (1..MaxOrder)]
    BY DEF TypeOK
  <1>1. CASE ReadProblems
    <2>1. /\ job'.pc = "policy" /\ job'.due = {}
          /\ \A p \in Problems : job'.reached[p] = problem[p].step
      BY <1>1 DEF ReadProblems, NoJob
    <2> QED
      BY <1>0, <1>1, <2>1
         DEF ReadProblems, ProgressInv, SentIsStored, AheadOfRows, CaughtUp, ProblemType
  <1>2. CASE ReadPolicy
    <2>1. /\ job.pc = "policy" /\ job'.pc = "steps" /\ job'.due = job.due
          /\ job'.reached = job.reached
      BY <1>0, <1>2 DEF ReadPolicy, JobType
    <2> QED
      BY <1>2, <2>1 DEF ReadPolicy, ProgressInv, SentIsStored, AheadOfRows, CaughtUp
  <1>3. ASSUME NEW p \in Problems, NEW o \in 1..MaxOrder, ExecuteStep(p, o)
        PROVE  ProgressInv'
    <2>1. /\ job.pc = "steps" /\ job'.pc = "steps" /\ p \in job.todo /\ job'.todo = job.todo
          /\ job'.reached = [job.reached EXCEPT ![p] = o]
          /\ job'.due \subseteq job.due \cup {<<p, o>>}
          /\ o > job.reached[p]
      BY <1>0, <1>3 DEF ExecuteStep, IsDue, Ahead, JobType
    <2>2. /\ job'.reached[p] = o
          /\ \A q \in Problems \ {p} : job'.reached[q] = job.reached[q]
      BY <1>0, <2>1 DEF JobType
    <2>3. /\ \A q \in Problems : problem[q].step <= job.reached[q]
          /\ \A q \in Problems : problem[q].step \in Nat /\ job.reached[q] \in Nat
      BY <1>0, <2>1 DEF ProgressInv, AheadOfRows, JobType, ProblemType
    <2>4. \A q \in Problems : problem[q].step <= job'.reached[q]
                              /\ job.reached[q] <= job'.reached[q]
      BY <2>1, <2>2, <2>3
    <2>5. ASSUME NEW d \in job'.due
          PROVE  d[1] \in job.todo /\ problem[d[1]].step < d[2] /\ d[2] <= job'.reached[d[1]]
      <3>1. CASE d = <<p, o>>
        BY <2>1, <2>2, <2>3, <3>1
      <3>2. CASE d \in job.due
        <4>1. d[1] \in Problems /\ d[2] \in Nat
          BY <1>0, <3>2 DEF JobType
        <4>2. d[1] \in job.todo /\ problem[d[1]].step < d[2] /\ d[2] <= job.reached[d[1]]
          BY <2>1, <3>2 DEF ProgressInv, AheadOfRows
        <4>3. job.reached[d[1]] <= job'.reached[d[1]] /\ job.reached[d[1]] \in Nat
              /\ job'.reached[d[1]] \in Nat
          BY <2>2, <2>3, <2>4, <4>1
        <4> QED
          BY <4>1, <4>2, <4>3
      <3> QED
        BY <2>1, <3>1, <3>2
    <2> QED
      BY <1>3, <2>1, <2>4, <2>5
         DEF ExecuteStep, ProgressInv, SentIsStored, AheadOfRows, CaughtUp
  <1>4. CASE Commit
    <2>1. /\ job.pc = "steps" /\ job'.pc = "dispatch" /\ job'.due = job.due
          /\ sent' = sent
      BY <1>0, <1>4 DEF Commit, JobType
    <2>2. ASSUME NEW p \in Problems
          PROVE  /\ problem'[p].step = IF p \in Advanced THEN job.reached[p] ELSE problem[p].step
                 /\ problem[p].step <= problem'[p].step
      <3>1. problem[p] \in ProblemType /\ job.reached[p] \in Nat
            /\ problem[p].step <= job.reached[p]
        BY <1>0, <2>1 DEF ProgressInv, AheadOfRows, JobType
      <3>2. problem'[p] = IF p \in Advanced THEN [problem[p] EXCEPT !.step = job.reached[p]]
                                           ELSE problem[p]
        BY <1>4 DEF Commit
      <3> QED
        BY <3>1, <3>2 DEF ProblemType
    <2>3. \A p \in Problems : \A o \in sent[p] : /\ o \in Nat /\ problem[p].step \in Nat
                                                 /\ problem'[p].step \in Nat
      BY <1>0, <2>2 DEF ProblemType, JobType
    <2>4. SentIsStored'
      BY <2>1, <2>2, <2>3 DEF ProgressInv, SentIsStored
    <2>5. ASSUME NEW d \in job.due
          PROVE  d[2] <= problem'[d[1]].step /\ \A o \in sent[d[1]] : o < d[2]
      <3>1. /\ d[1] \in Problems /\ d[1] \in job.todo /\ d[2] \in Nat
            /\ problem[d[1]].step < d[2] /\ d[2] <= job.reached[d[1]]
            /\ problem[d[1]].step \in Nat /\ job.reached[d[1]] \in Nat
        BY <1>0, <2>1 DEF ProgressInv, AheadOfRows, JobType, ProblemType
      <3>2. d[1] \in Advanced
        BY <3>1 DEF Advanced
      <3>3. d[2] <= problem'[d[1]].step
        BY <2>2, <3>1, <3>2
      <3>4. \A o \in sent[d[1]] : o \in Nat /\ o <= problem[d[1]].step
        BY <2>3, <3>1 DEF ProgressInv, SentIsStored
      <3> QED
        BY <3>1, <3>3, <3>4
    <2> QED
      BY <2>1, <2>4, <2>5 DEF ProgressInv, AheadOfRows, CaughtUp
  <1>5. CASE CommitFails
    BY <1>5 DEF CommitFails, NoJob, ProgressInv, SentIsStored, AheadOfRows, CaughtUp
  <1>6. CASE Dispatch
    <2>1. job'.pc = "idle" /\ problem' = problem /\ job.pc = "dispatch"
      BY <1>6 DEF Dispatch, NoJob
    <2>2. ASSUME NEW p \in Problems, NEW o \in sent'[p]
          PROVE  o <= problem[p].step
      <3>1. o \in sent[p] \/ <<p, o>> \in job.due
        BY <1>6 DEF Dispatch
      <3>2. CASE <<p, o>> \in job.due
        BY <2>1, <3>2 DEF ProgressInv, CaughtUp
      <3> QED
        BY <3>1, <3>2 DEF ProgressInv, SentIsStored
    <2> QED
      BY <2>1, <2>2 DEF ProgressInv, SentIsStored, AheadOfRows, CaughtUp
  <1> QED
    BY <1>1, <1>2, <1>3, <1>4, <1>5, <1>6 DEF JobStep

\* The order of rows, memory and deliveries is inductive.
LEMMA NextProgress == TypeOK /\ ProgressInv /\ [Next]_vars => ProgressInv'
  <1> SUFFICES ASSUME TypeOK, ProgressInv, [Next]_vars PROVE ProgressInv'
    OBVIOUS
  <1>1. CASE Next /\ ~JobStep
    <2>1. \A p \in Problems : problem'[p].step = problem[p].step
      BY <1>1, OthersKeepProgress
    <2>2. sent' = sent /\ (job' = job \/ job' = NoJob)
      BY <1>1, PolicyChangesLadder
         DEF Next, OpenProblem, Acknowledge, AcknowledgeForm, ResolveProblem, DeleteProblem,
             Tick, Restart
    <2>3. SentIsStored'
      BY <2>1, <2>2 DEF ProgressInv, SentIsStored
    <2>4. CASE job' = NoJob
      BY <2>3, <2>4 DEF ProgressInv, AheadOfRows, CaughtUp, NoJob
    <2>5. CASE job' = job
      <3>1. \A d \in job.due : d[1] \in Problems
        BY DEF TypeOK, JobType
      <3> QED
        BY <2>1, <2>2, <2>3, <2>5, <3>1 DEF ProgressInv, AheadOfRows, CaughtUp
    <2> QED
      BY <2>2, <2>4, <2>5
  <1>2. CASE UNCHANGED vars
    BY <1>2 DEF vars, ProgressInv, SentIsStored, AheadOfRows, CaughtUp
  <1> QED
    BY <1>1, <1>2, JobProgress

\* Whatever the owner changes and wherever the process stops, no step of the
\* ladder is sent twice for a problem, nor a lower one after a higher one.
THEOREM StepsFireOnce == Spec => StepsAscend
  <1>1. Init => ProgressInv
    BY DEF Init, ProgressInv, SentIsStored, AheadOfRows, CaughtUp, NoJob
  <1>2. ProgressInv /\ [Next]_vars =>
           [Dispatch => \A d \in job.due : \A o \in sent[d[1]] : o < d[2]]_vars
    BY DEF Dispatch, ProgressInv, CaughtUp
  <1> QED
    BY <1>1, <1>2, InitType, NextType, NextProgress, PTL DEF Spec, StepsAscend

-----------------------------------------------------------------------------
(* A problem that was taken care of stops escalating.                      *)

\* A run sends only for problems it has loaded.
DueOfTodo == \A d \in job.due : d[1] \in job.todo

\* Initially, and whenever the job stops, there is nothing to send.
LEMMA DueInit == Init \/ job = NoJob => DueOfTodo
  BY DEF Init, NoJob, DueOfTodo

\* What a step does to the problems a run has loaded and to its deliveries.
LEMMA TodoEffect ==
  ASSUME TypeOK, DueOfTodo, [Next]_vars
  PROVE  /\ DueOfTodo'
         /\ \/ job'.todo = job.todo
            \/ job'.todo = {}
            \/ job'.todo = {p \in Problems : problem[p].row = "open" /\ ~problem[p].acked}
         /\ sent' # sent => Dispatch
  <1>0. job \in JobType
    BY DEF TypeOK
  <1>1. CASE ReadProblems
    <2>1. /\ job'.due = {}
          /\ job'.todo = {p \in Problems : problem[p].row = "open" /\ ~problem[p].acked}
      BY <1>1 DEF ReadProblems, NoJob
    <2> QED
      BY <1>1, <2>1 DEF ReadProblems, DueOfTodo
  <1>2. CASE ReadPolicy \/ Commit
    <2>1. job'.due = job.due /\ job'.todo = job.todo
      BY <1>0, <1>2 DEF ReadPolicy, Commit, JobType
    <2> QED
      BY <1>2, <2>1 DEF ReadPolicy, Commit, DueOfTodo
  <1>3. ASSUME NEW p \in Problems, NEW o \in 1..MaxOrder, ExecuteStep(p, o)
        PROVE  DueOfTodo' /\ job'.todo = job.todo /\ sent' = sent
    <2>1. /\ job'.todo = job.todo /\ p \in job.todo /\ sent' = sent
          /\ job'.due \subseteq job.due \cup {<<p, o>>}
      BY <1>0, <1>3 DEF ExecuteStep, JobType
    <2> QED
      BY <2>1 DEF DueOfTodo
  <1>4. CASE CommitFails \/ Dispatch \/ Restart
    <2>1. job'.due = {} /\ job'.todo = {}
      BY <1>4 DEF CommitFails, Dispatch, Restart, NoJob
    <2> QED
      BY <1>4, <2>1 DEF CommitFails, Restart, DueOfTodo
  <1>5. CASE Next /\ ~JobStep /\ ~Restart
    <2>1. job' = job /\ sent' = sent
      BY <1>5, PolicyChangesLadder
         DEF Next, OpenProblem, Acknowledge, AcknowledgeForm, ResolveProblem, DeleteProblem, Tick
    <2> QED
      BY <2>1 DEF DueOfTodo
  <1>6. CASE UNCHANGED vars
    BY <1>6 DEF vars, DueOfTodo
  <1> QED
    BY <1>1, <1>2, <1>3, <1>4, <1>5, <1>6 DEF Next, JobStep

\* A problem is taken care of for good.
LEMMA HandledStays ==
  ASSUME TypeOK, [Next]_vars, NEW p \in Problems, Handled(p)
  PROVE  Handled(p)'
  <1>1. ASSUME NEW q \in Problems,
               \/ OpenProblem(q) \/ Acknowledge(q) \/ AcknowledgeForm(q)
               \/ ResolveProblem(q) \/ DeleteProblem(q)
        PROVE  Handled(p)'
    BY <1>1 DEF OpenProblem, Acknowledge, AcknowledgeForm, ResolveProblem, DeleteProblem,
                TypeOK, ProblemType, Handled
  <1>2. CASE JobStep
    <2>1. CASE Commit
      BY <2>1 DEF Commit, TypeOK, ProblemType, Handled
    <2>2. CASE ~Commit
      BY <1>2, <2>2 DEF JobStep, ReadProblems, ReadPolicy, ExecuteStep, CommitFails, Dispatch,
                        Handled
    <2> QED
      BY <2>1, <2>2
  <1>3. CASE ChangePolicy \/ Tick \/ Restart \/ UNCHANGED vars
    BY <1>3, PolicyChangesLadder DEF Tick, Restart, vars, Handled
  <1> QED
    BY <1>1, <1>2, <1>3 DEF Next

\* The step behind StopsOnceHandled.
LEMMA SilenceStep ==
  ASSUME TypeOK, DueOfTodo, [Next]_vars, NEW p \in Problems, Handled(p), p \notin job.todo
  PROVE  Handled(p)' /\ p \notin job'.todo /\ sent'[p] = sent[p]
  <1>1. Handled(p)'
    BY HandledStays
  <1>2. p \notin job'.todo
    BY TodoEffect DEF Handled
  <1>3. CASE sent' = sent
    BY <1>1, <1>2, <1>3
  <1>4. CASE Dispatch
    <2>1. {o \in 1..MaxOrder : <<p, o>> \in job.due} = {}
      BY DEF DueOfTodo
    <2>2. sent'[p] = sent[p]
      BY <1>4, <2>1 DEF Dispatch
    <2> QED
      BY <1>1, <1>2, <2>2
  <1> QED
    BY <1>3, <1>4, TodoEffect

\* "Ack/resolve naturally stop it": from the moment a problem is acknowledged,
\* resolved or deleted, at most the run that had already loaded it notifies.
THEOREM HandledStops == Spec => StopsOnceHandled
  <1>1. Init => DueOfTodo
    BY DueInit
  <1>2. TypeOK /\ DueOfTodo /\ [Next]_vars => DueOfTodo'
    BY TodoEffect
  <1>3. TypeOK /\ DueOfTodo /\ [Next]_vars =>
           [\A p \in Problems : Handled(p) /\ p \notin job.todo =>
               Handled(p)' /\ p \notin job'.todo /\ sent'[p] = sent[p]]_vars
    BY SilenceStep
  <1> QED
    BY <1>1, <1>2, <1>3, InitType, NextType, PTL DEF Spec, StopsOnceHandled

\* Once no run has it any more, a problem that was taken care of is never
\* notified again, whatever is done to it and to the ladders afterwards.
THEOREM SilentForGood ==
  ASSUME NEW p \in Problems
  PROVE  Spec => [](Handled(p) /\ p \notin job.todo => [][sent'[p] = sent[p]]_vars)
  <1> DEFINE Done == Handled(p) /\ p \notin job.todo
  <1>1. Init => TypeOK /\ DueOfTodo
    BY InitType, DueInit
  <1>2. TypeOK /\ DueOfTodo /\ [Next]_vars => (TypeOK /\ DueOfTodo)'
    BY NextType, TodoEffect
  <1>3. TypeOK /\ DueOfTodo /\ Done /\ [Next]_vars => Done' /\ [sent'[p] = sent[p]]_vars
    BY SilenceStep
  <1> QED
    BY <1>1, <1>2, <1>3, PTL DEF Spec

-----------------------------------------------------------------------------
(* No due step is left behind when delays do not decrease.                 *)

\* "later steps have larger delays", as an assumption on the ladders.
Monotone == \A L \in Ladders : \A o, q \in DOMAIN L : o <= q => L[o] <= L[q]

\* A nonempty set of naturals has a least element.
LEMMA LeastElement ==
  ASSUME NEW S \in SUBSET Nat, S # {}
  PROVE  \E x \in S : \A y \in S : x <= y
  <1> DEFINE R == OpToRel(<, Nat)
  <1>1. \A x, y \in Nat : <<y, x>> \in R <=> y < x
    BY DEF OpToRel
  <1>2. IsWellFoundedOn(R, Nat)
    BY NatLessThanWellFounded
  <1>3. S \subseteq Nat
    OBVIOUS
  <1> HIDE DEF R
  <1>4. PICK x \in S : \A y \in S : ~(<<y, x>> \in R)
    BY <1>2, <1>3, WFMin
  <1>5. ASSUME NEW y \in S PROVE x <= y
    <2>1. x \in Nat /\ y \in Nat /\ ~(<<y, x>> \in R)
      BY <1>3, <1>4
    <2>2. ~(y < x)
      BY <1>1, <2>1
    <2> QED
      BY <2>1, <2>2
  <1> QED
    BY <1>5

\* The loop of a run passes over no step whose delay has elapsed.
THEOREM NoDueStepSkipped ==
  ASSUME Monotone
  PROVE  Spec => DueStepsExecuted
  <1>1. ASSUME TypeOK, Commit, NEW p \in job.todo, NEW o \in Ahead(p)
        PROVE  problem[p].started + job.steps[o] > job.at
    <2>1. /\ DOMAIN job.steps \subseteq 1..MaxOrder
          /\ \A q \in DOMAIN job.steps : job.steps[q] \in Nat
      BY <1>1, LadderType
    <2>2. Ahead(p) \subseteq DOMAIN job.steps /\ Ahead(p) \in SUBSET Nat
      BY <2>1 DEF Ahead
    <2>3. PICK m \in Ahead(p) : \A q \in Ahead(p) : m <= q
      BY <1>1, <2>2, LeastElement
    <2>4. ~IsDue(p, m)
      BY <1>1, <2>2 DEF Commit, StepsDone
    <2>5. ~(problem[p].started + job.steps[m] <= job.at)
      BY <2>3, <2>4 DEF IsDue
    <2>6. job.steps[m] <= job.steps[o]
      <3>1. job.steps \in Ladders
        BY <1>1, <2>2 DEF TypeOK, JobType, NoLadder
      <3>2. m \in DOMAIN job.steps /\ o \in DOMAIN job.steps /\ m <= o
        BY <1>1, <2>2, <2>3
      <3> QED
        BY <3>1, <3>2 DEF Monotone
    <2>7. /\ problem[p].started \in Nat /\ job.at \in Nat
          /\ job.steps[m] \in Nat /\ job.steps[o] \in Nat
      BY <1>1, <2>1, <2>2 DEF TypeOK, JobType, ProblemType
    <2> QED
      BY <2>5, <2>6, <2>7
  <1>2. TypeOK /\ [Next]_vars =>
           [Commit => \A p \in job.todo : \A o \in Ahead(p) :
                         problem[p].started + job.steps[o] > job.at]_vars
    BY <1>1
  <1> QED
    BY <1>2, InitType, NextType, PTL DEF Spec, DueStepsExecuted
=============================================================================
