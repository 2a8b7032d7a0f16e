---------------------------- MODULE VerdictFeed -----------------------------
(***************************************************************************)
(* What a monitor's verdicts and its UP/DOWN alerts have to do with each   *)
(* other, whatever fails.  A verdict is stored; when it differs from the   *)
(* one stored before it may become news.  News is told at most once and    *)
(* before the next verdict is stored, or it is dropped for good: nothing   *)
(* is told late, twice or without having been stored.                      *)
(***************************************************************************)
CONSTANT Monitors

VARIABLES
    verdict,   \* the newest stored verdict of each monitor, or Never
    news,      \* a stored change that has yet to be told, or Never
    told       \* what subscribers were told last, or Never

vars == <<verdict, news, told>>

Verdicts == {"up", "down"}
Never    == "never"

Init ==
    /\ verdict = [m \in Monitors |-> Never]
    /\ news = [m \in Monitors |-> Never]
    /\ told = [m \in Monitors |-> Never]

\* A first verdict is no news, nor is one that repeats the verdict before it.
\* A change after a pause need not be news either.
Store(m, v) ==
    /\ news[m] = Never
    /\ verdict' = [verdict EXCEPT ![m] = v]
    /\ \/ UNCHANGED news
       \/ verdict[m] \in Verdicts \ {v} /\ news' = [news EXCEPT ![m] = v]
    /\ UNCHANGED told

Tell(m) ==
    /\ news[m] # Never
    /\ told' = [told EXCEPT ![m] = news[m]]
    /\ news' = [news EXCEPT ![m] = Never]
    /\ UNCHANGED verdict

\* A job ends before its last step, or all of them stop with the process.
Drop(S) ==
    /\ news' = [m \in Monitors |-> IF m \in S THEN Never ELSE news[m]]
    /\ UNCHANGED <<verdict, told>>

\* The monitor is deleted with its results.
Forget(m) ==
    /\ verdict' = [verdict EXCEPT ![m] = Never]
    /\ UNCHANGED <<news, told>>

Next ==
    \/ \E m \in Monitors : Tell(m) \/ Forget(m) \/ \E v \in Verdicts : Store(m, v)
    \/ \E S \in SUBSET Monitors : Drop(S)

Spec == Init /\ [][Next]_vars

\* What is about to be told is still the newest verdict, unless the monitor
\* has gone.
NewsIsNewest ==
    \A m \in Monitors : news[m] # Never => verdict[m] \in {news[m], Never}
=============================================================================
