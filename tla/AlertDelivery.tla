---------------------------- MODULE AlertDelivery ----------------------------
(***************************************************************************)
(* What fire-and-forget delivery promises.  An alert is handed over at one *)
(* moment and its task ends at a later one; meanwhile the owner changes    *)
(* which channels qualify for it.  Each channel is tried at most once, and *)
(* only if it qualified at some moment in between.  A task that ends has   *)
(* tried every channel that qualified all the time, whatever became of the *)
(* others.  A task may be lost with the process; nothing tries again.      *)
(***************************************************************************)
CONSTANTS Alerts, Channels

VARIABLES
    phase,    \* per alert: "none", "open", "closed" or "lost"
    tried,    \* the channels it was handed to
    steady,   \* the channels that have qualified since the hand-over
    ever      \* the channels that have qualified at some moment since

vars == <<phase, tried, steady, ever>>

Init ==
    /\ phase = [a \in Alerts |-> "none"]
    /\ tried = [a \in Alerts |-> {}]
    /\ steady = [a \in Alerts |-> {}]
    /\ ever = [a \in Alerts |-> {}]

HandOver(a) ==
    /\ phase[a] = "none"
    /\ phase' = [phase EXCEPT ![a] = "open"]
    /\ \E E \in SUBSET Channels :
          /\ steady' = [steady EXCEPT ![a] = E]
          /\ ever' = [ever EXCEPT ![a] = E]
    /\ UNCHANGED tried

\* From now on the channels in E[a] qualify for a.
Change ==
    /\ \E E \in [Alerts -> SUBSET Channels] :
          /\ steady' = [a \in Alerts |-> steady[a] \cap E[a]]
          /\ ever' = [a \in Alerts |-> ever[a] \cup E[a]]
    /\ UNCHANGED <<phase, tried>>

Try(a, c) ==
    /\ phase[a] = "open" /\ c \in ever[a] \ tried[a]
    /\ tried' = [tried EXCEPT ![a] = @ \cup {c}]
    /\ UNCHANGED <<phase, steady, ever>>

Close(a) ==
    /\ phase[a] = "open" /\ steady[a] \subseteq tried[a]
    /\ phase' = [phase EXCEPT ![a] = "closed"]
    /\ UNCHANGED <<tried, steady, ever>>

Lose ==
    /\ \E L \in SUBSET {a \in Alerts : phase[a] = "open"} :
          phase' = [a \in Alerts |-> IF a \in L THEN "lost" ELSE phase[a]]
    /\ UNCHANGED <<tried, steady, ever>>

Next ==
    \/ \E a \in Alerts : HandOver(a) \/ Close(a) \/ \E c \in Channels : Try(a, c)
    \/ Change \/ Lose

Spec == Init /\ [][Next]_vars

\* A channel that was tried qualified at some moment, and a task that is over
\* has left out none that qualified all the time.
PromiseKept ==
    \A a \in Alerts :
       tried[a] \subseteq ever[a] /\ (phase[a] = "closed" => steady[a] \subseteq tried[a])
=============================================================================
