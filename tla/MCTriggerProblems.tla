------------------------- MODULE MCTriggerProblems --------------------------
(* TriggerProblems for TLC.                                                *)
EXTENDS TriggerProblems

CONSTANTS t1, t2, s1, s2, e1, e2

OneTrigger   == {t1}
TwoTriggers  == {t1, t2}
ProbeJob     == {s1}          \* a monitor: one evaluation at a time
Pushes       == {s1, s2}      \* an item: samples pushed at the same time
TwoEvents    == {e1, e2}
NoFaults     == {}
AllFaults    == FaultKinds
=============================================================================
