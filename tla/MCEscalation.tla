---------------------------- MODULE MCEscalation ----------------------------
(* Escalation for TLC: two problems and one ladder of two rungs.           *)
EXTENDS Escalation, TLC

CONSTANTS p1, p2

TwoProblems == {p1, p2}

TwoRungs == 1 :> 0 @@ 2 :> 1
Single   == {TwoRungs}

Restarts == {"restart"}
=============================================================================
