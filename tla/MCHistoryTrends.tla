-------------------------- MODULE MCHistoryTrends ---------------------------
(* A small instance of HistoryTrends for TLC. *)
EXTENDS HistoryTrends

ASSUME InTimeAssumption == InTime
=============================================================================
