-------------------------- MODULE MCProbeScheduler --------------------------
(* ProbeScheduler for TLC: small sets and the fault sets of the runs.      *)
EXTENDS ProbeScheduler

CONSTANT m1

OneMonitor   == {m1}
OneInterval  == {60}
TwoIntervals == {30, 60}

PauseResume == {"paused", "pending"}

ServerFaults    == FaultKinds \ {"staleform"}
WindowsAndForms == {"maintenance", "staleform"}
=============================================================================
