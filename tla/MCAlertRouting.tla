--------------------------- MODULE MCAlertRouting ---------------------------
(* A small instance of AlertRouting: a monitor and a host, two channels,    *)
(* and windows of both kinds; the cron pattern fires when no window is open *)
(* (0) and again while one is (1), and the last form is only accepted by    *)
(* the update requests.                                                     *)
EXTENDS AlertRouting

CONSTANTS w1, m1, h1, c1, c2, a1, hourly

MCWindows == {w1}
MCMonitors == {m1}
MCHosts == {h1}
MCChannels == {c1, c2}
MCAlerts == {a1}
MCPatterns == {hourly}
MCFires == [p \in MCPatterns |-> {-5, 0, 1}]
MCSeverities == {0, 1}
MCFaults == {"restart", "query"}

Once(from, to) ==
    [is_active |-> TRUE, strategy |-> "once", start_at |-> from, end_at |-> to,
     cron |-> NoPattern, duration |-> Never]

Cron(d) ==
    [is_active |-> TRUE, strategy |-> "cron", start_at |-> Never, end_at |-> Never,
     cron |-> hourly, duration |-> d]

MCForms == {Once(0, 1), Cron(1), Once(0, Never)}
=============================================================================
