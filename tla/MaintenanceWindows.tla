------------------------- MODULE MaintenanceWindows --------------------------
(***************************************************************************)
(* The maintenance windows of one owner: MaintenanceService, the requests  *)
(* that call it, and is_maintenance_active.  AlertRouting extends it.      *)
(*                                                                         *)
(* Time is counted in minutes.  A cron pattern is the set of the instants  *)
(* at which it fires; Never stands for a column that is NULL.              *)
(***************************************************************************)
EXTENDS Integers

CONSTANTS
    Windows,      \* ids of windows; an id is never reused
    Monitors,
    Patterns,     \* cron expressions
    Fires,        \* the instants at which a pattern fires
    Forms,        \* what the owner may submit, a set of FormType
    MaxTime       \* bound on the clock

Never == -1       \* NULL in a column of times
NoPattern == "none"

Time == 0 .. MaxTime

FormType ==
    [is_active: BOOLEAN, strategy: {"once", "cron"},
     start_at: Time \cup {Never}, end_at: Time \cup {Never},
     cron: Patterns \cup {NoPattern}, duration: Nat \cup {Never}]

ASSUME WindowsAssumption ==
    /\ MaxTime \in Nat
    /\ Forms \subseteq FormType
    /\ NoPattern \notin Patterns
    /\ Fires \in [Patterns -> SUBSET Int]
    /\ \A p \in Patterns, t \in Time :    \* a pattern has no beginning
          \E f \in Fires[p] : f < t /\ \A g \in Fires[p] : g < t => g <= f

VARIABLES
    clock,
    window,       \* the rows: the windows that exist, with their columns
    covers        \* maintenance_monitors

WindowsTypeOK ==
    /\ clock \in Time
    /\ DOMAIN window \subseteq Windows
    /\ \A w \in DOMAIN window : window[w] \in Forms
    /\ covers \subseteq (DOMAIN window) \X Monitors

-----------------------------------------------------------------------------
(* is_maintenance_active                                                   *)

\* Mutant: the first of the past fires instead of the last.
Previous_first(p, t) ==
    CHOOSE f \in Fires[p] : f < t /\ \A g \in Fires[p] : g < t => f <= g

\* croniter.get_prev: the last fire strictly before t.
Previous(p, t) ==
    CHOOSE f \in Fires[p] : f < t /\ \A g \in Fires[p] : g < t => g <= f

IsActive(f, t) ==
    /\ f.is_active
    /\ \/ f.strategy = "once" /\ f.start_at # Never /\ f.end_at # Never
          /\ f.start_at <= t /\ t <= f.end_at
       \/ f.strategy = "cron" /\ f.cron # NoPattern /\ f.duration # Never
          /\ t <= Previous(f.cron, t) + f.duration

\* is_monitor_under_maintenance
UnderMaintenance(m, t) ==
    \E w \in DOMAIN window : <<w, m>> \in covers /\ IsActive(window[w], t)

-----------------------------------------------------------------------------
(* Requests, each one transaction.  MaintenanceCreate validates the fields *)
(* the strategy needs; MaintenanceUpdate does not.                         *)

Complete(f) ==
    IF f.strategy = "once" THEN f.start_at # Never /\ f.end_at # Never
                           ELSE f.cron # NoPattern /\ f.duration # Never

WellFormed(f) == Complete(f) /\ (f.strategy = "once" => f.start_at < f.end_at)

MaintenanceCreate(w, f) ==
    /\ w \notin DOMAIN window /\ WellFormed(f)
    /\ window' = [v \in DOMAIN window \cup {w} |-> IF v = w THEN f ELSE window[v]]
    /\ UNCHANGED <<clock, covers>>

MaintenanceUpdate(w, f) ==
    /\ w \in DOMAIN window
    /\ window' = [window EXCEPT ![w] = f]
    /\ UNCHANGED <<clock, covers>>

MaintenanceDelete(w) ==
    /\ w \in DOMAIN window
    /\ window' = [v \in DOMAIN window \ {w} |-> window[v]]
    /\ covers' = {c \in covers : c[1] # w}
    /\ UNCHANGED clock

AttachMonitor(w, m) ==
    /\ w \in DOMAIN window
    /\ covers' = covers \cup {<<w, m>>}
    /\ UNCHANGED <<clock, window>>

DetachMonitor(w, m) ==
    /\ w \in DOMAIN window
    /\ covers' = covers \ {<<w, m>>}
    /\ UNCHANGED <<clock, window>>

\* The API ...
CreateMaintenance(w, f) == MaintenanceCreate(w, f)

\* ... of which PATCH replaces the fields it is given, here any of them ...
UpdateMaintenance(w, f) == MaintenanceUpdate(w, f)
DeleteMaintenance(w) == MaintenanceDelete(w)

\* ... and the pages; saving the form posts every field.
CreateMaintenanceForm(w, f) == MaintenanceCreate(w, f)
UpdateMaintenanceForm(w, f) == MaintenanceUpdate(w, f)
DeleteMaintenanceForm(w) == MaintenanceDelete(w)
AttachMonitorForm(w, m) == AttachMonitor(w, m)
DetachMonitorForm(w, m) == DetachMonitor(w, m)

EditWindows ==
    \E w \in Windows :
       \/ \E f \in Forms :
             \/ CreateMaintenance(w, f) \/ CreateMaintenanceForm(w, f)
             \/ UpdateMaintenance(w, f) \/ UpdateMaintenanceForm(w, f)
       \/ DeleteMaintenance(w) \/ DeleteMaintenanceForm(w)
       \/ \E m \in Monitors :
             \/ AttachMonitor(w, m) \/ AttachMonitorForm(w, m)
             \/ DetachMonitor(w, m) \/ DetachMonitorForm(w, m)

Tick ==
    /\ clock < MaxTime
    /\ clock' = clock + 1
    /\ UNCHANGED <<window, covers>>

-----------------------------------------------------------------------------
\* "ONCE windows match when start_at <= now <= end_at.  CRON windows use
\* croniter: find the latest fire time at or before now and check whether now
\* is still within duration_minutes of it": a window is open at t.
IsOpen(f, t) ==
    /\ f.is_active /\ Complete(f)
    /\ \/ f.strategy = "once" /\ t \in f.start_at .. f.end_at
       \/ f.strategy = "cron" /\ \E x \in Fires[f.cron] : x <= t /\ t <= x + f.duration

\* The window opens at t itself: no older fire keeps it open.
OpensAt(f, t) ==
    /\ f.strategy = "cron"
    /\ \A x \in Fires[f.cron] : x < t => t > x + f.duration

\* The windows of m that are open.
Open(m, t) == {w \in DOMAIN window : <<w, m>> \in covers /\ IsOpen(window[w], t)}
=============================================================================
