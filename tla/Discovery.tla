----------------------------- MODULE Discovery ------------------------------
(***************************************************************************)
(* DiscoveryService.scan_rule, run by the discovery job and by the owner's *)
(* "scan now" requests, over the hosts of Inventory.                       *)
(*                                                                         *)
(* The job is one at a time (max_instances=1) and uses one session for all *)
(* the rules of a cycle.  A request has a session of its own.  A host that *)
(* was flushed and not yet committed is seen by nobody else, but its entry *)
(* in the unique index makes every other session that wants the name wait. *)
(***************************************************************************)
EXTENDS Inventory

CONSTANTS
    Rules,
    Covers,       \* the addresses of a rule's CIDR
    Templated,    \* the rules that have the template
    Requests,     \* "scan now" requests that may be under way
    Edits,        \* what the owner does meanwhile, a subset of EditKinds
    MaxDisturbances   \* bound of the model: edits, requests and failures

EditKinds ==
    { "hosts",    \* creates, changes and deletes hosts
      "clash",    \* gives hosts an address as name that is not theirs
      "rules" }   \* deletes rules

ASSUME RulesAssumption ==
    /\ Covers \in [Rules -> SUBSET Addresses]
    /\ Templated \subseteq Rules
    /\ Edits \subseteq EditKinds
    /\ "job" \notin Requests
    /\ MaxDisturbances \in Nat

VARIABLES
    rule,           \* per rule: "none" (not created yet), "due" or "fresh" (by
                    \* last_run_at), "off" (not enabled), "deleted"
    queue,          \* the rules the job has still to scan in this cycle
    scan,           \* per scanner: pc and the locals of scan_rule
    disturbances    \* history: number of edits, requests and failures

vars == <<host, template, rule, queue, scan, disturbances>>

Scanners == {"job"} \cup Requests

NoRule == "none"

ScanType ==
    [pc: {"idle", "probe", "add", "template"},
     rule: Rules \cup {NoRule},
     todo: SUBSET Addresses,    \* candidates, then those that answered
     pend: SUBSET Addresses]    \* hosts flushed and not committed

Idle == [pc |-> "idle", rule |-> NoRule, todo |-> {}, pend |-> {}]

TypeOK ==
    /\ InventoryTypeOK
    /\ rule \in [Rules -> {"none", "due", "fresh", "off", "deleted"}]
    /\ queue \subseteq Rules
    /\ scan \in [Scanners -> ScanType]
    /\ \A s \in Scanners : scan[s].pend \cap scan[s].todo = {}
    /\ disturbances \in 0 .. MaxDisturbances

Init ==
    /\ InventoryInit
    /\ rule = [r \in Rules |-> "none"]
    /\ queue = {}
    /\ scan = [s \in Scanners |-> Idle]
    /\ disturbances = 0

Disturb ==
    /\ disturbances < MaxDisturbances
    /\ disturbances' = disturbances + 1

-----------------------------------------------------------------------------
(* scan_rule                                                               *)

\* Names in the unique index that belong to uncommitted rows of others.
LockedFor(s) == UNION {scan[t].pend : t \in Scanners \ {s}}

\* Mutant: addresses of hosts are not looked up.
Candidates_all(r) == Covers[r]

\* The addresses of the range that no host has.
Candidates(r) == {a \in Covers[r] : \A n \in DOMAIN host : host[n].address # a}

BeginScan(s, r) ==
    scan' = [scan EXCEPT ![s] =
               [Idle EXCEPT !.pc = "probe", !.rule = r, !.todo = Candidates(r)]]

\* Some of the candidates answer.
Probe(s) ==
    /\ scan[s].pc = "probe"
    /\ \E up \in SUBSET scan[s].todo :
          scan' = [scan EXCEPT ![s].pc = "add", ![s].todo = up]
    /\ UNCHANGED <<host, template, rule, queue, disturbances>>

\* Mutant: hosts are added in the order in which their addresses answered.
NextAddress_any(s) == scan[s].todo

\* gather keeps the order of the candidates: the lowest address is next.
NextAddress(s) == {a \in scan[s].todo : \A b \in scan[s].todo : a <= b}

\* Mutant: the address just added stays on the list.
AddHost_again(s) ==
    /\ scan[s].pc = "add"
    /\ \E a \in NextAddress(s) :
          /\ a \notin LockedFor(s) /\ a \notin DOMAIN host
          /\ scan' = [scan EXCEPT ![s].pend = @ \cup {a},
                        ![s].pc = IF scan[s].rule \in Templated THEN "template" ELSE "add"]
    /\ UNCHANGED <<host, template, rule, queue, disturbances>>

\* session.add and flush, once no other session holds the name.
AddHost(s) ==
    /\ scan[s].pc = "add"
    /\ \E a \in NextAddress(s) :
          /\ a \notin LockedFor(s) /\ a \notin DOMAIN host
          /\ scan' = [scan EXCEPT ![s].todo = @ \ {a}, ![s].pend = @ \cup {a},
                        ![s].pc = IF scan[s].rule \in Templated THEN "template" ELSE "add"]
    /\ UNCHANGED <<host, template, rule, queue, disturbances>>

\* The flushed hosts become visible, with the given items.
Committed(s, items) ==
    [n \in DOMAIN host \cup scan[s].pend |->
       IF n \in scan[s].pend THEN NewHost(n, items, scan[s].rule \in Templated)
                             ELSE host[n]]

\* Mutant: the host is committed first, its items are added by a second commit.
ApplyRuleTemplate_twoCommits(s) ==
    /\ scan[s].pc = "template"
    /\ IF scan[s].pend # {}
       THEN /\ host' = Committed(s, {})
            /\ scan' = [scan EXCEPT ![s].pend = {}]
       ELSE /\ host' = [n \in DOMAIN host |->
                          IF host[n].templated THEN [host[n] EXCEPT !.items = template]
                                               ELSE host[n]]
            /\ scan' = [scan EXCEPT ![s].pc = "add"]
    /\ UNCHANGED <<template, rule, queue, disturbances>>

\* apply_to_host on the host just flushed: its commit is the host's commit,
\* and there is none when the template has no items.
ApplyRuleTemplate(s) ==
    /\ scan[s].pc = "template"
    /\ IF template = {}
       THEN scan' = [scan EXCEPT ![s].pc = "add"] /\ UNCHANGED host
       ELSE /\ host' = Committed(s, template)
            /\ scan' = [scan EXCEPT ![s].pc = "add", ![s].pend = {}]
    /\ UNCHANGED <<template, rule, queue, disturbances>>

\* last_run_at is stamped and committed with the hosts still pending.
FinishScan(s) ==
    /\ scan[s].pc = "add" /\ scan[s].todo = {}
    /\ rule[scan[s].rule] # "deleted"
    /\ host' = Committed(s, {})
    /\ rule' = [rule EXCEPT ![scan[s].rule] = IF @ = "off" THEN "off" ELSE "fresh"]
    /\ scan' = [scan EXCEPT ![s] = Idle]
    /\ UNCHANGED <<template, queue, disturbances>>

\* The scan raises.  What was not committed is rolled back.  The job catches
\* the exception, but its session is unusable from then on: nothing more is
\* scanned in this cycle.
Abort(s) ==
    /\ scan' = [scan EXCEPT ![s] = Idle]
    /\ queue' = IF s = "job" THEN {} ELSE queue

\* The name is taken: by another scan, or by a host with another address.
NameTaken(s) ==
    /\ scan[s].pc = "add"
    /\ \E a \in NextAddress(s) : a \in DOMAIN host
    /\ Abort(s)
    /\ UNCHANGED <<host, template, rule, disturbances>>

\* The rule was deleted meanwhile: the UPDATE matches no row.
RuleGone(s) ==
    /\ scan[s].pc = "add" /\ scan[s].todo = {}
    /\ rule[scan[s].rule] = "deleted"
    /\ Abort(s)
    /\ UNCHANGED <<host, template, rule, disturbances>>

\* A statement fails, or the process stops.
ScanFails(s) ==
    /\ scan[s].pc # "idle"
    /\ Disturb
    /\ Abort(s)
    /\ UNCHANGED <<host, template, rule>>

ScanStep(s) ==
    \/ Probe(s) \/ AddHost(s) \/ ApplyRuleTemplate(s) \/ FinishScan(s)
    \/ NameTaken(s) \/ RuleGone(s)

-----------------------------------------------------------------------------
(* The job, the requests and time.                                         *)

\* _discovery_job: due_rules.
StartCycle ==
    /\ scan["job"].pc = "idle" /\ queue = {}
    /\ queue' = {r \in Rules : rule[r] = "due"}
    /\ UNCHANGED <<host, template, rule, scan, disturbances>>

\* The rules come in no particular order.
NextRule ==
    /\ scan["job"].pc = "idle"
    /\ \E r \in queue : BeginScan("job", r) /\ queue' = queue \ {r}
    /\ UNCHANGED <<host, template, rule, disturbances>>

ScanNow(s, r) ==
    /\ scan[s].pc = "idle" /\ rule[r] \in {"due", "fresh", "off"}
    /\ Disturb
    /\ BeginScan(s, r)
    /\ UNCHANGED <<host, template, rule, queue>>

\* interval_seconds pass since last_run_at.
BecomesDue(r) ==
    /\ rule[r] = "fresh"
    /\ rule' = [rule EXCEPT ![r] = "due"]
    /\ UNCHANGED <<host, template, queue, scan, disturbances>>

\* A new rule was never run: it is due, unless it is created disabled.
CreateRule(r) ==
    /\ rule[r] = "none"
    /\ \E st \in {"due", "off"} : rule' = [rule EXCEPT ![r] = st]
    /\ UNCHANGED <<host, template, queue, scan, disturbances>>

DeleteRule(r) ==
    /\ "rules" \in Edits /\ rule[r] \in {"due", "fresh", "off"}
    /\ Disturb
    /\ rule' = [rule EXCEPT ![r] = "deleted"]
    /\ UNCHANGED <<host, template, queue, scan>>

\* The forms of the discovery page.
CreateRuleForm(r) == CreateRule(r)
ScanNowForm(s, r) == ScanNow(s, r)
DeleteRuleForm(r) == DeleteRule(r)

\* No host bears an address as its name that is not its own.
NamesMatch(h) == \A n \in DOMAIN h \cap Addresses : h[n].address = n

\* A request that wants the name of a flushed host waits for its commit.
EditHosts ==
    /\ "hosts" \in Edits
    /\ Disturb
    /\ \E n, m \in Names, a \in Addresses \cup {NoAddress} :
          CreateHost(n, a) \/ UpdateHost(n, m, a) \/ DeleteHost(n)
    /\ "clash" \in Edits \/ NamesMatch(host')
    /\ (DOMAIN host' \ DOMAIN host) \cap UNION {scan[s].pend : s \in Scanners} = {}
    /\ UNCHANGED <<rule, queue, scan>>

Next ==
    \/ \E s \in Scanners : ScanStep(s) \/ ScanFails(s)
    \/ \E s \in Requests, r \in Rules : ScanNow(s, r) \/ ScanNowForm(s, r)
    \/ StartCycle \/ NextRule \/ EditHosts
    \/ \E r \in Rules :
          \/ CreateRule(r) \/ CreateRuleForm(r) \/ BecomesDue(r)
          \/ DeleteRule(r) \/ DeleteRuleForm(r)

Spec == Init /\ [][Next]_vars

\* The job runs every interval; probes have a timeout and statements end.
FairSpec ==
    /\ Spec
    /\ WF_vars(StartCycle \/ NextRule)
    /\ \A s \in Scanners : WF_vars(ScanStep(s))

-----------------------------------------------------------------------------
\* "Provisioned as hosts, with the rule's template items applied": a host that
\* a rule with a template provisioned has the template's items, wherever the
\* scan was interrupted.  A later scan would take it for known and never
\* complete it.
ProvisionedComplete ==
    \A n \in DOMAIN host : host[n].templated => template \subseteq host[n].items

WaitsFor(s, t) ==
    scan[s].pc = "add" /\ s # t /\ NextAddress(s) \cap scan[t].pend # {}

\* Scans of overlapping ranges never wait for each other's uncommitted hosts in
\* a circle: in every group of scans one waits for none of the others.
NoLockCycle ==
    \A S \in SUBSET Scanners : S # {} /\ IsFiniteSet(S) =>
       \E s \in S : \A t \in S : ~WaitsFor(s, t)

\* "Is scanned on a schedule": a due rule is scanned after a bounded number of
\* disturbances, whatever other rules did to the session they share.
DueRulesScanned == \A r \in Rules : (rule[r] = "due") ~> (rule[r] # "due")
=============================================================================
