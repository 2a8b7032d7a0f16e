-------------------------- MODULE DiscoveryProofs ---------------------------
(***************************************************************************)
(* Theorems about Discovery for every set of rules, ranges and scanners.   *)
(***************************************************************************)
EXTENDS Discovery, FiniteSetTheorems, WellFoundedInduction, TLAPS

USE RulesAssumption, AddressesAssumption

-----------------------------------------------------------------------------
(* What a scanner holds.                                                   *)

\* The addresses it has flushed come before those it has still to add, and it
\* holds none before the probes have ended.
AscendingInv ==
    \A s \in Scanners :
       /\ \A a \in scan[s].pend, b \in scan[s].todo : a < b
       /\ scan[s].pc \in {"idle", "probe"} => scan[s].pend = {}

\* Between two hosts, a scan with a template holds a host back only if the
\* template has no items.
HeldBackInv ==
    \A s \in Scanners :
       scan[s].pc = "add" /\ scan[s].rule \in Templated /\ scan[s].pend # {} => template = {}

ScanInv == TypeOK /\ AscendingInv /\ HeldBackInv

\* An idle scanner holds nothing.
LEMMA IdleType == Idle \in ScanType
  BY DEF Idle, ScanType

\* The parts of TypeOK that a scanner's own step may change.
LEMMA ScannerType ==
  ASSUME TypeOK, NEW s \in Scanners
  PROVE  /\ scan \in [Scanners -> ScanType] /\ scan[s] \in ScanType
         /\ scan[s].todo \subseteq Addresses /\ scan[s].pend \subseteq Addresses
         /\ scan[s].rule \in Rules \cup {NoRule}
         /\ scan[s].pend \cap scan[s].todo = {}
  BY DEF TypeOK, ScanType

\* Committing the flushed hosts keeps the tables typed.
LEMMA CommittedType ==
  ASSUME TypeOK, NEW s \in Scanners, NEW items \in SUBSET Keys,
         host' = Committed(s, items), UNCHANGED template
  PROVE  InventoryTypeOK'
  <1>1. InventoryTypeOK /\ scan[s].pend \subseteq Addresses
    BY ScannerType DEF TypeOK
  <1>2. DOMAIN host' = DOMAIN host \cup scan[s].pend
    BY DEF Committed
  <1>3. ASSUME NEW n \in DOMAIN host' PROVE host'[n] \in HostType
    <2>1. CASE n \in scan[s].pend
      <3>1. host'[n] = NewHost(n, items, scan[s].rule \in Templated)
        BY <2>1, <1>2 DEF Committed
      <3>2. n \in Addresses /\ (scan[s].rule \in Templated) \in BOOLEAN
        BY <2>1, <1>1
      <3> QED
        BY <3>1, <3>2 DEF NewHost, HostType
    <2>2. CASE n \notin scan[s].pend
      BY <2>2, <1>1, <1>2, <1>3 DEF Committed, InventoryTypeOK
    <2> QED
      BY <2>1, <2>2
  <1> QED
    BY <1>1, <1>2, <1>3 DEF InventoryTypeOK

\* The columns of a new host.
LEMMA NewHostFields ==
  ASSUME NEW a, NEW items, NEW t
  PROVE  NewHost(a, items, t).items = items /\ NewHost(a, items, t).templated = t
  BY DEF NewHost

\* Committing hosts that get the whole template, or of a rule without one,
\* leaves every provisioned host complete.
LEMMA CommittedComplete ==
  ASSUME ProvisionedComplete, NEW s \in Scanners, NEW items,
         scan[s].rule \in Templated /\ scan[s].pend # {} => template \subseteq items,
         host' = Committed(s, items), UNCHANGED template
  PROVE  ProvisionedComplete'
  <1> SUFFICES ASSUME NEW n \in DOMAIN host', host'[n].templated
               PROVE  template \subseteq host'[n].items
    BY DEF ProvisionedComplete
  <1>1. DOMAIN host' = DOMAIN host \cup scan[s].pend
    BY DEF Committed
  <1>2. CASE n \in scan[s].pend
    <2>1. host'[n] = NewHost(n, items, scan[s].rule \in Templated)
      BY <1>1, <1>2 DEF Committed
    <2> DEFINE t == scan[s].rule \in Templated
    <2>2. t \in BOOLEAN /\ host'[n] = NewHost(n, items, t)
      BY <2>1
    <2>3. PICK v \in BOOLEAN : host'[n] = NewHost(n, items, v) /\ (v <=> t)
      BY <2>2
    <2>4. host'[n].templated = v /\ host'[n].items = items
      BY <2>3 DEF NewHost
    <2> QED
      BY <2>3, <2>4, <1>2
  <1>3. CASE n \notin scan[s].pend
    BY <1>1, <1>3 DEF Committed, ProvisionedComplete
  <1> QED
    BY <1>2, <1>3

-----------------------------------------------------------------------------
(* The steps.                                                              *)

\* The owner's requests on hosts.
LEMMA EditHostsKeeps ==
  ASSUME ScanInv, EditHosts
  PROVE  ScanInv' /\ (ProvisionedComplete => ProvisionedComplete')
  <1>1. PICK n \in Names, m \in Names, a \in Addresses \cup {NoAddress} :
           CreateHost(n, a) \/ UpdateHost(n, m, a) \/ DeleteHost(n)
    BY DEF EditHosts
  <1>2. InventoryTypeOK /\ TypeOK
    BY DEF ScanInv, TypeOK
  <1>3. /\ InventoryTypeOK' /\ UNCHANGED template
        /\ ProvisionedComplete => ProvisionedComplete'
    <2>1. CASE CreateHost(n, a)
      BY <2>1, <1>2 DEF CreateHost, HostCreate, NewHost, InventoryTypeOK, HostType,
                        ProvisionedComplete
    <2>2. CASE UpdateHost(n, m, a)
      BY <2>2, <1>2 DEF UpdateHost, HostUpdate, InventoryTypeOK, HostType, ProvisionedComplete
    <2>3. CASE DeleteHost(n)
      BY <2>3, <1>2 DEF DeleteHost, HostDelete, InventoryTypeOK, ProvisionedComplete
    <2> QED
      BY <1>1, <2>1, <2>2, <2>3
  <1>4. UNCHANGED <<rule, queue, scan>> /\ disturbances' \in 0 .. MaxDisturbances
    BY <1>2 DEF EditHosts, Disturb, TypeOK
  <1>5. TypeOK'
    BY <1>2, <1>3, <1>4 DEF TypeOK
  <1> QED
    BY <1>3, <1>4, <1>5 DEF ScanInv, AscendingInv, HeldBackInv

\* A scan begins.
LEMMA BeginScanKeeps ==
  ASSUME ScanInv, NEW s \in Scanners, NEW r \in Rules, BeginScan(s, r),
         UNCHANGED <<host, template, rule>>,
         queue' \subseteq Rules, disturbances' \in 0 .. MaxDisturbances
  PROVE  ScanInv'
  <1> DEFINE new == [Idle EXCEPT !.pc = "probe", !.rule = r, !.todo = Candidates(r)]
  <1>1. Candidates(r) \subseteq Addresses
    BY DEF Candidates
  <1>2. new \in ScanType /\ new.pend = {} /\ new.pc = "probe"
    BY <1>1 DEF Idle, ScanType
  <1>3. scan' = [scan EXCEPT ![s] = new]
    BY DEF BeginScan
  <1> HIDE DEF new
  <1>4. TypeOK /\ AscendingInv /\ HeldBackInv
    BY DEF ScanInv
  <1>5. TypeOK'
    BY <1>2, <1>3, <1>4 DEF TypeOK, InventoryTypeOK
  <1> QED
    BY <1>2, <1>3, <1>4, <1>5 DEF ScanInv, AscendingInv, HeldBackInv, TypeOK

\* A scan ends, in one way or the other.
LEMMA EndScanKeeps ==
  ASSUME ScanInv, NEW s \in Scanners, scan' = [scan EXCEPT ![s] = Idle],
         InventoryTypeOK', UNCHANGED template,
         rule' \in [Rules -> {"none", "due", "fresh", "off", "deleted"}],
         queue' \subseteq Rules, disturbances' \in 0 .. MaxDisturbances
  PROVE  ScanInv'
  <1>1. TypeOK /\ AscendingInv /\ HeldBackInv
    BY DEF ScanInv
  <1>2. Idle.pend = {} /\ Idle.pc = "idle"
    BY DEF Idle
  <1>3. TypeOK'
    BY <1>1, <1>2, IdleType DEF TypeOK
  <1> QED
    BY <1>1, <1>2, <1>3 DEF ScanInv, AscendingInv, HeldBackInv, TypeOK

\* The probes end.
LEMMA ProbeKeeps ==
  ASSUME ScanInv, NEW s \in Scanners, Probe(s)
  PROVE  ScanInv'
  <1>1. TypeOK /\ AscendingInv /\ HeldBackInv
    BY DEF ScanInv
  <1>2. PICK up \in SUBSET scan[s].todo :
           scan' = [scan EXCEPT ![s].pc = "add", ![s].todo = up]
    BY DEF Probe
  <1> DEFINE new == [scan[s] EXCEPT !.pc = "add", !.todo = up]
  <1>a. scan[s].pend = {} /\ scan[s] \in ScanType /\ up \subseteq Addresses
    BY <1>1, ScannerType DEF Probe, AscendingInv
  <1>b. new \in ScanType /\ new.pend = {}
    BY <1>a DEF ScanType
  <1>c. scan' = [scan EXCEPT ![s] = new]
    BY <1>1, <1>2 DEF TypeOK
  <1> HIDE DEF new
  <1>3. /\ scan'[s].pend = {}
        /\ \A t \in Scanners : t # s => scan'[t] = scan[t]
        /\ scan' \in [Scanners -> ScanType]
    BY <1>1, <1>b, <1>c DEF TypeOK
  <1>4. UNCHANGED <<host, template, rule, queue, disturbances>>
    BY DEF Probe
  <1>5. TypeOK'
    BY <1>1, <1>3, <1>4 DEF TypeOK, InventoryTypeOK
  <1> QED
    BY <1>1, <1>3, <1>4, <1>5 DEF ScanInv, AscendingInv, HeldBackInv

\* The lowest address is added: it is above all that were added before, and
\* below all that are left.
LEMMA AddHostKeeps ==
  ASSUME ScanInv, NEW s \in Scanners, AddHost(s)
  PROVE  ScanInv'
  <1>1. TypeOK /\ AscendingInv /\ HeldBackInv
    BY DEF ScanInv
  <1>2. PICK a \in NextAddress(s) :
           scan' = [scan EXCEPT ![s].todo = @ \ {a}, ![s].pend = @ \cup {a},
                      ![s].pc = IF scan[s].rule \in Templated THEN "template" ELSE "add"]
    BY DEF AddHost
  <1>3. /\ a \in scan[s].todo /\ scan[s].todo \subseteq Addresses
        /\ scan[s].pend \subseteq Addresses /\ scan[s] \in ScanType
        /\ \A b \in scan[s].todo : a <= b
    BY <1>1, <1>2, ScannerType DEF NextAddress
  <1>4. /\ scan'[s].todo = scan[s].todo \ {a} /\ scan'[s].pend = scan[s].pend \cup {a}
        /\ scan'[s].pc \in {"template", "add"}
        /\ scan'[s].rule = scan[s].rule
        /\ scan'[s].rule \in Templated => scan'[s].pc = "template"
        /\ scan' \in [Scanners -> ScanType]
        /\ \A t \in Scanners : t # s => scan'[t] = scan[t]
    BY <1>1, <1>2, <1>3 DEF TypeOK, ScanType
  <1>5. ASSUME NEW p \in scan'[s].pend, NEW b \in scan'[s].todo
        PROVE  p < b
    <2>1. b \in scan[s].todo /\ b # a /\ a <= b /\ a \in Nat /\ b \in Nat
      BY <1>3, <1>4, <1>5
    <2>2. CASE p = a
      BY <2>1, <2>2
    <2>3. CASE p \in scan[s].pend
      BY <1>1, <2>1, <2>3 DEF AscendingInv
    <2> QED
      BY <1>4, <2>2, <2>3
  <1>6. UNCHANGED <<host, template, rule, queue, disturbances>>
    BY DEF AddHost
  <1>7. scan'[s].pend \cap scan'[s].todo = {}
    BY <1>1, <1>4, ScannerType
  <1>8. TypeOK'
    BY <1>1, <1>4, <1>6, <1>7 DEF TypeOK, InventoryTypeOK
  <1> QED
    BY <1>1, <1>4, <1>5, <1>6, <1>8 DEF ScanInv, AscendingInv, HeldBackInv

\* The template is applied to what was flushed.
LEMMA ApplyKeeps ==
  ASSUME ScanInv, NEW s \in Scanners, ApplyRuleTemplate(s)
  PROVE  ScanInv' /\ (ProvisionedComplete => ProvisionedComplete')
  <1>1. TypeOK /\ AscendingInv /\ HeldBackInv
    BY DEF ScanInv
  <1>2. UNCHANGED <<template, rule, queue, disturbances>>
    BY DEF ApplyRuleTemplate
  <1>3. CASE template = {}
    <2>1. scan' = [scan EXCEPT ![s].pc = "add"] /\ UNCHANGED host
      BY <1>3 DEF ApplyRuleTemplate
    <2>2. /\ scan' \in [Scanners -> ScanType]
          /\ \A t \in Scanners : scan'[t].pend = scan[t].pend /\ scan'[t].todo = scan[t].todo
          /\ \A t \in Scanners : scan'[t].pc \in {"idle", "probe"} => scan'[t].pc = scan[t].pc
      BY <1>1, <2>1 DEF TypeOK, ScanType
    <2>3. TypeOK'
      BY <1>1, <1>2, <2>1, <2>2 DEF TypeOK, InventoryTypeOK
    <2> QED
      BY <1>1, <1>2, <1>3, <2>1, <2>2, <2>3
      DEF ScanInv, AscendingInv, HeldBackInv, ProvisionedComplete
  <1>4. CASE template # {}
    <2>1. /\ host' = Committed(s, template)
          /\ scan' = [scan EXCEPT ![s].pc = "add", ![s].pend = {}]
      BY <1>4 DEF ApplyRuleTemplate
    <2>2. /\ scan' \in [Scanners -> ScanType]
          /\ scan'[s].pend = {} /\ scan'[s].todo = scan[s].todo
          /\ \A t \in Scanners : t # s => scan'[t] = scan[t]
      BY <1>1, <2>1 DEF TypeOK, ScanType
    <2>3. InventoryTypeOK'
      BY <1>1, <1>2, <2>1, CommittedType DEF TypeOK, InventoryTypeOK
    <2>4. TypeOK'
      BY <1>1, <1>2, <2>2, <2>3 DEF TypeOK
    <2>5. ProvisionedComplete => ProvisionedComplete'
      BY <1>2, <2>1, CommittedComplete
    <2> QED
      BY <1>1, <1>2, <2>2, <2>4, <2>5 DEF ScanInv, AscendingInv, HeldBackInv
  <1> QED
    BY <1>3, <1>4

\* The scan commits what is left of it.
LEMMA FinishKeeps ==
  ASSUME ScanInv, NEW s \in Scanners, FinishScan(s)
  PROVE  ScanInv' /\ (ProvisionedComplete => ProvisionedComplete')
  <1>1. TypeOK /\ HeldBackInv
    BY DEF ScanInv
  <1>2. /\ scan[s].pc = "add" /\ host' = Committed(s, {})
        /\ scan' = [scan EXCEPT ![s] = Idle]
        /\ UNCHANGED <<template, queue, disturbances>>
        /\ rule' = [rule EXCEPT ![scan[s].rule] = IF @ = "off" THEN "off" ELSE "fresh"]
    BY DEF FinishScan
  <1>3. InventoryTypeOK'
    BY <1>1, <1>2, CommittedType
  <1>4. rule' \in [Rules -> {"none", "due", "fresh", "off", "deleted"}]
    BY <1>1, <1>2 DEF TypeOK
  <1>5. ScanInv'
    BY <1>1, <1>2, <1>3, <1>4, EndScanKeeps DEF TypeOK
  <1>6. scan[s].rule \in Templated /\ scan[s].pend # {} => template \subseteq {}
    BY <1>1, <1>2 DEF HeldBackInv
  <1> QED
    BY <1>2, <1>5, <1>6, CommittedComplete

\* A scan is aborted.
LEMMA AbortKeeps ==
  ASSUME ScanInv, NEW s \in Scanners, NameTaken(s) \/ RuleGone(s) \/ ScanFails(s)
  PROVE  ScanInv' /\ UNCHANGED <<host, template>>
  <1>1. TypeOK
    BY DEF ScanInv
  <1>2. Abort(s) /\ UNCHANGED <<host, template, rule>> /\ disturbances' \in 0 .. MaxDisturbances
    BY <1>1 DEF NameTaken, RuleGone, ScanFails, Disturb, TypeOK
  <1>3. scan' = [scan EXCEPT ![s] = Idle] /\ queue' \subseteq Rules
    BY <1>1, <1>2 DEF Abort, TypeOK
  <1>4. InventoryTypeOK' /\ rule' \in [Rules -> {"none", "due", "fresh", "off", "deleted"}]
    BY <1>1, <1>2 DEF TypeOK, InventoryTypeOK
  <1> QED
    BY <1>2, <1>3, <1>4, EndScanKeeps

\* Rules are created, become due and are deleted; the job's cycle begins.
LEMMA RulesKeep ==
  ASSUME ScanInv,
         \/ StartCycle
         \/ \E r \in Rules : \/ CreateRule(r) \/ CreateRuleForm(r) \/ BecomesDue(r)
                             \/ DeleteRule(r) \/ DeleteRuleForm(r)
  PROVE  ScanInv' /\ UNCHANGED <<host, template>>
  <1>1. TypeOK
    BY DEF ScanInv
  <1> DEFINE Kept ==
               /\ UNCHANGED <<host, template, scan>>
               /\ rule' \in [Rules -> {"none", "due", "fresh", "off", "deleted"}]
               /\ queue' \subseteq Rules /\ disturbances' \in 0 .. MaxDisturbances
  <1>2. Kept
    <2>1. CASE StartCycle
      BY <1>1, <2>1 DEF StartCycle, TypeOK
    <2>2. ASSUME NEW r \in Rules, CreateRule(r) \/ CreateRuleForm(r) \/ BecomesDue(r)
          PROVE  Kept
      <3>1. CreateRule(r) \/ BecomesDue(r)
        BY <2>2 DEF CreateRuleForm
      <3> QED
        BY <1>1, <3>1 DEF CreateRule, BecomesDue, TypeOK
    <2>3. ASSUME NEW r \in Rules, DeleteRule(r) \/ DeleteRuleForm(r)
          PROVE  Kept
      <3>1. DeleteRule(r)
        BY <2>3 DEF DeleteRuleForm
      <3> QED
        BY <1>1, <3>1 DEF DeleteRule, Disturb, TypeOK
    <2> QED
      BY <2>1, <2>2, <2>3
  <1> QED
    BY <1>1, <1>2 DEF ScanInv, AscendingInv, HeldBackInv, TypeOK, InventoryTypeOK

-----------------------------------------------------------------------------
(* The theorems.                                                           *)

LEMMA ScanInit == Init => ScanInv
  <1> SUFFICES ASSUME Init PROVE ScanInv
    OBVIOUS
  <1>1. TypeOK
    BY IdleType DEF Init, InventoryInit, TypeOK, InventoryTypeOK, Idle
  <1> QED
    BY <1>1 DEF Init, ScanInv, AscendingInv, HeldBackInv, Idle

LEMMA ScanNext ==
  ASSUME ScanInv, [Next]_vars
  PROVE  ScanInv' /\ (ProvisionedComplete => ProvisionedComplete')
  <1>1. ASSUME NEW s \in Scanners, ScanStep(s) \/ ScanFails(s)
        PROVE  ScanInv' /\ (ProvisionedComplete => ProvisionedComplete')
    <2>1. CASE Probe(s)
      <3>1. UNCHANGED <<host, template>>
        BY <2>1 DEF Probe
      <3> QED
        BY <2>1, <3>1, ProbeKeeps DEF ProvisionedComplete
    <2>2. CASE AddHost(s)
      <3>1. UNCHANGED <<host, template>>
        BY <2>2 DEF AddHost
      <3> QED
        BY <2>2, <3>1, AddHostKeeps DEF ProvisionedComplete
    <2>3. CASE ApplyRuleTemplate(s)
      BY <2>3, ApplyKeeps
    <2>4. CASE FinishScan(s)
      BY <2>4, FinishKeeps
    <2>5. CASE NameTaken(s) \/ RuleGone(s) \/ ScanFails(s)
      BY <2>5, AbortKeeps DEF ProvisionedComplete
    <2> QED
      BY <1>1, <2>1, <2>2, <2>3, <2>4, <2>5 DEF ScanStep
  <1>2. ASSUME NEW s \in Requests, NEW r \in Rules, ScanNow(s, r) \/ ScanNowForm(s, r)
        PROVE  ScanInv' /\ (ProvisionedComplete => ProvisionedComplete')
    <2>1. ScanNow(s, r)
      BY <1>2 DEF ScanNowForm
    <2>2. /\ s \in Scanners /\ BeginScan(s, r) /\ UNCHANGED <<host, template, rule>>
          /\ queue' \subseteq Rules /\ disturbances' \in 0 .. MaxDisturbances
      BY <2>1 DEF ScanNow, Disturb, Scanners, ScanInv, TypeOK
    <2> QED
      BY <2>2, BeginScanKeeps DEF ProvisionedComplete
  <1>3. CASE NextRule
    <2>1. PICK r \in queue : BeginScan("job", r) /\ queue' = queue \ {r}
      BY <1>3 DEF NextRule
    <2>2. /\ "job" \in Scanners /\ r \in Rules /\ UNCHANGED <<host, template, rule>>
          /\ queue' \subseteq Rules /\ disturbances' \in 0 .. MaxDisturbances
      BY <1>3, <2>1 DEF NextRule, Scanners, ScanInv, TypeOK
    <2> QED
      BY <2>1, <2>2, BeginScanKeeps DEF ProvisionedComplete
  <1>4. CASE EditHosts
    BY <1>4, EditHostsKeeps
  <1>5. CASE \/ StartCycle
             \/ \E r \in Rules : \/ CreateRule(r) \/ CreateRuleForm(r) \/ BecomesDue(r)
                                 \/ DeleteRule(r) \/ DeleteRuleForm(r)
    BY <1>5, RulesKeep DEF ProvisionedComplete
  <1>6. CASE UNCHANGED vars
    BY <1>6 DEF vars, ScanInv, AscendingInv, HeldBackInv, TypeOK, InventoryTypeOK,
                ProvisionedComplete
  <1> QED
    BY <1>1, <1>2, <1>3, <1>4, <1>5, <1>6 DEF Next

\* Type correctness: rows, rules and scans are what the tables and scan_rule
\* may hold, and a scanner never has a host both flushed and still to add.
THEOREM TypeCorrect == Spec => []TypeOK
  <1>1. ScanInv => TypeOK
    BY DEF ScanInv
  <1> QED
    BY <1>1, ScanInit, ScanNext, PTL DEF Spec

\* However scans, edits and failures interleave, a provisioned host has the
\* items of its rule's template: host and items are committed together.
THEOREM HostsComplete == Spec => []ProvisionedComplete
  <1>1. Init => ProvisionedComplete
    BY DEF Init, InventoryInit, ProvisionedComplete
  <1> QED
    BY <1>1, ScanInit, ScanNext, PTL DEF Spec

\* A scan waits for an address below those its holder has still to add.
LEMMA WaitsBelow ==
  ASSUME ScanInv, NEW s \in Scanners, NEW t \in Scanners, WaitsFor(s, t),
         NEW a \in NextAddress(s), NEW b \in scan[t].todo
  PROVE  a < b
  <1>1. PICK c \in NextAddress(s) : c \in scan[t].pend
    BY DEF WaitsFor
  <1>2. a \in scan[s].todo /\ c \in scan[s].todo /\ a <= c /\ c <= a
    BY <1>1 DEF NextAddress
  <1>3. a \in Nat /\ c \in Nat
    BY <1>2, ScannerType DEF ScanInv
  <1>4. a = c
    BY <1>2, <1>3
  <1> QED
    BY <1>1, <1>4 DEF ScanInv, AscendingInv

\* A scan waits for an address lower than any the holder may come to wait for.
THEOREM WaitsAscend ==
  Spec => [](\A s, t \in Scanners : WaitsFor(s, t) =>
                \A a \in NextAddress(s), b \in scan[t].todo : a < b)
  <1>1. ScanInv => \A s, t \in Scanners : WaitsFor(s, t) =>
                      \A a \in NextAddress(s), b \in scan[t].todo : a < b
    BY WaitsBelow
  <1> QED
    BY <1>1, ScanInit, ScanNext, PTL DEF Spec

\* Of finitely many members of a family that are finite subsets of one set,
\* one has no strict subset in the family.
LEMMA MinimalMember ==
  ASSUME NEW S, IsFiniteSet(S), NEW F \in SUBSET (SUBSET S), F # {}
  PROVE  \E X \in F : \A Y \in F : Y \subseteq X => Y = X
  <1>1. FiniteSubsetsOf(S) = SUBSET S
    BY FS_FiniteSubsetsOfFinite
  <1>2. IsWellFoundedOn(StrictSubsetOrdering(S), SUBSET S)
    BY <1>1, FS_StrictSubsetOrderingWellFounded
  <1>3. PICK X \in F : \A Y \in F : <<Y, X>> \notin StrictSubsetOrdering(S)
    BY <1>2, WFMin
  <1> QED
    BY <1>3 DEF StrictSubsetOrdering

\* In a finite group one member is not below any other.
LEMMA HighestMember ==
  ASSUME NEW S, IsFiniteSet(S), S # {}, NEW rank \in [S -> Nat]
  PROVE  \E s \in S : \A t \in S : ~(rank[s] < rank[t])
  <1> DEFINE above == [s \in S |-> {t \in S : rank[s] < rank[t]}]
             F == {above[s] : s \in S}
  <1>1. F \in SUBSET (SUBSET S) /\ F # {}
    <2>1. \A s \in S : above[s] \in SUBSET S
      OBVIOUS
    <2>2. PICK s \in S : TRUE
      OBVIOUS
    <2>3. above[s] \in F
      BY <2>2
    <2> HIDE DEF above
    <2> QED
      BY <2>1, <2>3
  <1>2. PICK X \in F : \A Y \in F : Y \subseteq X => Y = X
    <2> HIDE DEF F
    <2> QED
      BY <1>1, MinimalMember
  <1>3. PICK s \in S : X = above[s]
    OBVIOUS
  <1>4. SUFFICES ASSUME NEW t \in S, rank[s] < rank[t] PROVE FALSE
    OBVIOUS
  <1>5. above[t] \subseteq above[s] /\ t \in above[s] /\ t \notin above[t]
    BY <1>4
  <1> QED
    BY <1>2, <1>3, <1>5

\* However many scans overlap, on ranges of any size, no group of them waits
\* in a circle: a scan waits for an address below those its holder has still
\* to add, so the one that wants the highest address waits for nobody.
THEOREM ScansNeverDeadlock == Spec => []NoLockCycle
  <1>1. ScanInv => NoLockCycle
    <2> SUFFICES ASSUME ScanInv, NEW S \in SUBSET Scanners, S # {}, IsFiniteSet(S),
                        \A s \in S : \E t \in S : WaitsFor(s, t)
                 PROVE  FALSE
      BY DEF NoLockCycle
    <2> DEFINE wants == [s \in S |-> CHOOSE a \in NextAddress(s) : TRUE]
    <2>1. ASSUME NEW s \in S
          PROVE  wants[s] \in NextAddress(s) /\ wants[s] \in Nat /\ wants[s] \in scan[s].todo
      <3>1. NextAddress(s) # {}
        BY DEF WaitsFor
      <3>2. NextAddress(s) \subseteq Nat /\ NextAddress(s) \subseteq scan[s].todo
        BY ScannerType DEF NextAddress, ScanInv
      <3> QED
        BY <3>1, <3>2
    <2>2. wants \in [S -> Nat]
      BY <2>1
    <2>3. PICK s \in S : \A t \in S : ~(wants[s] < wants[t])
      BY <2>2, HighestMember
    <2>4. PICK t \in S : WaitsFor(s, t)
      OBVIOUS
    <2>5. wants[s] < wants[t]
      BY <2>1, <2>4, WaitsBelow
    <2> QED
      BY <2>3, <2>5
  <1> QED
    BY <1>1, ScanInit, ScanNext, PTL DEF Spec
=============================================================================
