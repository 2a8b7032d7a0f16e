---------------------------- MODULE MCDiscovery -----------------------------
(* A small instance of Discovery: two rules over overlapping ranges, one    *)
(* with a template.                                                         *)
EXTENDS Discovery

CONSTANTS r1, r2, web, k, q1

MCRules == {r1, r2}
MCCovers == [r \in MCRules |-> {1, 2}]
MCTemplated == {r1}
MCNames == {1, 2, web}
MCAddresses == {1, 2}
MCKeys == {k}
MCRequests == {q1}
NoClash == {"hosts", "rules"}
Clash == {"hosts", "clash"}
=============================================================================
