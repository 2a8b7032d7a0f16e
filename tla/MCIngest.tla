------------------------------ MODULE MCIngest ------------------------------
(* A small instance of Ingest: two agents that push the same new key, a     *)
(* user who pushes to it, and an apply that creates it.                     *)
EXTENDS Ingest

CONSTANTS a1, a2, u1, q1, web, db, cpu, mem

MCAgents == {a1, a2}
MCUsers == {u1}
MCApplies == {q1}
MCNames == {web, db}
MCKeys == {cpu, mem}
MCTarget == [p \in MCAgents \cup MCUsers |-> [host |-> web, key |-> cpu]]
NoAddresses == {}
=============================================================================
