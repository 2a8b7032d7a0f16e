----------------------------- MODULE Inventory ------------------------------
(***************************************************************************)
(* The hosts of one owner with their items, and a template: the tables and *)
(* the requests that change them.  Discovery and Ingest share it.          *)
(*                                                                         *)
(* A host is known by its name (unique per owner, uq_hosts_owner_name), an *)
(* item by its key (unique per host, uq_items_host_key): `host` maps the   *)
(* names that are taken to their rows.  A statement that would break one   *)
(* of the constraints fails and changes nothing.  Each request is one      *)
(* short transaction on one row, hence one step; a row that has gone       *)
(* between its SELECT and its COMMIT makes it fail, as if it had come      *)
(* after the deletion.                                                     *)
(***************************************************************************)
EXTENDS Integers, FiniteSets

CONSTANTS
    Names,        \* names of hosts, addresses among them
    Addresses,    \* addresses of hosts
    Keys          \* keys of items

NoAddress == 0

ASSUME AddressesAssumption ==
    /\ Addresses \subseteq Nat \ {NoAddress}
    /\ Addresses \subseteq Names

VARIABLES
    host,         \* hosts and items
    template      \* keys of the template's items

HostType ==
    [address: Addresses \cup {NoAddress},
     items: SUBSET Keys,
     templated: BOOLEAN]    \* history: provisioned by a rule with a template

InventoryTypeOK ==
    /\ DOMAIN host \subseteq Names
    /\ \A n \in DOMAIN host : host[n] \in HostType
    /\ template \subseteq Keys

InventoryInit ==
    /\ host = [n \in {} |-> {}]
    /\ template \in SUBSET Keys

-----------------------------------------------------------------------------
(* HostService and ItemService                                             *)

NewHost(a, items, templated) ==
    [address |-> a, items |-> items, templated |-> templated]

HostCreate(n, a) ==
    /\ n \notin DOMAIN host
    /\ host' = [m \in DOMAIN host \cup {n} |->
                  IF m = n THEN NewHost(a, {}, FALSE) ELSE host[m]]
    /\ UNCHANGED template

\* The row of n gets the name m and the address a.
HostUpdate(n, m, a) ==
    /\ n \in DOMAIN host
    /\ m = n \/ m \notin DOMAIN host
    /\ host' = [l \in (DOMAIN host \ {n}) \cup {m} |->
                  IF l = m THEN [host[n] EXCEPT !.address = a] ELSE host[l]]
    /\ UNCHANGED template

\* The items go with the host (cascade).
HostDelete(n) ==
    /\ n \in DOMAIN host
    /\ host' = [m \in DOMAIN host \ {n} |-> host[m]]
    /\ UNCHANGED template

ItemCreate(n, k) ==
    /\ n \in DOMAIN host /\ k \notin host[n].items
    /\ host' = [host EXCEPT ![n].items = @ \cup {k}]
    /\ UNCHANGED template

ItemDelete(n, k) ==
    /\ n \in DOMAIN host /\ k \in host[n].items
    /\ host' = [host EXCEPT ![n].items = @ \ {k}]
    /\ UNCHANGED template

\* The row of k gets the key l.
ItemUpdate(n, k, l) ==
    /\ n \in DOMAIN host /\ k \in host[n].items
    /\ l \notin host[n].items
    /\ host' = [host EXCEPT ![n].items = (@ \ {k}) \cup {l}]
    /\ UNCHANGED template

-----------------------------------------------------------------------------
(* Requests of the owner: the API, then the pages' forms.                  *)

CreateHost(n, a) == HostCreate(n, a)

\* PATCH changes the fields it is given, the name or the address ...
UpdateHost(n, m, a) ==
    /\ n \in DOMAIN host
    /\ m = n \/ a = host[n].address
    /\ HostUpdate(n, m, a)

DeleteHost(n) == HostDelete(n)

CreateItem(n, k) == ItemCreate(n, k)
UpdateItem(n, k, l) == ItemUpdate(n, k, l)
DeleteItem(n, k) == ItemDelete(n, k)

AddTemplateItem(k) ==
    /\ k \notin template
    /\ template' = template \cup {k}
    /\ UNCHANGED host

DeleteTemplateItem(k) ==
    /\ k \in template
    /\ template' = template \ {k}
    /\ UNCHANGED host

\* Its items go with the template; what was applied to hosts stays.
DeleteTemplate ==
    /\ template' = {}
    /\ UNCHANGED host

CreateHostForm(n, a) == HostCreate(n, a)

\* ... the form saves both.
UpdateHostForm(n, m, a) == HostUpdate(n, m, a)

DeleteHostForm(n) == HostDelete(n)

CreateItemForm(n, k) == ItemCreate(n, k)
DeleteItemForm(n, k) == ItemDelete(n, k)
=============================================================================
