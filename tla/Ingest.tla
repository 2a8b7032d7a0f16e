------------------------------- MODULE Ingest -------------------------------
(***************************************************************************)
(* Pushing samples: POST /ingest (an agent with a token, naming host and   *)
(* key), POST /hosts/{h}/items/{i}/values (a user, naming the rows), and   *)
(* POST /templates/{t}/apply, over the hosts of Inventory.                 *)
(*                                                                         *)
(* Each request goes through several awaits and keeps the rows it found:   *)
(* `req` names a row by the name or key it bears now, so a reference       *)
(* follows a renaming and is Gone after a deletion.  A row inserted under  *)
(* a row that has gone breaks a foreign key, a second row with the same    *)
(* (host, key) the unique constraint: the request ends with a 500 and its  *)
(* last statement has no effect.                                           *)
(***************************************************************************)
EXTENDS Inventory

CONSTANTS
    Agents,       \* push by name and key, with the token
    Users,        \* push to an item they look up, without a token
    Applies,      \* requests that apply the template to a host
    Target,       \* per agent and user: the host and the key it pushes to
    MaxEdits      \* bound of the model: edits by the owner and failures

None == "none"    \* not looked up yet
Gone == "gone"    \* deleted since it was looked up

ASSUME TargetAssumption ==
    /\ Target \in [Agents \cup Users -> [host: Names, key: Keys]]
    /\ Agents \cap Users = {} /\ (Agents \cup Users) \cap Applies = {}
    /\ {None, Gone} \cap (Names \cup Keys) = {}
    /\ MaxEdits \in Nat

VARIABLES
    token,        \* the agents' ingestion token: "none", "live" or "revoked"
    req,          \* the requests under way
    edits         \* history: number of edits and failures

vars == <<host, template, token, req, edits>>

Pushes   == Agents \cup Users
Requests == Pushes \cup Applies

Answers == {0, 200, 201, 401, 404, 422, 500}    \* 0: none yet

RequestType ==
    [pc: {"idle", "stamp", "host", "item", "create", "record", "evaluate",
          "keys", "apply"},
     host: Names \cup {None, Gone},    \* the host it found
     item: Keys \cup {None, Gone},     \* the item it found or created
     read: SUBSET Keys,     \* apply: the items of the template, as it read them
     keys: SUBSET Keys,     \* apply: the keys to create
     lost: SUBSET Keys,     \* history: what the owner took off the host after
                            \* the request had read the host's keys
     stored: BOOLEAN,       \* history: the sample was committed
     answer: Answers]       \* of the last request

NewRequest ==
    [pc |-> "idle", host |-> None, item |-> None, read |-> {}, keys |-> {},
     lost |-> {}, stored |-> FALSE, answer |-> 0]

\* A row is only referenced through the row it belongs to (foreign keys).
TypeOK ==
    /\ InventoryTypeOK
    /\ token \in {"none", "live", "revoked"}
    /\ req \in [Requests -> RequestType]
    /\ \A q \in Requests :
          /\ req[q].host \in DOMAIN host \cup {None, Gone}
          /\ req[q].item \in Keys =>
                req[q].host \in Names /\ req[q].item \in host[req[q].host].items
    /\ edits \in 0 .. MaxEdits

\* The owner has created a host by hand, or none, and a template.
Init ==
    /\ \E S \in SUBSET Names : /\ Cardinality(S) <= 1
                                /\ host = [n \in S |-> NewHost(NoAddress, {}, FALSE)]
    /\ template \in {{}, Keys}
    /\ token = "none"
    /\ req = [q \in Requests |-> NewRequest]
    /\ edits = 0

Step(q, from, to) == req[q].pc = from /\ req' = [req EXCEPT ![q].pc = to]

\* The answer; the locals are dropped.
Answer(q, a) ==
    req' = [req EXCEPT ![q] = [NewRequest EXCEPT !.answer = a, !.stored = req[q].stored]]

SameRows == UNCHANGED <<host, template, token, edits>>

-----------------------------------------------------------------------------
(* POST /ingest                                                            *)

\* IngestionTokenService.authenticate looks the token up ...
Push(p) ==
    /\ p \in Agents /\ req[p].pc = "idle"
    /\ req' = [req EXCEPT ![p] = IF token = "live" THEN [NewRequest EXCEPT !.pc = "stamp"]
                                   ELSE [NewRequest EXCEPT !.answer = 401]]
    /\ SameRows

\* ... and stamps last_used_at on it, which fails if it was deleted meanwhile.
Stamp(p) ==
    /\ req[p].pc = "stamp"
    /\ IF token = "live" THEN Step(p, "stamp", "host") ELSE Answer(p, 500)
    /\ SameRows

FindHost(p) ==
    /\ req[p].pc = "host"
    /\ IF Target[p].host \in DOMAIN host
       THEN req' = [req EXCEPT ![p].pc = "item", ![p].host = Target[p].host]
       ELSE Answer(p, 404)
    /\ SameRows

ItemExists(h, k) == h \in DOMAIN host /\ k \in host[h].items

\* Mutant: the item is created without looking for it.
FindItem_never(p) ==
    /\ req[p].pc = "item"
    /\ req' = [req EXCEPT ![p].pc = "create"]
    /\ SameRows

FindItem(p) ==
    /\ req[p].pc = "item"
    /\ req' = IF ItemExists(req[p].host, Target[p].key)
              THEN [req EXCEPT ![p].pc = "record", ![p].item = Target[p].key]
              ELSE [req EXCEPT ![p].pc = "create"]
    /\ SameRows

\* Mutant: the new item is not tied to its host.
AutoCreate_untied(p) ==
    /\ req[p].pc = "create"
    /\ req' = [req EXCEPT ![p].pc = "record", ![p].item = Target[p].key]
    /\ SameRows

\* "Auto-created on first push", with a commit of its own.
AutoCreate(p) ==
    /\ req[p].pc = "create"
    /\ IF req[p].host \in DOMAIN host /\ ~ItemExists(req[p].host, Target[p].key)
       THEN /\ ItemCreate(req[p].host, Target[p].key)
            /\ req' = [req EXCEPT ![p].pc = "record", ![p].item = Target[p].key]
       ELSE Answer(p, 500) /\ UNCHANGED <<host, template>>
    /\ UNCHANGED <<token, edits>>

\* ItemService.record_value
Record(p) ==
    /\ req[p].pc = "record"
    /\ IF req[p].item # Gone
       THEN req' = [req EXCEPT ![p].pc = "evaluate", ![p].stored = TRUE]
       ELSE Answer(p, 500)
    /\ SameRows

\* Mutant: what the triggers raise is answered like a bad value.
Evaluate_asBadValue(p) ==
    /\ req[p].pc = "evaluate"
    /\ \E a \in {201, 422} : Answer(p, a)
    /\ SameRows

\* TriggerService.evaluate_item (see TriggerProblems), then the answer.
Evaluate(p) ==
    /\ req[p].pc = "evaluate"
    /\ Answer(p, 201)
    /\ SameRows

-----------------------------------------------------------------------------
(* POST /hosts/{host_id}/items/{item_id}/values                            *)

PushValue(p) ==
    /\ p \in Users /\ req[p].pc = "idle"
    /\ LET t == Target[p]
       IN  req' = [req EXCEPT ![p] =
                     IF ItemExists(t.host, t.key)
                     THEN [NewRequest EXCEPT !.pc = "record", !.host = t.host, !.item = t.key]
                     ELSE [NewRequest EXCEPT !.answer = 404]]
    /\ SameRows

-----------------------------------------------------------------------------
(* POST /templates/{template_id}/apply                                     *)

StartApply(q) ==
    /\ q \in Applies /\ req[q].pc = "idle"
    /\ \E n \in DOMAIN host :
          req' = [req EXCEPT ![q] = [NewRequest EXCEPT !.pc = "keys", !.host = n,
                                                       !.read = template]]
    /\ SameRows

\* Mutant: a host with an item of the template counts as done.
MissingKeys_any(q) ==
    LET items == IF req[q].host = Gone THEN {} ELSE host[req[q].host].items
    IN  IF req[q].read \cap items = {} THEN req[q].read ELSE {}

\* "Items whose key already exists on the host are left untouched."
MissingKeys(q) ==
    req[q].read \ (IF req[q].host = Gone THEN {} ELSE host[req[q].host].items)

ReadKeys(q) ==
    /\ req[q].pc = "keys"
    /\ req' = [req EXCEPT ![q].pc = "apply", ![q].keys = MissingKeys(q)]
    /\ SameRows

\* One commit for all the missing keys, none when there are none.
CommitApply(q) ==
    /\ req[q].pc = "apply"
    /\ IF req[q].keys = {}
       THEN Answer(q, 200) /\ UNCHANGED host
       ELSE IF req[q].host # Gone /\ req[q].keys \cap host[req[q].host].items = {}
       THEN /\ Answer(q, 200)
            /\ host' = [host EXCEPT ![req[q].host].items = @ \cup req[q].keys]
       ELSE Answer(q, 500) /\ UNCHANGED host
    /\ UNCHANGED <<template, token, edits>>

-----------------------------------------------------------------------------
(* The owner, and failures.                                                *)

Disturb ==
    /\ edits < MaxEdits
    /\ edits' = edits + 1

CreateToken ==
    /\ token = "none"
    /\ token' = "live"
    /\ UNCHANGED <<host, template, req, edits>>

RevokeToken ==
    /\ token = "live"
    /\ Disturb
    /\ token' = "revoked"
    /\ UNCHANGED <<host, template, req>>

\* Where the references to host n, or to its item k, point after an edit.  An
\* application that has read the host's keys does not see one of them go.
HostMoves(n, m) ==
    req' = [q \in Requests |->
              IF req[q].host # n THEN req[q]
              ELSE [req[q] EXCEPT !.host = m,
                      !.item = IF m = Gone /\ @ # None THEN Gone ELSE @]]

ItemMoves(n, k, l) ==
    req' = [q \in Requests |->
              IF req[q].host # n THEN req[q]
              ELSE [req[q] EXCEPT
                      !.item = IF @ = k THEN l ELSE @,
                      !.lost = IF req[q].pc = "apply" THEN @ \cup {k} ELSE @]]

EditHosts ==
    /\ Disturb /\ UNCHANGED token
    /\ \/ /\ \E n \in Names : CreateHost(n, NoAddress) \/ CreateHostForm(n, NoAddress)
          /\ UNCHANGED req
       \/ \E n, m \in Names :
             /\ UpdateHost(n, m, NoAddress) \/ UpdateHostForm(n, m, NoAddress)
             /\ HostMoves(n, m)
       \/ \E n \in Names : (DeleteHost(n) \/ DeleteHostForm(n)) /\ HostMoves(n, Gone)

EditItems ==
    /\ Disturb /\ UNCHANGED token
    /\ \E n \in Names, k \in Keys :
          \/ (CreateItem(n, k) \/ CreateItemForm(n, k)) /\ UNCHANGED req
          \/ \E l \in Keys : UpdateItem(n, k, l) /\ ItemMoves(n, k, l)
          \/ (DeleteItem(n, k) \/ DeleteItemForm(n, k)) /\ ItemMoves(n, k, Gone)

EditTemplate ==
    /\ Disturb /\ UNCHANGED <<token, req>>
    /\ DeleteTemplate \/ \E k \in Keys : AddTemplateItem(k) \/ DeleteTemplateItem(k)

\* The value does not suit the item's type.
BadValue(p) ==
    /\ req[p].pc = "record"
    /\ Disturb
    /\ Answer(p, 422)
    /\ UNCHANGED <<host, template, token>>

\* A statement fails, the process stops, an evaluation raises.
RequestFails(q) ==
    /\ req[q].pc # "idle"
    /\ Disturb
    /\ Answer(q, 500)
    /\ UNCHANGED <<host, template, token>>

PushStep(p) ==
    \/ Stamp(p) \/ FindHost(p) \/ FindItem(p) \/ AutoCreate(p) \/ Record(p)
    \/ Evaluate(p) \/ Push(p) \/ PushValue(p)

ApplyStep(q) == StartApply(q) \/ ReadKeys(q) \/ CommitApply(q)

Next ==
    \/ \E p \in Pushes : PushStep(p) \/ BadValue(p)
    \/ \E q \in Applies : ApplyStep(q)
    \/ \E q \in Requests : RequestFails(q)
    \/ CreateToken \/ RevokeToken \/ EditHosts \/ EditItems \/ EditTemplate

Spec == Init /\ [][Next]_vars

\* Awaits end, and an agent pushes every metric again in its next round.
FairSpec == Spec /\ \A p \in Pushes : WF_vars(PushStep(p))

-----------------------------------------------------------------------------
\* An agent may trust the answer: 201 means that the sample was stored, a
\* refusal (401, 404, 422) that it was not, whatever the owner and the other
\* requests did between the lookups and the commit.
AnswerTruth ==
    \A p \in Pushes :
       /\ req[p].answer = 201 => req[p].stored
       /\ req[p].answer \in {401, 404, 422} => ~req[p].stored

\* "Apply a template's items to a host (idempotent)": a request that succeeds
\* leaves a host with every item of the template as the request read it, also
\* when pushes created some of them meanwhile, or the owner deleted some before
\* the host's keys were read; only what he takes away after that is missing.
TemplateApplied ==
    [][\A q \in Applies :
          CommitApply(q) /\ req'[q].answer = 200 =>
             \A n \in DOMAIN host' :
                n = req[q].host => req[q].read \ req[q].lost \subseteq host'[n].items]_vars

\* What a push needs: a token and a host for an agent, an item for a user.
Possible(p) ==
    IF p \in Agents THEN token = "live" /\ Target[p].host \in DOMAIN host
                    ELSE ItemExists(Target[p].host, Target[p].key)

\* "Auto-created on first push": who goes on pushing gets a sample stored, also
\* when two first pushes of a key or an apply meet in the unique constraint.
PushesGetThrough ==
    \A p \in Pushes : []<>(req[p].answer = 201 \/ ~Possible(p))
=============================================================================
