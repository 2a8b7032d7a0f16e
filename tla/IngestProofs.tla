---------------------------- MODULE IngestProofs -----------------------------
(***************************************************************************)
(* Theorems about Ingest for every set of agents, users, applications and  *)
(* hosts, and any number of edits.                                         *)
(***************************************************************************)
EXTENDS Ingest, TLAPS

USE TargetAssumption, AddressesAssumption

-----------------------------------------------------------------------------
(* What holds of a request r, over the hosts h.                            *)

\* It refers to rows that exist, to an item only with its host.
Grounded(r, h) ==
    /\ r.host \in DOMAIN h \cup {None, Gone}
    /\ r.item \in Keys => r.host \in DOMAIN h /\ r.item \in h[r.host].items

\* A push has stored its sample once it evaluates the triggers and not before,
\* and its answer says so.
Truthful(r) ==
    /\ r.pc # "idle" => r.answer = 0
    /\ r.pc \in {"stamp", "host", "item", "create", "record"} => ~r.stored
    /\ r.pc \in {"stamp", "host", "item", "create"} => r.item = None
    /\ r.pc = "evaluate" => r.stored
    /\ r.answer = 201 => r.stored
    /\ r.answer \in {401, 404, 422} => ~r.stored

\* What an application read of the template is on the host, or is what it is
\* about to create, or was taken away after it read the host's keys.
Ready(r, h) ==
    r.pc = "apply" /\ r.host \in DOMAIN h =>
       r.read \ r.lost \subseteq h[r.host].items \cup r.keys

Fine(q) ==
    /\ Grounded(req[q], host)
    /\ q \in Pushes => Truthful(req[q])
    /\ q \in Applies => Ready(req[q], host)

TablesOK ==
    /\ InventoryTypeOK
    /\ token \in {"none", "live", "revoked"}
    /\ edits \in 0 .. MaxEdits

IngestInv ==
    /\ TablesOK
    /\ req \in [Requests -> RequestType]
    /\ \A q \in Requests : Fine(q)

\* No host or item is lost.
Growth ==
    /\ DOMAIN host \subseteq DOMAIN host'
    /\ \A n \in DOMAIN host : host[n].items \subseteq host'[n].items

\* Each field of a request can be set on its own.
LEMMA SetPc ==
  ASSUME NEW r \in RequestType,
         NEW c \in {"idle", "stamp", "host", "item", "create", "record", "evaluate",
                    "keys", "apply"}
  PROVE  [r EXCEPT !.pc = c] \in RequestType
  BY DEF RequestType

LEMMA SetHost ==
  ASSUME NEW r \in RequestType, NEW n \in Names \cup {None, Gone}
  PROVE  [r EXCEPT !.host = n] \in RequestType
  BY DEF RequestType

LEMMA SetItem ==
  ASSUME NEW r \in RequestType, NEW k \in Keys \cup {None, Gone}
  PROVE  [r EXCEPT !.item = k] \in RequestType
  BY DEF RequestType

LEMMA SetKeys ==
  ASSUME NEW r \in RequestType, NEW S \in SUBSET Keys
  PROVE  [r EXCEPT !.keys = S] \in RequestType
  BY DEF RequestType

LEMMA SetRead ==
  ASSUME NEW r \in RequestType, NEW S \in SUBSET Keys
  PROVE  [r EXCEPT !.read = S] \in RequestType
  BY DEF RequestType

LEMMA SetLost ==
  ASSUME NEW r \in RequestType, NEW S \in SUBSET Keys
  PROVE  [r EXCEPT !.lost = S] \in RequestType
  BY DEF RequestType

LEMMA SetStored ==
  ASSUME NEW r \in RequestType, NEW b \in BOOLEAN
  PROVE  [r EXCEPT !.stored = b] \in RequestType
  BY DEF RequestType

LEMMA SetAnswer ==
  ASSUME NEW r \in RequestType, NEW a \in Answers
  PROVE  [r EXCEPT !.answer = a] \in RequestType
  BY DEF RequestType

LEMMA NewType == NewRequest \in RequestType
  <1>1. 0 \in Answers
    BY DEF Answers
  <1> QED
    BY <1>1 DEF NewRequest, RequestType

LEMMA InvImplies == IngestInv => TypeOK /\ AnswerTruth
  <1> SUFFICES ASSUME IngestInv PROVE TypeOK /\ AnswerTruth
    OBVIOUS
  <1>1. TypeOK
    BY DEF IngestInv, TablesOK, Fine, Grounded, TypeOK, InventoryTypeOK
  <1>2. AnswerTruth
    BY DEF IngestInv, Fine, Truthful, AnswerTruth, Requests
  <1> QED
    BY <1>1, <1>2

-----------------------------------------------------------------------------
(* Growing tables do no harm.                                              *)

\* A request that is not touched stays fine.
LEMMA GrowthKeepsFine ==
  ASSUME IngestInv, Growth, InventoryTypeOK', NEW q \in Requests, req'[q] = req[q]
  PROVE  Fine(q)'
  <1>1. Fine(q) /\ None \notin DOMAIN host' /\ Gone \notin DOMAIN host'
    BY DEF IngestInv, InventoryTypeOK
  <1>2. Grounded(req'[q], host')
    BY <1>1 DEF Fine, Grounded, Growth
  <1>3. q \in Applies => Ready(req'[q], host')
    <2> SUFFICES ASSUME q \in Applies, req[q].pc = "apply", req[q].host \in DOMAIN host'
                 PROVE  req[q].read \ req[q].lost
                           \subseteq host'[req[q].host].items \cup req[q].keys
      BY DEF Ready
    <2>1. req[q].host \in DOMAIN host
      BY <1>1 DEF Fine, Grounded
    <2> QED
      BY <1>1, <2>1 DEF Fine, Ready, Growth
  <1> QED
    BY <1>1, <1>2, <1>3 DEF Fine

\* One request moves on, the others wait.
LEMMA OwnStep ==
  ASSUME IngestInv, Growth, TablesOK', NEW q \in Requests,
         req' \in [Requests -> RequestType],
         \A x \in Requests : x # q => req'[x] = req[x],
         Fine(q)'
  PROVE  IngestInv'
  <1>1. ASSUME NEW x \in Requests PROVE Fine(x)'
    BY GrowthKeepsFine DEF TablesOK
  <1> QED
    BY <1>1 DEF IngestInv

\* A request ends with an answer that fits what it stored.
LEMMA AnswerKeeps ==
  ASSUME IngestInv, Growth, TablesOK', NEW q \in Requests,
         NEW a \in {200, 201, 401, 404, 422, 500}, Answer(q, a),
         q \in Pushes => /\ a = 201 => req[q].stored
                         /\ a \in {401, 404, 422} => ~req[q].stored
  PROVE  IngestInv'
  <1> DEFINE r == [NewRequest EXCEPT !.answer = a, !.stored = req[q].stored]
  <1>1. req \in [Requests -> RequestType] /\ req[q].stored \in BOOLEAN
    BY DEF IngestInv, RequestType
  <1>2. r \in RequestType
    <2>1. a \in Answers
      BY DEF Answers
    <2>t. [NewRequest EXCEPT !.answer = a] \in RequestType
      BY <2>1, NewType, SetAnswer
    <2>2. PICK s \in RequestType : s = [NewRequest EXCEPT !.answer = a]
      BY <2>t
    <2>3. PICK b \in BOOLEAN : b = req[q].stored
      BY <1>1
    <2>4. [s EXCEPT !.stored = b] \in RequestType
      BY SetStored
    <2>5. r = [s EXCEPT !.stored = b]
      BY <2>2, <2>3
    <2> QED
      BY <2>4, <2>5
  <1>f. /\ r.pc = "idle" /\ r.host = None /\ r.item = None
        /\ r.answer = a /\ r.stored = req[q].stored
    BY DEF NewRequest
  <1>3. req' = [req EXCEPT ![q] = r]
    BY DEF Answer
  <1> HIDE DEF r
  <1>4. Fine(q)'
    <2>1. req'[q] = r
      BY <1>1, <1>3
    <2>2. Grounded(r, host') /\ Ready(r, host')
      BY <1>f DEF Grounded, Ready
    <2>3. q \in Pushes => Truthful(r)
      BY <1>f DEF Truthful
    <2> QED
      BY <2>1, <2>2, <2>3 DEF Fine
  <1> QED
    BY <1>1, <1>2, <1>3, <1>4, OwnStep

\* The tables do not change.
LEMMA SameTables ==
  ASSUME IngestInv, UNCHANGED <<host, template, token>>, edits' \in 0 .. MaxEdits
  PROVE  Growth /\ TablesOK'
  BY DEF Growth, IngestInv, TablesOK, InventoryTypeOK

-----------------------------------------------------------------------------
(* Pushes.                                                                 *)

\* A push goes on, and the tables stay.
LEMMA GoesOn ==
  ASSUME IngestInv, NEW p \in Pushes, SameRows,
         NEW r \in RequestType, req' = [req EXCEPT ![p] = r],
         Grounded(r, host), Truthful(r)
  PROVE  IngestInv'
  <1>1. p \in Requests /\ p \notin Applies /\ req \in [Requests -> RequestType]
    BY DEF IngestInv, Requests, Pushes
  <1>2. Growth /\ TablesOK' /\ UNCHANGED host
    BY SameTables DEF SameRows, IngestInv, TablesOK
  <1>3. req'[p] = r
    BY <1>1
  <1>4. Fine(p)'
    BY <1>1, <1>2, <1>3 DEF Fine
  <1> QED
    BY <1>1, <1>2, <1>4, OwnStep

LEMMA LookupKeeps ==
  ASSUME IngestInv, NEW p \in Pushes, Push(p) \/ PushValue(p) \/ Stamp(p) \/ FindHost(p)
  PROVE  IngestInv'
  <1>0. /\ p \in Requests /\ TablesOK /\ req \in [Requests -> RequestType]
        /\ req[p] \in RequestType /\ Grounded(req[p], host) /\ Truthful(req[p])
    BY DEF IngestInv, Requests, Fine
  <1>s. SameRows /\ Growth /\ TablesOK'
    BY <1>0, SameTables DEF Push, PushValue, Stamp, FindHost, SameRows, TablesOK
  <1>1. CASE Push(p)
    <2> DEFINE r == IF token = "live" THEN [NewRequest EXCEPT !.pc = "stamp"]
                                      ELSE [NewRequest EXCEPT !.answer = 401]
    <2>t. r \in RequestType
      <3>1. [NewRequest EXCEPT !.pc = "stamp"] \in RequestType
        BY NewType, SetPc
      <3>2. 401 \in Answers
        BY DEF Answers
      <3>3. [NewRequest EXCEPT !.answer = 401] \in RequestType
        BY <3>2, NewType, SetAnswer
      <3> QED
        BY <3>1, <3>3
    <2>f. /\ r.pc \in {"stamp", "idle"} /\ r.host = None /\ r.item = None /\ ~r.stored
          /\ r.answer = IF r.pc = "stamp" THEN 0 ELSE 401
      BY DEF NewRequest
    <2>2. req' = [req EXCEPT ![p] = r]
      BY <1>1 DEF Push
    <2> HIDE DEF r
    <2>1. r \in RequestType /\ Grounded(r, host) /\ Truthful(r)
      BY <2>t, <2>f DEF Grounded, Truthful
    <2> QED
      BY <1>s, <2>1, <2>2, GoesOn
  <1>2. CASE PushValue(p)
    <2> DEFINE t == Target[p]
               r == IF ItemExists(t.host, t.key)
                    THEN [NewRequest EXCEPT !.pc = "record", !.host = t.host, !.item = t.key]
                    ELSE [NewRequest EXCEPT !.answer = 404]
    <2>1. t.host \in Names /\ t.key \in Keys
      BY DEF Pushes
    <2>t. r \in RequestType
      <3>1. [NewRequest EXCEPT !.pc = "record"] \in RequestType
        BY NewType, SetPc
      <3>2. [NewRequest EXCEPT !.pc = "record", !.host = t.host] \in RequestType
        BY <2>1, <3>1, SetHost
      <3>3. [NewRequest EXCEPT !.pc = "record", !.host = t.host, !.item = t.key] \in RequestType
        BY <2>1, <3>2, SetItem
      <3>4. 404 \in Answers
        BY DEF Answers
      <3>5. [NewRequest EXCEPT !.answer = 404] \in RequestType
        BY <3>4, NewType, SetAnswer
      <3> QED
        BY <3>3, <3>5
    <2>f. IF ItemExists(t.host, t.key)
          THEN r.pc = "record" /\ r.host = t.host /\ r.item = t.key /\ ~r.stored /\ r.answer = 0
          ELSE r.pc = "idle" /\ r.host = None /\ r.item = None /\ ~r.stored /\ r.answer = 404
      BY DEF NewRequest
    <2>3. req' = [req EXCEPT ![p] = r]
      BY <1>2 DEF PushValue
    <2> HIDE DEF r, t
    <2>2. r \in RequestType /\ Grounded(r, host) /\ Truthful(r)
      BY <2>t, <2>f DEF Grounded, Truthful, ItemExists
    <2> QED
      BY <1>s, <2>2, <2>3, GoesOn
  <1>3. CASE Stamp(p)
    <2>1. CASE token = "live"
      <3> DEFINE r == [req[p] EXCEPT !.pc = "host"]
      <3>1. req' = [req EXCEPT ![p] = r] /\ req[p].pc = "stamp"
        BY <1>3, <2>1, <1>0 DEF Stamp, Step
      <3>2. r \in RequestType /\ Grounded(r, host) /\ Truthful(r)
        BY <1>0, <3>1 DEF RequestType, Grounded, Truthful
      <3> QED
        BY <1>s, <3>1, <3>2, GoesOn
    <2>2. CASE token # "live"
      BY <1>3, <1>0, <1>s, <2>2, AnswerKeeps DEF Stamp
    <2> QED
      BY <2>1, <2>2
  <1>4. CASE FindHost(p)
    <2>1. CASE Target[p].host \in DOMAIN host
      <3> DEFINE r == [req[p] EXCEPT !.pc = "item", !.host = Target[p].host]
      <3>1. req' = [req EXCEPT ![p] = r] /\ req[p].pc = "host"
        BY <1>4, <2>1, <1>0 DEF FindHost
      <3>2. Target[p].host \in Names
        BY DEF Pushes
      <3>t. r \in RequestType
        <4>1. [req[p] EXCEPT !.pc = "item"] \in RequestType
          BY <1>0, SetPc
        <4> QED
          BY <3>2, <4>1, SetHost
      <3>f. /\ r.pc = "item" /\ r.host = Target[p].host /\ r.item = None
            /\ ~r.stored /\ r.answer = req[p].answer
        BY <1>0, <3>1 DEF RequestType, Truthful
      <3> HIDE DEF r
      <3>3. r \in RequestType /\ Grounded(r, host) /\ Truthful(r)
        BY <1>0, <2>1, <3>1, <3>t, <3>f DEF Grounded, Truthful
      <3> QED
        BY <1>s, <3>1, <3>3, GoesOn
    <2>2. CASE Target[p].host \notin DOMAIN host
      <3>1. ~req[p].stored /\ Answer(p, 404)
        BY <1>4, <1>0, <2>2 DEF FindHost, Truthful
      <3> QED
        BY <1>0, <1>s, <3>1, AnswerKeeps
    <2> QED
      BY <2>1, <2>2
  <1> QED
    BY <1>1, <1>2, <1>3, <1>4

LEMMA StoreKeeps ==
  ASSUME IngestInv, NEW p \in Pushes,
         FindItem(p) \/ Record(p) \/ Evaluate(p) \/ BadValue(p)
  PROVE  IngestInv'
  <1>0. /\ p \in Requests /\ TablesOK /\ req \in [Requests -> RequestType]
        /\ req[p] \in RequestType /\ Grounded(req[p], host) /\ Truthful(req[p])
    BY DEF IngestInv, Requests, Fine
  <1>s. Growth /\ TablesOK'
    <2>1. UNCHANGED <<host, template, token>> /\ edits' \in 0 .. MaxEdits
      BY <1>0 DEF FindItem, Record, Evaluate, BadValue, SameRows, Disturb, TablesOK
    <2> QED
      BY <2>1, SameTables
  <1>1. CASE FindItem(p)
    <2> DEFINE r == IF ItemExists(req[p].host, Target[p].key)
                    THEN [req[p] EXCEPT !.pc = "record", !.item = Target[p].key]
                    ELSE [req[p] EXCEPT !.pc = "create"]
    <2>1. SameRows /\ req' = [req EXCEPT ![p] = r] /\ req[p].pc = "item"
      BY <1>0, <1>1 DEF FindItem
    <2>2. Target[p].key \in Keys
      BY DEF Pushes
    <2>t. r \in RequestType
      <3>1. [req[p] EXCEPT !.pc = "record"] \in RequestType
        BY <1>0, SetPc
      <3>2. [req[p] EXCEPT !.pc = "create"] \in RequestType
        BY <1>0, SetPc
      <3>3. [req[p] EXCEPT !.pc = "record", !.item = Target[p].key] \in RequestType
        BY <2>2, <3>1, SetItem
      <3> QED
        BY <3>2, <3>3
    <2>f. /\ r.host = req[p].host /\ r.answer = req[p].answer /\ ~r.stored
          /\ IF ItemExists(req[p].host, Target[p].key)
             THEN r.pc = "record" /\ r.item = Target[p].key
             ELSE r.pc = "create" /\ r.item = None
      BY <1>0, <2>1 DEF RequestType, Truthful
    <2> HIDE DEF r
    <2>3. r \in RequestType /\ Grounded(r, host) /\ Truthful(r)
      BY <1>0, <2>1, <2>t, <2>f DEF Grounded, Truthful, ItemExists
    <2> QED
      BY <2>1, <2>3, GoesOn
  <1>2. CASE Record(p)
    <2>1. CASE req[p].item # Gone
      <3> DEFINE r == [req[p] EXCEPT !.pc = "evaluate", !.stored = TRUE]
      <3>1. SameRows /\ req' = [req EXCEPT ![p] = r] /\ req[p].pc = "record"
        BY <1>0, <1>2, <2>1 DEF Record
      <3>t. r \in RequestType
        <4>1. [req[p] EXCEPT !.pc = "evaluate"] \in RequestType
          BY <1>0, SetPc
        <4> QED
          BY <4>1, SetStored
      <3>f. /\ r.pc = "evaluate" /\ r.host = req[p].host /\ r.item = req[p].item
            /\ r.stored /\ r.answer = req[p].answer
        BY <1>0 DEF RequestType
      <3> HIDE DEF r
      <3>g. Grounded(r, host)
        BY <1>0, <3>f DEF Grounded
      <3>2. r \in RequestType /\ Grounded(r, host) /\ Truthful(r)
        BY <1>0, <3>1, <3>t, <3>f, <3>g DEF Truthful
      <3> QED
        BY <3>1, <3>2, GoesOn
    <2>2. CASE req[p].item = Gone
      BY <1>0, <1>2, <1>s, <2>2, AnswerKeeps DEF Record
    <2> QED
      BY <2>1, <2>2
  <1>3. CASE Evaluate(p)
    <2>1. req[p].stored /\ Answer(p, 201)
      BY <1>0, <1>3 DEF Evaluate, Truthful
    <2> QED
      BY <1>0, <1>s, <2>1, AnswerKeeps
  <1>4. CASE BadValue(p)
    <2>1. ~req[p].stored /\ Answer(p, 422)
      BY <1>0, <1>4 DEF BadValue, Truthful
    <2> QED
      BY <1>0, <1>s, <2>1, AnswerKeeps
  <1> QED
    BY <1>1, <1>2, <1>3, <1>4

\* The item is created under the host, unless one of them stands against it.
LEMMA AutoCreateKeeps ==
  ASSUME IngestInv, NEW p \in Pushes, AutoCreate(p)
  PROVE  IngestInv'
  <1> DEFINE n == req[p].host
             k == Target[p].key
             r == [req[p] EXCEPT !.pc = "record", !.item = k]
  <1>0. /\ p \in Requests /\ p \notin Applies /\ TablesOK /\ req \in [Requests -> RequestType]
        /\ req[p] \in RequestType /\ Grounded(req[p], host) /\ Truthful(req[p])
        /\ k \in Keys /\ req[p].pc = "create" /\ UNCHANGED <<token, edits>>
    BY DEF IngestInv, Requests, Fine, Pushes, AutoCreate
  <1>1. CASE n \in DOMAIN host /\ ~ItemExists(n, k)
    <2>1. /\ host' = [host EXCEPT ![n].items = @ \cup {k}] /\ UNCHANGED template
          /\ req' = [req EXCEPT ![p] = r]
      BY <1>0, <1>1 DEF AutoCreate, ItemCreate
    <2>2. Growth /\ TablesOK' /\ n \in DOMAIN host' /\ k \in host'[n].items
      BY <1>0, <1>1, <2>1 DEF Growth, TablesOK, InventoryTypeOK, HostType
    <2>t. r \in RequestType
      <3>1. [req[p] EXCEPT !.pc = "record"] \in RequestType
        BY <1>0, SetPc
      <3> QED
        BY <1>0, <3>1, SetItem
    <2>f. /\ r.pc = "record" /\ r.host = n /\ r.item = k /\ ~r.stored
          /\ r.answer = req[p].answer
      BY <1>0 DEF RequestType, Truthful
    <2> HIDE DEF r
    <2>3. r \in RequestType /\ Grounded(r, host') /\ Truthful(r)
      BY <1>0, <2>2, <2>t, <2>f DEF Grounded, Truthful
    <2>4. Fine(p)'
      <3>1. req'[p] = r
        BY <1>0, <2>1
      <3> QED
        BY <1>0, <2>3, <3>1 DEF Fine
    <2> QED
      BY <1>0, <2>1, <2>2, <2>3, <2>4, OwnStep
  <1>2. CASE ~(n \in DOMAIN host /\ ~ItemExists(n, k))
    <2>1. Answer(p, 500) /\ UNCHANGED <<host, template>>
      BY <1>2 DEF AutoCreate
    <2>2. Growth /\ TablesOK'
      BY <1>0, <2>1, SameTables DEF TablesOK
    <2> QED
      BY <1>0, <2>1, <2>2, AnswerKeeps
  <1> QED
    BY <1>1, <1>2

-----------------------------------------------------------------------------
(* Applications and failures.                                              *)

LEMMA ApplyKeeps ==
  ASSUME IngestInv, NEW q \in Applies, ApplyStep(q)
  PROVE  IngestInv'
  <1>0. /\ q \in Requests /\ q \notin Pushes /\ TablesOK /\ req \in [Requests -> RequestType]
        /\ req[q] \in RequestType /\ Grounded(req[q], host) /\ Ready(req[q], host)
        /\ InventoryTypeOK
    BY DEF IngestInv, Requests, Fine, Pushes, TablesOK
  <1>1. CASE StartApply(q)
    <2>1. /\ SameRows
          /\ \E n \in DOMAIN host :
                req' = [req EXCEPT ![q] = [NewRequest EXCEPT !.pc = "keys", !.host = n,
                                                             !.read = template]]
      BY <1>1 DEF StartApply
    <2>2. PICK n \in DOMAIN host :
             req' = [req EXCEPT ![q] = [NewRequest EXCEPT !.pc = "keys", !.host = n,
                                                          !.read = template]]
      BY <2>1
    <2> DEFINE r == [NewRequest EXCEPT !.pc = "keys", !.host = n, !.read = template]
    <2>3. n \in Names /\ template \in SUBSET Keys
      BY <1>0 DEF InventoryTypeOK
    <2>t. r \in RequestType
      <3>1. [NewRequest EXCEPT !.pc = "keys"] \in RequestType
        BY NewType, SetPc
      <3>2. [NewRequest EXCEPT !.pc = "keys", !.host = n] \in RequestType
        BY <2>3, <3>1, SetHost
      <3> QED
        BY <2>3, <3>2, SetRead
    <2>f. r.pc = "keys" /\ r.host = n /\ r.item = None
      BY DEF NewRequest
    <2> HIDE DEF r
    <2>4. Growth /\ TablesOK' /\ UNCHANGED host
      BY <1>0, <2>1, SameTables DEF SameRows, TablesOK
    <2>5. req'[q] = r
      BY <1>0, <2>2 DEF r
    <2>6. Fine(q)'
      BY <1>0, <2>4, <2>5, <2>f DEF Fine, Grounded, Ready
    <2>7. req' = [req EXCEPT ![q] = r]
      BY <2>2 DEF r
    <2> QED
      BY <1>0, <2>4, <2>6, <2>7, <2>t, OwnStep
  <1>2. CASE ReadKeys(q)
    <2> DEFINE r == [req[q] EXCEPT !.pc = "apply", !.keys = MissingKeys(q)]
    <2>1. SameRows /\ req' = [req EXCEPT ![q] = r] /\ req[q].pc = "keys"
      BY <1>0, <1>2 DEF ReadKeys
    <2>2. MissingKeys(q) \in SUBSET Keys
      BY <1>0 DEF MissingKeys, RequestType
    <2>t. r \in RequestType
      <3>1. [req[q] EXCEPT !.pc = "apply"] \in RequestType
        BY <1>0, SetPc
      <3> QED
        BY <2>2, <3>1, SetKeys
    <2>f. /\ r.pc = "apply" /\ r.host = req[q].host /\ r.item = req[q].item
          /\ r.read = req[q].read /\ r.keys = MissingKeys(q)
      BY <1>0 DEF RequestType
    <2> HIDE DEF r
    <2>3. Growth /\ TablesOK' /\ UNCHANGED host
      BY <1>0, <2>1, SameTables DEF SameRows, TablesOK
    <2>4. req'[q] = r
      BY <1>0, <2>1
    <2>g. Grounded(r, host)
      BY <1>0, <2>f DEF Grounded
    <2>r. Ready(r, host)
      <3> SUFFICES ASSUME r.host \in DOMAIN host
                   PROVE  r.read \ r.lost \subseteq host[r.host].items \cup r.keys
        BY DEF Ready
      <3>1. req[q].host # Gone
        BY <1>0, <2>f DEF InventoryTypeOK
      <3> QED
        BY <2>f, <3>1 DEF MissingKeys
    <2>5. Fine(q)'
      BY <1>0, <2>3, <2>4, <2>g, <2>r DEF Fine
    <2> QED
      BY <1>0, <2>1, <2>3, <2>5, <2>t, OwnStep
  <1>3. CASE CommitApply(q)
    <2>1. \E a \in {200, 500} : Answer(q, a)
      BY <1>3 DEF CommitApply
    <2>2. Growth /\ TablesOK'
      <3>1. CASE UNCHANGED host
        BY <1>0, <1>3, <3>1, SameTables DEF CommitApply, TablesOK
      <3>2. CASE ~UNCHANGED host
        <4> DEFINE n == req[q].host
        <4>1. /\ n # Gone /\ UNCHANGED <<template, token, edits>>
              /\ host' = [host EXCEPT ![n].items = @ \cup req[q].keys]
          BY <1>3, <3>2 DEF CommitApply
        <4>2. req[q].keys \subseteq Keys
          BY <1>0 DEF RequestType
        <4>3. CASE n \in DOMAIN host
          BY <1>0, <4>1, <4>2, <4>3 DEF Growth, TablesOK, InventoryTypeOK, HostType
        <4>4. CASE n \notin DOMAIN host
          <5>1. DOMAIN host' = DOMAIN host /\ \A m \in DOMAIN host : host'[m] = host[m]
            BY <4>1, <4>4
          <5> QED
            BY <1>0, <4>1, <5>1 DEF Growth, TablesOK, InventoryTypeOK
        <4> QED
          BY <4>3, <4>4
      <3> QED
        BY <3>1, <3>2
    <2> QED
      BY <1>0, <2>1, <2>2, AnswerKeeps
  <1> QED
    BY <1>1, <1>2, <1>3 DEF ApplyStep

LEMMA FailureKeeps ==
  ASSUME IngestInv, NEW q \in Requests, RequestFails(q)
  PROVE  IngestInv'
  <1>1. Answer(q, 500) /\ UNCHANGED <<host, template, token>> /\ edits' \in 0 .. MaxEdits
    BY DEF RequestFails, Disturb, IngestInv, TablesOK
  <1> QED
    BY <1>1, SameTables, AnswerKeeps

-----------------------------------------------------------------------------
(* The owner.                                                              *)

\* Requests that are left alone bear tables that grow.
LEMMA OthersWait ==
  ASSUME IngestInv, Growth, TablesOK', UNCHANGED req
  PROVE  IngestInv'
  <1>1. ASSUME NEW q \in Requests PROVE Fine(q)'
    BY GrowthKeepsFine DEF TablesOK
  <1> QED
    BY <1>1 DEF IngestInv

LEMMA TokenKeeps ==
  ASSUME IngestInv, CreateToken \/ RevokeToken
  PROVE  IngestInv'
  <1>1. TablesOK' /\ Growth /\ UNCHANGED req
    BY DEF IngestInv, TablesOK, InventoryTypeOK, Growth, CreateToken, RevokeToken, Disturb
  <1> QED
    BY <1>1, OthersWait

LEMMA TemplateKeeps ==
  ASSUME IngestInv, EditTemplate
  PROVE  IngestInv'
  <1>1. /\ edits' \in 0 .. MaxEdits /\ UNCHANGED <<token, req, host>>
        /\ template' = {} \/ \E k \in Keys : template' \in {template \cup {k}, template \ {k}}
    BY DEF EditTemplate, Disturb, IngestInv, TablesOK, DeleteTemplate, AddTemplateItem,
           DeleteTemplateItem
  <1>2. TablesOK' /\ Growth
    BY <1>1 DEF IngestInv, TablesOK, InventoryTypeOK, Growth
  <1> QED
    BY <1>1, <1>2, OthersWait

LEMMA CreateKeeps ==
  ASSUME IngestInv, Disturb, UNCHANGED <<token, req>>,
         \/ \E n \in Names : HostCreate(n, NoAddress)
         \/ \E n \in Names, k \in Keys : ItemCreate(n, k)
  PROVE  IngestInv'
  <1>0. TablesOK /\ InventoryTypeOK /\ edits' \in 0 .. MaxEdits
    BY DEF IngestInv, TablesOK, Disturb
  <1>1. CASE \E n \in Names : HostCreate(n, NoAddress)
    <2>1. PICK n \in Names : HostCreate(n, NoAddress)
      BY <1>1
    <2>2. NewHost(NoAddress, {}, FALSE) \in HostType
      BY DEF NewHost, HostType
    <2>3. /\ DOMAIN host' = DOMAIN host \cup {n} /\ n \notin DOMAIN host
          /\ \A m \in DOMAIN host : host'[m] = host[m]
          /\ host'[n] = NewHost(NoAddress, {}, FALSE) /\ UNCHANGED template
      BY <2>1 DEF HostCreate
    <2>4. TablesOK' /\ Growth
      BY <1>0, <2>2, <2>3 DEF TablesOK, InventoryTypeOK, Growth
    <2> QED
      BY <2>4, OthersWait
  <1>2. CASE \E n \in Names, k \in Keys : ItemCreate(n, k)
    <2>1. TablesOK' /\ Growth
      BY <1>0, <1>2 DEF ItemCreate, TablesOK, InventoryTypeOK, HostType, Growth
    <2> QED
      BY <2>1, OthersWait
  <1> QED
    BY <1>1, <1>2

\* The references follow a host that is renamed.
LEMMA RenameKeeps ==
  ASSUME IngestInv, Disturb, UNCHANGED token, NEW n \in Names, NEW m \in Names,
         HostUpdate(n, m, NoAddress), HostMoves(n, m)
  PROVE  IngestInv'
  <1>0. /\ TablesOK /\ InventoryTypeOK /\ edits' \in 0 .. MaxEdits
        /\ req \in [Requests -> RequestType] /\ m # Gone /\ m # None
    BY DEF IngestInv, TablesOK, Disturb
  <1>1. /\ n \in DOMAIN host /\ DOMAIN host' = (DOMAIN host \ {n}) \cup {m}
        /\ m = n \/ m \notin DOMAIN host
        /\ \A l \in DOMAIN host \ {n} : host'[l] = host[l]
        /\ host'[m] = [host[n] EXCEPT !.address = NoAddress] /\ UNCHANGED template
    BY DEF HostUpdate
  <1>2. host'[m] \in HostType /\ host'[m].items = host[n].items
    BY <1>0, <1>1 DEF InventoryTypeOK, HostType
  <1>3. TablesOK'
    BY <1>0, <1>1, <1>2 DEF TablesOK, InventoryTypeOK
  <1>4. req' = [q \in Requests |-> IF req[q].host # n THEN req[q]
                                    ELSE [req[q] EXCEPT !.host = m, !.item = @]]
    BY <1>0 DEF HostMoves
  <1>5. ASSUME NEW q \in Requests PROVE req'[q] \in RequestType /\ Fine(q)'
    <2>0. /\ req[q] \in RequestType /\ Fine(q)
          /\ None \notin DOMAIN host' /\ Gone \notin DOMAIN host'
      BY <1>0, <1>3 DEF IngestInv, TablesOK, InventoryTypeOK
    <2>1. CASE req[q].host # n
      <3>1. req'[q] = req[q]
        BY <1>4, <2>1
      <3>2. req[q].host \in DOMAIN host' => /\ req[q].host \in DOMAIN host
                                            /\ host'[req[q].host] = host[req[q].host]
        BY <1>0, <1>1, <2>0, <2>1 DEF Fine, Grounded
      <3>3. req[q].host \in DOMAIN host => req[q].host \in DOMAIN host'
        BY <1>1, <2>1
      <3> QED
        BY <2>0, <3>1, <3>2, <3>3 DEF Fine, Grounded, Ready
    <2>2. CASE req[q].host = n
      <3> DEFINE r == [req[q] EXCEPT !.host = m, !.item = @]
      <3>1. req'[q] = r
        BY <1>4, <2>2
      <3>t. r \in RequestType
        <4>1. [req[q] EXCEPT !.host = m] \in RequestType
          BY <2>0, SetHost
        <4>2. req[q].item \in Keys \cup {None, Gone}
          BY <2>0 DEF RequestType
        <4> QED
          BY <4>1, <4>2, SetItem
      <3>f. /\ r.pc = req[q].pc /\ r.host = m /\ r.item = req[q].item
            /\ r.read = req[q].read /\ r.lost = req[q].lost
            /\ r.keys = req[q].keys /\ r.stored = req[q].stored /\ r.answer = req[q].answer
        BY <2>0 DEF RequestType
      <3> HIDE DEF r
      <3>2. Grounded(r, host')
        BY <1>1, <1>2, <2>0, <2>2, <3>f DEF Fine, Grounded
      <3>3. q \in Pushes => Truthful(r)
        BY <2>0, <3>f DEF Fine, Truthful
      <3>4. q \in Applies => Ready(r, host')
        BY <1>1, <1>2, <2>0, <2>2, <3>f DEF Fine, Ready
      <3> QED
        BY <3>1, <3>t, <3>2, <3>3, <3>4 DEF Fine
    <2> QED
      BY <2>1, <2>2
  <1>6. req' \in [Requests -> RequestType]
    BY <1>4, <1>5
  <1> QED
    BY <1>3, <1>5, <1>6 DEF IngestInv

\* The references to a host that is deleted, and to its items, are gone.
LEMMA DeleteKeeps ==
  ASSUME IngestInv, Disturb, UNCHANGED token, NEW n \in Names,
         HostDelete(n), HostMoves(n, Gone)
  PROVE  IngestInv'
  <1>0. /\ TablesOK /\ InventoryTypeOK /\ edits' \in 0 .. MaxEdits
        /\ req \in [Requests -> RequestType]
    BY DEF IngestInv, TablesOK, Disturb
  <1>1. /\ DOMAIN host' = DOMAIN host \ {n} /\ UNCHANGED template
        /\ \A l \in DOMAIN host \ {n} : host'[l] = host[l]
    BY DEF HostDelete
  <1>2. TablesOK'
    BY <1>0, <1>1 DEF TablesOK, InventoryTypeOK
  <1>3. ASSUME NEW q \in Requests PROVE req'[q] \in RequestType /\ Fine(q)'
    <2>0. /\ req[q] \in RequestType /\ Fine(q)
          /\ None \notin DOMAIN host' /\ Gone \notin DOMAIN host'
      BY <1>0, <1>2 DEF IngestInv, TablesOK, InventoryTypeOK
    <2>1. CASE req[q].host # n
      <3>1. req'[q] = req[q]
        BY <2>1 DEF HostMoves
      <3> QED
        BY <1>1, <2>0, <2>1, <3>1 DEF Fine, Grounded, Ready
    <2>2. CASE req[q].host = n
      <3> DEFINE i == IF req[q].item # None THEN Gone ELSE req[q].item
                 r == [req[q] EXCEPT !.host = Gone, !.item = i]
      <3>1. req'[q] = r
        BY <2>2 DEF HostMoves
      <3>t. r \in RequestType
        <4>1. [req[q] EXCEPT !.host = Gone] \in RequestType
          BY <2>0, SetHost
        <4>2. i \in Keys \cup {None, Gone}
          OBVIOUS
        <4> HIDE DEF i
        <4> QED
          BY <4>1, <4>2, SetItem
      <3>f. /\ r.pc = req[q].pc /\ r.host = Gone /\ r.item \in {None, Gone}
            /\ req[q].item = None => r.item = None
            /\ r.stored = req[q].stored /\ r.answer = req[q].answer
        BY <2>0 DEF RequestType
      <3> HIDE DEF r, i
      <3>2. Grounded(r, host')
        BY <3>f DEF Grounded
      <3>3. q \in Pushes => Truthful(r)
        BY <2>0, <3>f DEF Fine, Truthful
      <3>4. Ready(r, host')
        BY <2>0, <3>f DEF Ready
      <3> QED
        BY <3>1, <3>t, <3>2, <3>3, <3>4 DEF Fine
    <2> QED
      BY <2>1, <2>2
  <1>4. req' \in [Requests -> RequestType]
    BY <1>3 DEF HostMoves
  <1> QED
    BY <1>2, <1>3, <1>4 DEF IngestInv

\* The references to an item follow it when its key changes, and are gone when
\* it is deleted.
LEMMA ItemKeeps ==
  ASSUME IngestInv, Disturb, UNCHANGED token, NEW n \in Names, NEW k \in Keys,
         NEW l \in Keys \cup {Gone}, ItemMoves(n, k, l),
         IF l = Gone THEN ItemDelete(n, k) ELSE ItemUpdate(n, k, l)
  PROVE  IngestInv'
  <1>0. /\ TablesOK /\ InventoryTypeOK /\ edits' \in 0 .. MaxEdits /\ k # None
        /\ req \in [Requests -> RequestType] /\ n # Gone /\ n # None
    BY DEF IngestInv, TablesOK, Disturb
  <1> DEFINE left == IF l = Gone THEN host[n].items \ {k} ELSE (host[n].items \ {k}) \cup {l}
  <1>1. /\ n \in DOMAIN host /\ UNCHANGED template
        /\ host' = [host EXCEPT ![n].items = left]
    BY DEF ItemDelete, ItemUpdate
  <1>2. /\ left \subseteq Keys /\ host[n].items \ {k} \subseteq left
        /\ l # Gone => l \in left
    BY <1>0, <1>1 DEF InventoryTypeOK, HostType
  <1> HIDE DEF left
  <1>3. /\ DOMAIN host' = DOMAIN host /\ host'[n].items = left /\ host'[n] \in HostType
        /\ \A m \in DOMAIN host \ {n} : host'[m] = host[m]
    BY <1>0, <1>1, <1>2 DEF InventoryTypeOK, HostType
  <1>4. TablesOK'
    BY <1>0, <1>1, <1>3 DEF TablesOK, InventoryTypeOK
  <1>5. ASSUME NEW q \in Requests PROVE req'[q] \in RequestType /\ Fine(q)'
    <2>0. req[q] \in RequestType /\ Fine(q)
      BY <1>0 DEF IngestInv
    <2>1. CASE req[q].host # n
      <3>1. req'[q] = req[q]
        BY <2>1 DEF ItemMoves
      <3> QED
        BY <1>3, <2>0, <2>1, <3>1 DEF Fine, Grounded, Ready
    <2>2. CASE req[q].host = n
      <3> DEFINE i == IF req[q].item = k THEN l ELSE req[q].item
                 w == IF req[q].pc = "apply" THEN req[q].lost \cup {k} ELSE req[q].lost
                 r == [req[q] EXCEPT !.item = i, !.lost = w]
      <3>1. req'[q] = r
        BY <2>2 DEF ItemMoves
      <3>2. /\ i \in Keys \cup {None, Gone} /\ w \in SUBSET Keys
            /\ req[q].item = None => i = None
            /\ i \in Keys => i \in left
        BY <1>0, <1>2, <2>0, <2>2 DEF RequestType, Fine, Grounded
      <3>t. r \in RequestType
        <4> HIDE DEF i, w
        <4>1. [req[q] EXCEPT !.item = i] \in RequestType
          BY <2>0, <3>2, SetItem
        <4> QED
          BY <4>1, <3>2, SetLost
      <3>f. /\ r.pc = req[q].pc /\ r.host = n /\ r.item = i
            /\ r.read = req[q].read
            /\ r.pc = "apply" => r.lost = req[q].lost \cup {k}
            /\ r.keys = req[q].keys /\ r.stored = req[q].stored /\ r.answer = req[q].answer
        BY <2>0, <2>2 DEF RequestType
      <3> HIDE DEF r, i, w
      <3>3. Grounded(r, host')
        BY <1>1, <1>3, <3>2, <3>f DEF Grounded
      <3>4. q \in Pushes => Truthful(r)
        BY <2>0, <3>2, <3>f DEF Fine, Truthful
      <3>5. q \in Applies => Ready(r, host')
        BY <1>1, <1>2, <1>3, <2>0, <2>2, <3>f DEF Fine, Ready
      <3> QED
        BY <3>1, <3>t, <3>3, <3>4, <3>5 DEF Fine
    <2> QED
      BY <2>1, <2>2
  <1>6. req' \in [Requests -> RequestType]
    BY <1>5 DEF ItemMoves
  <1> QED
    BY <1>4, <1>5, <1>6 DEF IngestInv

LEMMA EditKeeps ==
  ASSUME IngestInv, EditHosts \/ EditItems
  PROVE  IngestInv'
  <1>1. CASE EditHosts
    <2>1. CASE (\E n \in Names : HostCreate(n, NoAddress)) /\ UNCHANGED req
      BY <1>1, <2>1, CreateKeeps DEF EditHosts
    <2>2. CASE \E n, m \in Names : HostUpdate(n, m, NoAddress) /\ HostMoves(n, m)
      BY <1>1, <2>2, RenameKeeps DEF EditHosts
    <2>3. CASE \E n \in Names : HostDelete(n) /\ HostMoves(n, Gone)
      BY <1>1, <2>3, DeleteKeeps DEF EditHosts
    <2> QED
      BY <1>1, <2>1, <2>2, <2>3 DEF EditHosts, CreateHost, CreateHostForm, UpdateHost,
                                    UpdateHostForm, DeleteHost, DeleteHostForm
  <1>2. CASE EditItems
    <2>0. PICK n \in Names, k \in Keys :
             \/ ItemCreate(n, k) /\ UNCHANGED req
             \/ \E l \in Keys : ItemUpdate(n, k, l) /\ ItemMoves(n, k, l)
             \/ ItemDelete(n, k) /\ ItemMoves(n, k, Gone)
      BY <1>2 DEF EditItems, CreateItem, CreateItemForm, UpdateItem, DeleteItem,
                  DeleteItemForm
    <2>d. Disturb /\ UNCHANGED token
      BY <1>2 DEF EditItems
    <2>1. CASE ItemCreate(n, k) /\ UNCHANGED req
      BY <2>d, <2>1, CreateKeeps
    <2>2. ASSUME NEW l \in Keys, ItemUpdate(n, k, l), ItemMoves(n, k, l) PROVE IngestInv'
      <3>1. l # Gone
        OBVIOUS
      <3> QED
        BY <2>d, <2>2, <3>1, ItemKeeps
    <2>3. CASE ItemDelete(n, k) /\ ItemMoves(n, k, Gone)
      BY <2>d, <2>3, ItemKeeps
    <2> QED
      BY <2>0, <2>1, <2>2, <2>3
  <1> QED
    BY <1>1, <1>2

-----------------------------------------------------------------------------
LEMMA IngestInit == Init => IngestInv
  <1> SUFFICES ASSUME Init PROVE IngestInv
    OBVIOUS
  <1>1. InventoryTypeOK
    <2>1. PICK S \in SUBSET Names : host = [n \in S |-> NewHost(NoAddress, {}, FALSE)]
      BY DEF Init
    <2>2. NewHost(NoAddress, {}, FALSE) \in HostType
      BY DEF NewHost, HostType
    <2> QED
      BY <2>1, <2>2 DEF Init, InventoryTypeOK
  <1>2. req \in [Requests -> RequestType]
    BY NewType DEF Init
  <1>3. ASSUME NEW q \in Requests PROVE Fine(q)
    <2>1. req[q] = NewRequest
      BY DEF Init
    <2>2. /\ NewRequest.pc = "idle" /\ NewRequest.host = None /\ NewRequest.item = None
          /\ NewRequest.answer = 0
      BY DEF NewRequest
    <2> QED
      BY <2>1, <2>2 DEF Fine, Grounded, Truthful, Ready
  <1> QED
    BY <1>1, <1>2, <1>3 DEF IngestInv, TablesOK, Init

LEMMA IngestNext == IngestInv /\ [Next]_vars => IngestInv'
  <1> SUFFICES ASSUME IngestInv, [Next]_vars PROVE IngestInv'
    OBVIOUS
  <1>1. ASSUME NEW p \in Pushes, PushStep(p) \/ BadValue(p) PROVE IngestInv'
    BY <1>1, LookupKeeps, StoreKeeps, AutoCreateKeeps DEF PushStep
  <1>2. ASSUME NEW q \in Applies, ApplyStep(q) PROVE IngestInv'
    BY <1>2, ApplyKeeps
  <1>3. ASSUME NEW q \in Requests, RequestFails(q) PROVE IngestInv'
    BY <1>3, FailureKeeps
  <1>4. CASE CreateToken \/ RevokeToken
    BY <1>4, TokenKeeps
  <1>5. CASE EditHosts \/ EditItems
    BY <1>5, EditKeeps
  <1>6. CASE EditTemplate
    BY <1>6, TemplateKeeps
  <1>7. CASE UNCHANGED vars
    BY <1>7, OthersWait, SameTables DEF vars, IngestInv, TablesOK
  <1> QED
    BY <1>1, <1>2, <1>3, <1>4, <1>5, <1>6, <1>7 DEF Next

LEMMA IngestInvariant == Spec => []IngestInv
  BY IngestInit, IngestNext, PTL DEF Spec

\* A request refers to rows that exist or knows that they are gone, whatever the
\* owner deletes or renames meanwhile.
THEOREM TypeCorrect == Spec => []TypeOK
  BY IngestInvariant, InvImplies, PTL

\* A push answered 201 stored its sample, one that is refused did not.
THEOREM AnswersTrue == Spec => []AnswerTruth
  BY IngestInvariant, InvImplies, PTL

\* An application that succeeds leaves the host with the items it read of the
\* template: the insert fails if a push created one of them since the host's keys
\* were read, and what it leaves out was on the host then and is still, unless
\* the owner removed it after that.
THEOREM TemplateOnHost == Spec => TemplateApplied
  <1> DEFINE Complete ==
        \A q \in Applies :
          CommitApply(q) /\ req'[q].answer = 200 =>
             \A n \in DOMAIN host' : n = req[q].host =>
                req[q].read \ req[q].lost \subseteq host'[n].items
  <1>1. ASSUME IngestInv, [Next]_vars PROVE [Complete]_vars
    <2> SUFFICES ASSUME NEW q \in Applies, CommitApply(q), req'[q].answer = 200,
                        NEW n \in DOMAIN host', n = req[q].host
                 PROVE  req[q].read \ req[q].lost \subseteq host'[n].items
      OBVIOUS
    <2>0. q \in Requests /\ req \in [Requests -> RequestType] /\ Ready(req[q], host)
      BY <1>1 DEF IngestInv, Requests, Fine
    <2>1. req[q].pc = "apply" /\ n \in DOMAIN host
      <3>1. DOMAIN host' = DOMAIN host
        BY DEF CommitApply
      <3> QED
        BY <3>1 DEF CommitApply
    <2>2. ~Answer(q, 500)
      <3> SUFFICES ASSUME Answer(q, 500) PROVE FALSE
        OBVIOUS
      <3>1. req'[q] = [NewRequest EXCEPT !.answer = 500, !.stored = req[q].stored]
        BY <2>0 DEF Answer
      <3>2. req'[q].answer = 500
        BY <3>1 DEF NewRequest
      <3> QED
        BY <3>2
    <2>3. CASE req[q].keys = {}
      BY <2>0, <2>1, <2>3 DEF CommitApply, Ready
    <2>4. CASE req[q].keys # {}
      <3>1. host' = [host EXCEPT ![n].items = @ \cup req[q].keys]
        BY <2>2, <2>4 DEF CommitApply
      <3>2. host[n] \in HostType
        BY <1>1, <2>1 DEF IngestInv, TablesOK, InventoryTypeOK
      <3>3. host'[n].items = host[n].items \cup req[q].keys
        BY <2>1, <3>1, <3>2 DEF HostType
      <3> QED
        BY <2>0, <2>1, <3>3 DEF Ready
    <2> QED
      BY <2>3, <2>4
  <1> QED
    BY <1>1, IngestInvariant, PTL DEF Spec, TemplateApplied
=============================================================================
