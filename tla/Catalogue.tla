----------------------------- MODULE Catalogue -----------------------------
(***************************************************************************)
(* The registration of customers, vehicles, services, parts and users.     *)
(*   use-cases/customers, vehicles, services, items, auth                  *)
(*   adapters/gateways/Postgres{Customer,Vehicle,Service,Item,User}-       *)
(*   Repository.ts, uniqueConstraint.ts, uuid.ts                           *)
(*   the keys, foreign keys and CHECKs of the initial migration            *)
(*                                                                         *)
(* None of these use cases runs in a transaction: a request is one query   *)
(* after another, each an action here, and those of other requests fall in *)
(* between.  Only the opening of an order commits its statements together. *)
(***************************************************************************)
EXTENDS Routes, Naturals, FiniteSets

CONSTANTS
    Client,    \* requests that may be under way at once
    Id,        \* generated identifiers, never used again
    TableOf,   \* the table each of them is generated for
    Key,       \* documents, plates and e-mails
    Order,     \* service orders that may be opened
    Scopes     \* bound: rows, keys, routes and bodies of the requests made together

Table == {"customers", "vehicles", "services", "items", "users"}

CustomerCalls == {"createCustomer", "updateCustomer", "deleteCustomer", "getCustomer", "getByTaxId"}
VehicleCalls == {"createVehicle", "updateVehicle", "deleteVehicle", "getVehicle"}
ServiceCalls == {"createService", "updateService", "deleteService", "getService"}
ItemCalls == {"createItem", "updateItem", "deleteItem", "getItem"}
AuthCalls == {"register", "login", "lookupCustomer"}

Calls == UNION {CustomerCalls, VehicleCalls, ServiceCalls, ItemCalls, AuthCalls, {"createOrder"}}

\* What a body is like: good; with a value that validation, a CHECK or the hash
\* of a password refuses; with a stock that may be below what is reserved; no
\* JSON, or without a field that is read before the first query; without a field
\* that is only needed later, or with one no table has. A customer's update may
\* also bring deletedAt, as a date or as null. (Other columns that no route
\* documents, such as id, createdAt or reservedQuantity, are left out.)
Body == {"good", "refused", "low", "malformed", "unfit", "retired", "revived"}

NoId == "none"

ASSUME CatalogueAssumption ==
    /\ NoId \notin Id
    /\ TableOf \in [Id -> Table]
    /\ Scopes \subseteq [ids : SUBSET Id, keys : SUBSET Key, calls : SUBSET Calls, bodies : SUBSET Body]

VARIABLES
    scope,     \* what the requests are about
    row,       \* the five tables
    uses,      \* foreign keys of an order and of its lines
    open,      \* orders whose parts are still reserved
    request,   \* what each client asked for
    step,      \* the next query of each request
    answer     \* the status code of the last answer

tableVars == <<row, uses, open>>
vars == <<tableVars, request, step, answer>>    \* scope never changes

\* Two ways of writing a key: without punctuation, lower case and spaces, or with.
Spelling(keys) == keys \X {"raw", "formatted"}

\* input.taxId.replace(/\D/g, '')
Normalized(s) == <<s[1], "raw">>

NoKey == <<>>

\* A row: not inserted yet, live, with deleted_at set, or deleted. The key is
\* the column with a unique index, and parent the customer of a vehicle.
Row == [state : {"unused", "live", "inactive", "gone"},
        key : Spelling(Key) \cup {NoKey}, parent : Id \cup {NoId}]

Request(s) == [call : s.calls, id : s.ids \cup {NoId}, key : Spelling(s.keys) \cup {NoKey},
               parent : s.ids \cup {NoId}, uses : SUBSET s.ids, body : s.bodies]

NoRequest == [call |-> "none"]

TypeOK ==
    /\ scope \in Scopes
    /\ row \in [Id -> Row]
    /\ uses \subseteq Order \X Id
    /\ open \subseteq Order
    /\ request \in [Client -> Request(scope) \cup {NoRequest}]
    /\ step \in [Client -> {"idle", "validate", "resolve", "lookup", "check", "find", "write", "read"}]
    /\ answer \in [Client -> {0, 200, 201, 204, 400, 401, 404, 409, 500}]

Init ==
    /\ scope \in Scopes
    /\ row = [i \in Id |-> [state |-> "unused", key |-> NoKey, parent |-> NoId]]
    /\ uses = {}
    /\ open = {}
    /\ request = [c \in Client |-> NoRequest]
    /\ step = [c \in Client |-> "idle"]
    /\ answer = [c \in Client |-> 0]

-----------------------------------------------------------------------------
(* The queries of the calls.                                               *)

TableOfCall ==
    [call \in Calls \ {"createOrder"} |->
        CASE call \in CustomerCalls \cup {"lookupCustomer"} -> "customers"
          [] call \in VehicleCalls -> "vehicles"
          [] call \in ServiceCalls -> "services"
          [] call \in ItemCalls -> "items"
          [] call \in {"register", "login"} -> "users"]

Creates == {"createCustomer", "createVehicle", "createService", "createItem", "register"}
Updates == {"updateCustomer", "updateVehicle", "updateService", "updateItem"}
Deletes == {"deleteCustomer", "deleteVehicle", "deleteService", "deleteItem"}
ByKey == {"getByTaxId", "lookupCustomer", "login"}

\* The use cases that look at the body before they query. The prices and times
\* of a service are left to the CHECKs of the table.
Validating == {"createCustomer", "updateCustomer", "createVehicle", "updateVehicle",
               "createItem", "updateItem", "lookupCustomer"}

LooksUp(q) ==
    \/ q.call \in {"createCustomer", "createVehicle", "register"}
    \/ q.call = "updateVehicle" /\ q.key # NoKey

FirstStep(q) ==
    IF q.body = "malformed" \/ (q.body = "refused" /\ q.call \in Validating) THEN "validate"
    ELSE CASE q.call = "createOrder" -> "resolve"
           [] LooksUp(q) -> "lookup"
           [] q.call = "deleteItem" -> "check"
           [] q.call \in {"createItem", "createService"} -> "write"
           [] q.call \in {"getCustomer", "getVehicle", "getService", "getItem"} \cup ByKey -> "read"
           [] OTHER -> "find"

-----------------------------------------------------------------------------
(* The tables.                                                             *)

Present(i) == i \in Id /\ row[i].state \in {"live", "inactive"}

Live(i) == i \in Id /\ row[i].state = "live"

Rows(t) == {i \in Id : TableOf[i] = t /\ Present(i)}

\* A slip: the unique index covers live rows only.
Holders_Live(t, k) == {i \in Rows(t) : row[i].key = k /\ k # NoKey /\ Live(i)}

\* The rows with a key, whatever deleted_at is.
Holders(t, k) == {i \in Rows(t) : row[i].key = k /\ k # NoKey}

\* items.reserved_quantity > 0
Reserved(i) == \E o \in open : <<o, i>> \in uses

\* ON DELETE RESTRICT
Referenced(i) == (\E j \in Rows("vehicles") : row[j].parent = i) \/ \E o \in Order : <<o, i>> \in uses

\* Soft-deleted customers are not looked up; in the other tables all rows are live.
Found(t, k) == {i \in Holders(t, k) : Live(i)}

\* What the column holds: the digits of a document, a plate or e-mail as written.
StoredKey(q) == IF q.call = "createCustomer" THEN Normalized(q.key) ELSE q.key

-----------------------------------------------------------------------------
(* Requests, one query at a time.                                          *)

\* An order has one customer and one vehicle. Tables out of scope are left out,
\* as if what an order names in them were there.
NamesAnOrder(ids, named) ==
    named # {} /\ \A t \in {"customers", "vehicles"} :
        (\E i \in ids : TableOf[i] = t) => Cardinality({i \in named : TableOf[i] = t}) = 1

\* The calls a body is for. Those that bring one can bring anything.
WithBody == Creates \cup Updates \cup {"login", "lookupCustomer", "createOrder"}

Suits(body, call) ==
    /\ body = "refused" => call \in Validating \cup {"createService", "updateService", "login"}
    /\ body = "low" => call = "updateItem"
    /\ body = "malformed" => call \in WithBody
    /\ body = "unfit" => call \in WithBody \ {"lookupCustomer"}
    /\ body \in {"retired", "revived"} => call = "updateCustomer"

Relevant(ids, q) ==
    /\ IF q.call = "createOrder" THEN NamesAnOrder(ids, q.uses) ELSE q.uses = {}
    /\ IF q.call \in ByKey \cup {"createOrder"} THEN q.id = NoId
       ELSE q.id \in Id /\ TableOf[q.id] = TableOfCall[q.call]
    /\ IF q.call \in {"createCustomer", "createVehicle", "register"} \cup ByKey THEN q.key # NoKey
       ELSE q.call = "updateVehicle" \/ q.key = NoKey
    /\ q.call = "createVehicle" => q.parent # NoId
    /\ q.parent # NoId => q.call \in {"createVehicle", "updateVehicle"} /\ TableOf[q.parent] = "customers"
    /\ Suits(q.body, q.call)

Requests == UNION {{<<s, q>> : q \in {p \in Request(s) : Relevant(s.ids, p)}} : s \in Scopes}

Opened == {o \in Order : \E i \in Id : <<o, i>> \in uses}

Opening == {d \in Client : request[d].call = "createOrder"}

\* A request that inserts a row brings the identifier that will be generated.
Fresh(q) ==
    /\ q.call \in Creates =>
          row[q.id].state = "unused" /\ \A d \in Client : request[d].call \in Creates => request[d].id # q.id
    /\ q.call = "createOrder" => Cardinality(Opening) + Cardinality(Opened) < Cardinality(Order)

Ask(c, q) ==
    /\ step[c] = "idle"
    /\ Fresh(q)
    /\ request' = [request EXCEPT ![c] = q]
    /\ step' = [step EXCEPT ![c] = FirstStep(q)]
    /\ answer' = [answer EXCEPT ![c] = 0]
    /\ UNCHANGED tableVars

At(c, s) == step[c] = s

Answer(c, status) ==
    /\ answer' = [answer EXCEPT ![c] = status]
    /\ step' = [step EXCEPT ![c] = "idle"]
    /\ request' = [request EXCEPT ![c] = NoRequest]

GoTo(c, s) ==
    /\ step' = [step EXCEPT ![c] = s]
    /\ UNCHANGED <<request, answer>>

\* A slip: a status code that no route documents.
Refuse_Unprocessable(c) ==
    At(c, "validate") /\ request[c].body = "refused" /\ Answer(c, 422) /\ UNCHANGED tableVars

\* ValidationError, before any query.
Refuse(c) ==
    At(c, "validate") /\ request[c].body = "refused" /\ Answer(c, 400) /\ UNCHANGED tableVars

\* The parser, a validator or the first query throws what is no AppError.
Throw(c) ==
    At(c, "validate") /\ request[c].body = "malformed" /\ Answer(c, 500) /\ UNCHANGED tableVars

\* A slip: a vehicle that keeps its plate is taken for another one.
Clashes_WithItself(q) == Found(TableOfCall[q.call], StoredKey(q)) # {}

Clashes(q) == Found(TableOfCall[q.call], StoredKey(q)) \ {q.id} # {}

\* findByTaxId, findByPlate, findByEmail before a row is written.
Lookup(c) ==
    LET q == request[c] IN
    /\ At(c, "lookup")
    /\ IF Clashes(q) THEN Answer(c, 409)
       ELSE GoTo(c, IF q.call = "updateVehicle" THEN "find" ELSE "write")
    /\ UNCHANGED tableVars

\* DeleteItemUseCase reads the reservation.
Check(c) ==
    LET i == request[c].id IN
    /\ At(c, "check")
    /\ CASE ~ Live(i) -> Answer(c, 404)
         [] Live(i) /\ Reserved(i) -> Answer(c, 400)
         [] OTHER -> GoTo(c, "find")
    /\ UNCHANGED tableVars

\* update, delete and softDelete look for the row first. The use case of parts
\* has seen it, and ignores that it is gone.
Find(c) ==
    LET q == request[c] IN
    /\ At(c, "find")
    /\ CASE Live(q.id) -> GoTo(c, "write")
         [] ~ Live(q.id) /\ q.call = "deleteItem" -> Answer(c, 204)
         [] OTHER -> Answer(c, 404)
    /\ UNCHANGED tableVars

\* A CHECK on the columns that are written.
CheckFails(q) ==
    \/ q.body = "refused" /\ q.call \in {"createService", "updateService"}
    \/ q.body = "low" /\ Reserved(q.id)

\* Or Prisma refuses the fields before it asks the database.
Unwritable(q) == q.body = "unfit" \/ CheckFails(q)

\* A slip: the violation of the index reaches the middleware as it is.
Duplicate_Untranslated == 500

\* translatingUniqueViolation
Duplicate == 409

\* The foreign key of a vehicle.
ParentMissing(q) == q.parent # NoId /\ ~ Present(q.parent)

Insert(c) ==
    LET q == request[c]
        t == TableOfCall[q.call] IN
    /\ At(c, "write")
    /\ q.call \in Creates
    /\ \/ Unwritable(q) /\ Answer(c, 500) /\ UNCHANGED tableVars
       \/ /\ ~ Unwritable(q) /\ Holders(t, StoredKey(q)) # {}
          /\ Answer(c, Duplicate) /\ UNCHANGED tableVars
       \/ /\ ~ Unwritable(q) /\ Holders(t, StoredKey(q)) = {} /\ ParentMissing(q)
          /\ Answer(c, 500) /\ UNCHANGED tableVars
       \/ /\ ~ Unwritable(q) /\ Holders(t, StoredKey(q)) = {} /\ ~ ParentMissing(q)
          /\ row' = [row EXCEPT ![q.id] = [state |-> "live", key |-> StoredKey(q), parent |-> q.parent]]
          /\ Answer(c, 201)
          /\ UNCHANGED <<uses, open>>

\* The columns that the body names, whether or not the route documents them.
Written(q, r) ==
    [state |-> CASE q.body = "retired" -> "inactive"
                 [] q.body = "revived" -> "live"
                 [] OTHER -> r.state,
     key |-> IF q.key = NoKey THEN r.key ELSE q.key,
     parent |-> IF q.parent = NoId THEN r.parent ELSE q.parent]

Update(c) ==
    LET q == request[c]
        others == Holders(TableOfCall[q.call], q.key) \ {q.id} IN
    /\ At(c, "write")
    /\ q.call \in Updates
    /\ \/ /\ ~ Present(q.id) \/ Unwritable(q)
          /\ Answer(c, 500) /\ UNCHANGED tableVars
       \/ /\ Present(q.id) /\ ~ Unwritable(q) /\ others # {}
          /\ Answer(c, Duplicate) /\ UNCHANGED tableVars
       \/ /\ Present(q.id) /\ ~ Unwritable(q) /\ others = {} /\ ParentMissing(q)
          /\ Answer(c, 500) /\ UNCHANGED tableVars
       \/ /\ Present(q.id) /\ ~ Unwritable(q) /\ others = {} /\ ~ ParentMissing(q)
          /\ row' = [row EXCEPT ![q.id] = Written(q, row[q.id])]
          /\ Answer(c, 200)
          /\ UNCHANGED <<uses, open>>

\* softDelete: the row stays and keeps its key, and a row that was deleted in
\* between is deleted once more.
Deactivate(c) ==
    LET i == request[c].id IN
    /\ At(c, "write")
    /\ request[c].call = "deleteCustomer"
    /\ row' = [row EXCEPT ![i].state = "inactive"]
    /\ Answer(c, 204)
    /\ UNCHANGED <<uses, open>>

\* The row is used, or another request deleted it first: the error is not known.
Delete(c) ==
    LET i == request[c].id IN
    /\ At(c, "write")
    /\ request[c].call \in Deletes \ {"deleteCustomer"}
    /\ \/ /\ ~ Present(i) \/ Referenced(i)
          /\ Answer(c, 500) /\ UNCHANGED tableVars
       \/ /\ Present(i) /\ ~ Referenced(i)
          /\ row' = [row EXCEPT ![i].state = "gone"]
          /\ Answer(c, 204)
          /\ UNCHANGED <<uses, open>>

GetById(c) ==
    LET q == request[c] IN
    /\ At(c, "read")
    /\ q.call \notin ByKey
    /\ Answer(c, IF Live(q.id) THEN 200 ELSE 404)
    /\ UNCHANGED tableVars

\* The document as it stands in the path.
GetByTaxId(c) ==
    /\ At(c, "read")
    /\ request[c].call = "getByTaxId"
    /\ Answer(c, IF Found("customers", request[c].key) # {} THEN 200 ELSE 404)
    /\ UNCHANGED tableVars

\* The lookup of the token function finds inactive customers as well.
LookupByCpf(c) ==
    /\ At(c, "read")
    /\ request[c].call = "lookupCustomer"
    /\ Answer(c, IF Holders("customers", Normalized(request[c].key)) # {} THEN 200 ELSE 404)
    /\ UNCHANGED tableVars

\* A body that is refused is a wrong password; without one, bcrypt throws if
\* there is a hash to compare with.
Login(c) ==
    LET q == request[c] IN
    /\ At(c, "read")
    /\ q.call = "login"
    /\ Answer(c, CASE Found("users", q.key) = {} \/ q.body = "refused" -> 401
                   [] Found("users", q.key) # {} /\ q.body = "unfit" -> 500
                   [] OTHER -> 200)
    /\ UNCHANGED tableVars

\* CreateServiceOrderUseCase finds the services before its transaction begins.
Resolve(c) ==
    /\ At(c, "resolve")
    /\ IF \A i \in request[c].uses : TableOf[i] = "services" => Live(i)
       THEN GoTo(c, "write") ELSE Answer(c, 404)
    /\ UNCHANGED tableVars

\* The transaction: parts are found and reserved, and the foreign keys of the
\* customer, the vehicle and the services are checked by the insert, which an
\* unfit body leaves without one of them.
OpenOrder(c) ==
    LET named == request[c].uses
        parts == {i \in named : TableOf[i] = "items"} IN
    /\ At(c, "write")
    /\ request[c].call = "createOrder"
    /\ \/ (\E i \in parts : ~ Live(i)) /\ Answer(c, 404) /\ UNCHANGED tableVars
       \/ parts # {} /\ (\A i \in parts : Live(i)) /\ Answer(c, 400) /\ UNCHANGED tableVars
       \/ /\ \A i \in parts : Live(i)
          /\ request[c].body = "unfit" \/ \E i \in named : ~ Present(i)
          /\ Answer(c, 500) /\ UNCHANGED tableVars
       \/ /\ request[c].body # "unfit" /\ \A i \in named : Present(i)
          /\ \E o \in Order \ Opened :
                /\ uses' = uses \cup {o} \X named
                /\ open' = open \cup {o}
          /\ Answer(c, 201)
          /\ UNCHANGED row

\* An order is paid, rejected or cancelled: its lines stay, the reservations go.
Settle(o) ==
    /\ o \in open
    /\ open' = open \ {o}
    /\ UNCHANGED <<row, uses, request, step, answer>>

Next ==
    \/ \E c \in Client :
          \/ \E r \in Requests : r[1] = scope /\ Ask(c, r[2])
          \/ Refuse(c) \/ Throw(c) \/ Lookup(c) \/ Check(c) \/ Find(c) \/ Insert(c) \/ Update(c)
          \/ Deactivate(c) \/ Delete(c) \/ Resolve(c) \/ OpenOrder(c)
          \/ GetById(c) \/ GetByTaxId(c) \/ LookupByCpf(c) \/ Login(c)
    \/ \E o \in Order : Settle(o)

Spec == Init /\ [][Next /\ UNCHANGED scope]_<<vars, scope>>
-----------------------------------------------------------------------------
(* Properties.                                                             *)

\* Two requests with the same document, plate or e-mail never both get it,
\* however their lookups and writes fall, and a deleted customer keeps its own.
KeysAreHeldOnce ==
    \A i, j \in Id :
        /\ i # j /\ TableOf[i] = TableOf[j] /\ Present(i) /\ Present(j)
        => row[i].key # row[j].key \/ row[i].key = NoKey

\* What the code has no answer for but 500: a body it cannot read or write, a
\* row that vanished during the request, a reference to none, a row in use.
Unanswerable(q) ==
    \/ q.body = "malformed" \/ Unwritable(q)
    \/ q.call \notin Creates /\ q.id # NoId /\ ~ Present(q.id)
    \/ \E i \in {q.parent} \cup q.uses : i # NoId /\ ~ Present(i)
    \/ q.call \in Deletes /\ Referenced(q.id)

\* Whatever other requests do between its queries, the answer of a request is
\* true when it is given: 404 names a row nobody can get, 409 a key that
\* somebody else holds, 204 a row that is no longer there and that nothing is
\* left to refer to, 200 and 201 rows that are there with all they refer to, and
\* 500 is left for what Unanswerable says. It is never the answer to a key that
\* is taken.
TellsTheTruth(q, status) ==
    /\ status = 404 /\ q.id # NoId => ~ Live(q.id)
    /\ status = 409 => Holders(TableOfCall[q.call], StoredKey(q)) \ {q.id} # {}
    /\ status = 204 => \/ row'[q.id].state = "inactive"
                       \/ row'[q.id].state = "gone" /\ ~ Referenced(q.id)
    /\ status \in {200, 201} => \A i \in {q.id, q.parent} \cup q.uses :
                                  i # NoId => row'[i].state \in {"live", "inactive"}
    /\ status = 500 => Unanswerable(q)

AnswersTellTheTruth ==
    [][\A c \in Client : answer'[c] \notin {0, answer[c]} => TellsTheTruth(request[c], answer'[c])]_vars

\* The controllers answer as the @openapi block of their route says, also when
\* others write between the queries of a request. What the blocks leave out is
\* the 400 of a customer's update and the 500 of what is unanswerable; where the
\* request is about customers or users, that is a malformed or unfit body and
\* nothing else: neither a taken key nor any row that comes or goes meanwhile.
\* What the middlewares answer on the way (401, 403, 429) is not compared.
IsDocumented(q, status) ==
    \/ q.call = "lookupCustomer"
    \/ status \in API[q.call].documented
    \/ status = 400 /\ q.call = "updateCustomer"
    \/ /\ status = 500 /\ Unanswerable(q)
       /\ q.call \in CustomerCalls \cup AuthCalls => q.body \in {"malformed", "unfit"}

AnswersAreDocumented ==
    [][\A c \in Client : answer'[c] \notin {0, answer[c]} => IsDocumented(request[c], answer'[c])]_vars
=============================================================================
