-------------------------- MODULE CatalogueProofs --------------------------
(* Theorems about the registrations, for any rows, keys, orders and        *)
(* clients, and about the rules that requests pass on their way.           *)
EXTENDS HttpApi, FiniteSetTheorems, TLAPS

\* What a request names is in the table of its call, and comes with the key the
\* call needs.
NamesItsTable == \A c \in Client : request[c] # NoRequest => Relevant(scope.ids, request[c])

\* findById has seen the customer that softDelete writes, and no customer is
\* ever deleted by anything else.
LeavingIsThere ==
    \A c \in Client : request[c].call = "deleteCustomer" =>
        At(c, "find") \/ (At(c, "write") /\ Present(request[c].id))

\* The inductive invariant: KeysAreHeldOnce is its third part. Without the
\* second a customer that was never inserted could come by a key.
IInv == TypeOK /\ NamesItsTable /\ KeysAreHeldOnce /\ LeavingIsThere
-----------------------------------------------------------------------------
(* What a request is.                                                      *)

LEMMA ScopeType ==
    ASSUME TypeOK
    PROVE  scope.ids \subseteq Id /\ scope.keys \subseteq Key
  BY CatalogueAssumption DEF TypeOK

LEMMA RequestType ==
    ASSUME TypeOK, NamesItsTable, NEW c \in Client, request[c].call # "none"
    PROVE  /\ request[c] \in Request(scope)
           /\ Relevant(scope.ids, request[c])
           /\ request[c].key \in Spelling(Key) \cup {NoKey}
           /\ request[c].parent \in Id \cup {NoId}
<1>1. request[c] \in Request(scope) \cup {NoRequest} /\ request[c] # NoRequest
  BY DEF TypeOK, NoRequest
<1> QED
  BY <1>1, ScopeType DEF NamesItsTable, Request, Spelling
LEMMA StoredKeyType ==
    ASSUME TypeOK, NamesItsTable, NEW c \in Client, request[c].call \in Creates
    PROVE  StoredKey(request[c]) \in Spelling(Key) \cup {NoKey}
<1>1. request[c].call # "none"
  BY DEF Creates
<1>2. request[c].key \in Spelling(Key) \cup {NoKey} /\ Relevant(scope.ids, request[c])
  BY <1>1, RequestType
<1>3. request[c].call = "createCustomer" => request[c].key \in Spelling(Key)
  BY <1>2 DEF Relevant
<1>4. request[c].key \in Spelling(Key) => Normalized(request[c].key) \in Spelling(Key)
  BY DEF Spelling, Normalized
<1> QED
  BY <1>2, <1>3, <1>4 DEF StoredKey

LEMMA TablesOfDeletes ==
    /\ TableOfCall["deleteCustomer"] = "customers"
    /\ \A call \in Deletes \ {"deleteCustomer"} : TableOfCall[call] # "customers"
<1>1. Deletes \subseteq Calls \ {"createOrder"}
  BY DEF Deletes, Calls, CustomerCalls, VehicleCalls, ServiceCalls, ItemCalls
<1>2. "deleteCustomer" \in CustomerCalls /\ "deleteCustomer" \in Deletes
  BY DEF CustomerCalls, Deletes
<1> QED
  BY <1>1, <1>2 DEF TableOfCall, Deletes, CustomerCalls, VehicleCalls, ServiceCalls, ItemCalls

LEMMA TablesOfUpdates == TableOfCall["updateCustomer"] = "customers"
<1>1. "updateCustomer" \in Calls \ {"createOrder"} /\ "updateCustomer" \in CustomerCalls
  BY DEF Calls, CustomerCalls
<1> QED
  BY <1>1 DEF TableOfCall, CustomerCalls, VehicleCalls, ServiceCalls, ItemCalls

\* A write names a row of its call's table, and an insert a row with an identifier.
LEMMA WritesItsTable ==
    ASSUME TypeOK, NamesItsTable, NEW c \in Client, request[c].call \in Creates \cup Updates \cup Deletes
    PROVE  request[c].id \in Id /\ TableOf[request[c].id] = TableOfCall[request[c].call]
<1>1. request[c].call # "none" /\ request[c].call \notin ByKey \cup {"createOrder"}
  BY DEF Creates, Updates, Deletes, ByKey
<1> QED
  BY <1>1, RequestType DEF Relevant
-----------------------------------------------------------------------------
(* The steps: an answer and a change of step keep what is not in a table.  *)

LEMMA AnswerKeeps ==
    ASSUME TypeOK, NamesItsTable, LeavingIsThere, NEW c \in Client, UNCHANGED scope,
           NEW status \in {200, 201, 204, 400, 401, 404, 409, 500}, Answer(c, status),
           row' \in [Id -> Row], uses' \subseteq Order \X Id, open' \subseteq Order,
           \A i \in Id : TableOf[i] = "customers" /\ Present(i) => Present(i)'
    PROVE  TypeOK' /\ NamesItsTable' /\ LeavingIsThere'
<1>1. TypeOK'
  BY DEF TypeOK, Answer
<1>2. NamesItsTable'
  BY DEF TypeOK, Answer, NamesItsTable
<1>3. LeavingIsThere'
  <2> SUFFICES ASSUME NEW d \in Client, (request[d].call = "deleteCustomer")'
               PROVE  At(d, "find")' \/ (At(d, "write")' /\ Present(request[d].id)')
    BY DEF LeavingIsThere
  <2>1. d # c
    BY DEF TypeOK, Answer, NoRequest
  <2>2. request'[d] = request[d] /\ step'[d] = step[d] /\ request[d].call = "deleteCustomer"
    BY <2>1 DEF TypeOK, Answer
  <2>3. request[d].id \in Id /\ TableOf[request[d].id] = "customers"
    BY <2>2, WritesItsTable, TablesOfDeletes DEF Deletes
  <2> QED
    BY <2>2, <2>3 DEF LeavingIsThere, At
<1> QED
  BY <1>1, <1>2, <1>3

LEMMA GoToKeeps ==
    ASSUME TypeOK, NamesItsTable, LeavingIsThere, NEW c \in Client, UNCHANGED <<tableVars, scope>>,
           NEW s \in {"write", "find"}, GoTo(c, s),
           request[c].call = "deleteCustomer" /\ s = "write" => Present(request[c].id)
    PROVE  TypeOK' /\ NamesItsTable' /\ LeavingIsThere'
<1>1. TypeOK'
  BY DEF TypeOK, GoTo, tableVars
<1>2. NamesItsTable'
  BY DEF GoTo, NamesItsTable
<1>3. LeavingIsThere'
  BY DEF TypeOK, GoTo, LeavingIsThere, At, Present, tableVars
<1> QED
  BY <1>1, <1>2, <1>3

LEMMA KeysUntouched ==
    ASSUME KeysAreHeldOnce, UNCHANGED row
    PROVE  KeysAreHeldOnce'
  BY DEF KeysAreHeldOnce, Present

\* Reads and refusals.
LEMMA AnswerWithoutWriting ==
    ASSUME IInv, NEW c \in Client, UNCHANGED <<tableVars, scope>>,
           NEW status \in {200, 201, 204, 400, 401, 404, 409, 500}, Answer(c, status)
    PROVE  IInv'
<1>1. /\ row' \in [Id -> Row] /\ uses' \subseteq Order \X Id /\ open' \subseteq Order
      /\ \A i \in Id : Present(i) => Present(i)'
  BY DEF IInv, TypeOK, tableVars, Present
<1>2. TypeOK' /\ NamesItsTable' /\ LeavingIsThere'
  BY <1>1, AnswerKeeps DEF IInv
<1> QED
  BY <1>2, KeysUntouched DEF IInv, tableVars

LEMMA GoingOn ==
    ASSUME IInv, NEW c \in Client, UNCHANGED <<tableVars, scope>>,
           NEW s \in {"write", "find"}, GoTo(c, s),
           request[c].call = "deleteCustomer" /\ s = "write" => Present(request[c].id)
    PROVE  IInv'
  BY GoToKeeps, KeysUntouched DEF IInv, tableVars

LEMMA AskKeeps ==
    ASSUME IInv, NEW c \in Client, NEW r \in Requests, r[1] = scope, Ask(c, r[2]), UNCHANGED scope
    PROVE  IInv'
<1> DEFINE q == r[2]
<1>1. q \in Request(scope) /\ Relevant(scope.ids, q)
  BY DEF Requests
<1>2. FirstStep(q) \in {"validate", "resolve", "lookup", "check", "write", "read", "find"}
  BY DEF FirstStep
<1>3. q.call = "deleteCustomer" => FirstStep(q) = "find"
  <2>1. q.call = "deleteCustomer" => q.body # "malformed"
    BY <1>1 DEF Relevant, Suits, WithBody, Creates, Updates
  <2> HIDE DEF q
  <2> QED
    BY <2>1 DEF FirstStep, LooksUp, ByKey, Validating
<1>4. TypeOK'
  BY <1>1, <1>2 DEF IInv, TypeOK, Ask, tableVars
<1>5. NamesItsTable'
  BY <1>1 DEF IInv, TypeOK, NamesItsTable, Ask
<1>6. LeavingIsThere'
  BY <1>3 DEF IInv, TypeOK, LeavingIsThere, Ask, At, Present, tableVars
<1> QED
  BY <1>4, <1>5, <1>6, KeysUntouched DEF IInv, Ask, tableVars

LEMMA QueryKeeps ==
    ASSUME IInv, NEW c \in Client, UNCHANGED scope,
           Refuse(c) \/ Throw(c) \/ Lookup(c) \/ Check(c) \/ Find(c) \/ Resolve(c)
    PROVE  IInv'
<1>1. CASE Refuse(c) \/ Throw(c)
  BY <1>1, AnswerWithoutWriting DEF Refuse, Throw
<1>2. CASE Lookup(c)
  <2>1. CASE Clashes(request[c])
    BY <1>2, <2>1, AnswerWithoutWriting DEF Lookup
  <2>2. CASE ~ Clashes(request[c])
    <3>1. request[c].call # "deleteCustomer"
      BY <1>2 DEF IInv, LeavingIsThere, Lookup, At
    <3> QED
      BY <1>2, <2>2, <3>1, GoingOn DEF Lookup
  <2> QED
    BY <2>1, <2>2
<1>3. CASE Check(c)
  BY <1>3, AnswerWithoutWriting, GoingOn DEF Check
<1>4. CASE Find(c)
  BY <1>4, AnswerWithoutWriting, GoingOn DEF Find, Live, Present
<1>5. CASE Resolve(c)
  <2>1. request[c].call # "deleteCustomer"
    BY <1>5 DEF IInv, LeavingIsThere, Resolve, At
  <2> QED
    BY <1>5, <2>1, AnswerWithoutWriting, GoingOn DEF Resolve
<1> QED
  BY <1>1, <1>2, <1>3, <1>4, <1>5

LEMMA ReadKeeps ==
    ASSUME IInv, NEW c \in Client, UNCHANGED scope,
           GetById(c) \/ GetByTaxId(c) \/ LookupByCpf(c) \/ Login(c)
    PROVE  IInv'
  BY AnswerWithoutWriting DEF GetById, GetByTaxId, LookupByCpf, Login
-----------------------------------------------------------------------------
(* The writes.                                                             *)

\* A row that gets a key which no other row of its table has.
LEMMA KeyGiven ==
    ASSUME TypeOK, KeysAreHeldOnce, NEW i \in Id, NEW k,
           row' \in [Id -> Row],
           \A j \in Id : j # i => row'[j] = row[j],
           row'[i].key = k,
           k = NoKey \/ \A j \in Rows(TableOf[i]) : row[j].key = k => j = i
    PROVE  KeysAreHeldOnce'
  BY DEF KeysAreHeldOnce, Present, Rows

LEMMA InsertKeeps ==
    ASSUME IInv, NEW c \in Client, UNCHANGED scope, Insert(c)
    PROVE  IInv'
<1> DEFINE q == request[c]
<1>1. CASE UNCHANGED tableVars /\ \E status \in {500, 409} : Answer(c, status)
  BY <1>1, AnswerWithoutWriting
<1>2. CASE /\ Holders(TableOfCall[q.call], StoredKey(q)) = {}
           /\ row' = [row EXCEPT ![q.id] = [state |-> "live", key |-> StoredKey(q), parent |-> q.parent]]
           /\ Answer(c, 201)
           /\ UNCHANGED <<uses, open>>
  <2>1. q.call \in Creates
    BY DEF Insert
  <2>2. q.id \in Id /\ TableOf[q.id] = TableOfCall[q.call]
    BY <2>1, WritesItsTable DEF IInv
  <2>3. StoredKey(q) \in Spelling(Key) \cup {NoKey}
    BY <2>1, StoredKeyType DEF IInv
  <2>4. q.parent \in Id \cup {NoId}
    BY <2>1, RequestType DEF IInv, Creates
  <2>5. [state |-> "live", key |-> StoredKey(q), parent |-> q.parent] \in Row
    BY <2>3, <2>4 DEF Row
  <2>6. row' \in [Id -> Row] /\ row'[q.id].key = StoredKey(q) /\ row'[q.id].state = "live"
        /\ \A j \in Id : j # q.id => row'[j] = row[j]
    BY <1>2, <2>2, <2>5 DEF IInv, TypeOK
  <2>7. KeysAreHeldOnce'
    <3>1. StoredKey(q) = NoKey \/ \A j \in Rows(TableOf[q.id]) : row[j].key # StoredKey(q)
      BY <1>2, <2>2 DEF Holders
    <3> QED
      BY <2>2, <2>6, <3>1, KeyGiven DEF IInv
  <2>8. \A i \in Id : Present(i) => Present(i)'
    BY <2>2, <2>6 DEF Present
  <2>9. uses' \subseteq Order \X Id /\ open' \subseteq Order
    BY <1>2 DEF IInv, TypeOK
  <2>10. TypeOK' /\ NamesItsTable' /\ LeavingIsThere'
    BY <1>2, <2>6, <2>8, <2>9, AnswerKeeps DEF IInv
  <2> QED
    BY <2>7, <2>10 DEF IInv
<1> QED
  BY <1>1, <1>2 DEF Insert, Duplicate

\* What an update writes: a row that is there stays, with a key and a parent.
LEMMA WrittenRow ==
    ASSUME IInv, NEW c \in Client, request[c].call \in Updates, Present(request[c].id)
    PROVE  LET q == request[c]
               w == Written(q, row[q.id]) IN
           /\ w \in Row
           /\ w.state \in {"live", "inactive"}
           /\ w.key = IF q.key = NoKey THEN row[q.id].key ELSE q.key
           /\ w.parent = IF q.parent = NoId THEN row[q.id].parent ELSE q.parent
<1> DEFINE q == request[c]
<1>1. row[q.id] \in Row /\ row[q.id].state \in {"live", "inactive"}
  BY DEF IInv, TypeOK, Present
<1>2. q.key \in Spelling(Key) \cup {NoKey} /\ q.parent \in Id \cup {NoId}
  BY RequestType DEF IInv, Updates
<1> HIDE DEF q
<1> QED
  BY <1>1, <1>2 DEF Written, Row, q

LEMMA UpdateKeeps ==
    ASSUME IInv, NEW c \in Client, UNCHANGED scope, Update(c)
    PROVE  IInv'
<1> DEFINE q == request[c]
           w == Written(q, row[q.id])
<1>1. CASE UNCHANGED tableVars /\ \E status \in {500, 409} : Answer(c, status)
  BY <1>1, AnswerWithoutWriting
<1>2. CASE /\ Present(q.id)
           /\ Holders(TableOfCall[q.call], q.key) \subseteq {q.id}
           /\ row' = [row EXCEPT ![q.id] = w]
           /\ Answer(c, 200)
           /\ UNCHANGED <<uses, open>>
  <2>1. q.call \in Updates
    BY DEF Update
  <2>2. q.id \in Id /\ TableOf[q.id] = TableOfCall[q.call]
    BY <2>1, WritesItsTable DEF IInv
  <2>3. /\ w \in Row /\ w.state \in {"live", "inactive"}
        /\ w.key = IF q.key = NoKey THEN row[q.id].key ELSE q.key
    BY <1>2, <2>1, WrittenRow
  <2>4. w.key = NoKey \/ \A j \in Rows(TableOf[q.id]) : row[j].key = w.key => j = q.id
    <3>1. CASE q.key = NoKey
      BY <1>2, <2>2, <2>3, <3>1 DEF IInv, KeysAreHeldOnce, Rows
    <3>2. CASE q.key # NoKey
      BY <1>2, <2>2, <2>3, <3>2 DEF Holders
    <3> QED
      BY <3>1, <3>2
  <2> HIDE DEF w
  <2>5. /\ row' \in [Id -> Row]
        /\ row'[q.id] = w
        /\ \A j \in Id : j # q.id => row'[j] = row[j]
    BY <1>2, <2>2, <2>3 DEF IInv, TypeOK
  <2>6. uses' \subseteq Order \X Id /\ open' \subseteq Order
    BY <1>2 DEF IInv, TypeOK
  <2>7. Answer(c, 200)
    BY <1>2
  <2> HIDE DEF q
  <2>8. KeysAreHeldOnce'
    BY <2>2, <2>4, <2>5, KeyGiven DEF IInv
  <2>9. \A i \in Id : Present(i) => Present(i)'
    BY <2>2, <2>3, <2>5 DEF Present
  <2>10. TypeOK' /\ NamesItsTable' /\ LeavingIsThere'
    BY <2>5, <2>6, <2>7, <2>9, AnswerKeeps DEF IInv
  <2> QED
    BY <2>8, <2>10 DEF IInv
<1> QED
  BY <1>1, <1>2 DEF Update, Duplicate

LEMMA DeactivateKeeps ==
    ASSUME IInv, NEW c \in Client, UNCHANGED scope, Deactivate(c)
    PROVE  IInv'
<1> DEFINE i == request[c].id
<1>1. request[c].call = "deleteCustomer" /\ Present(i) /\ i \in Id
  BY DEF IInv, LeavingIsThere, Deactivate, At, Present
<1>2. row[i] \in Row
  BY <1>1 DEF IInv, TypeOK
<1>3. /\ [row[i] EXCEPT !.state = "inactive"] \in Row
      /\ [row[i] EXCEPT !.state = "inactive"].state = "inactive"
      /\ [row[i] EXCEPT !.state = "inactive"].key = row[i].key
  BY <1>2 DEF Row
<1>4. /\ row' \in [Id -> Row]
      /\ row'[i] = [row[i] EXCEPT !.state = "inactive"]
      /\ \A j \in Id : j # i => row'[j] = row[j]
  BY <1>1, <1>3 DEF IInv, TypeOK, Deactivate
<1>5. /\ \A j \in Id : row'[j].key = row[j].key
      /\ \A j \in Id : Present(j)' <=> Present(j)
  BY <1>1, <1>3, <1>4 DEF Present
<1>6. KeysAreHeldOnce'
  BY <1>5 DEF IInv, KeysAreHeldOnce
<1>7. uses' \subseteq Order \X Id /\ open' \subseteq Order /\ Answer(c, 204)
  BY DEF IInv, TypeOK, Deactivate
<1>8. TypeOK' /\ NamesItsTable' /\ LeavingIsThere'
  BY <1>4, <1>5, <1>7, AnswerKeeps DEF IInv
<1> QED
  BY <1>6, <1>8 DEF IInv

LEMMA DeleteKeeps ==
    ASSUME IInv, NEW c \in Client, UNCHANGED scope, Delete(c)
    PROVE  IInv'
<1> DEFINE i == request[c].id
<1>1. CASE UNCHANGED tableVars /\ Answer(c, 500)
  BY <1>1, AnswerWithoutWriting
<1>2. CASE row' = [row EXCEPT ![i].state = "gone"] /\ Answer(c, 204) /\ UNCHANGED <<uses, open>>
  <2>1. request[c].call \in Deletes \ {"deleteCustomer"}
    BY DEF Delete
  <2>2. i \in Id /\ TableOf[i] # "customers"
    BY <2>1, WritesItsTable, TablesOfDeletes DEF IInv
  <2>3. row[i] \in Row
    BY <2>2 DEF IInv, TypeOK
  <2>4. /\ [row[i] EXCEPT !.state = "gone"] \in Row
        /\ [row[i] EXCEPT !.state = "gone"].state = "gone"
    BY <2>3 DEF Row
  <2>5. /\ row' \in [Id -> Row]
        /\ row'[i] = [row[i] EXCEPT !.state = "gone"]
        /\ \A j \in Id : j # i => row'[j] = row[j]
    BY <1>2, <2>2, <2>4 DEF IInv, TypeOK
  <2>6. row'[i].state = "gone" /\ \A j \in Id : Present(j)' => j # i /\ Present(j)
    <3>1. row'[i].state = "gone"
      BY <2>4, <2>5
    <3> HIDE DEF i
    <3> QED
      BY <2>5, <3>1 DEF Present
  <2>7. KeysAreHeldOnce'
    <3> HIDE DEF i
    <3> QED
      BY <2>5, <2>6 DEF IInv, KeysAreHeldOnce
  <2>8. uses' \subseteq Order \X Id /\ open' \subseteq Order
    BY <1>2 DEF IInv, TypeOK
  <2>9. \A j \in Id : TableOf[j] = "customers" /\ Present(j) => Present(j)'
    <3> HIDE DEF i
    <3> QED
      BY <2>2, <2>5 DEF Present
  <2>10. TypeOK' /\ NamesItsTable' /\ LeavingIsThere'
    BY <1>2, <2>5, <2>8, <2>9, AnswerKeeps DEF IInv
  <2> QED
    BY <2>7, <2>10 DEF IInv
<1> QED
  BY <1>1, <1>2 DEF Delete

LEMMA OpenOrderKeeps ==
    ASSUME IInv, NEW c \in Client, UNCHANGED scope, OpenOrder(c)
    PROVE  IInv'
<1> DEFINE named == request[c].uses
<1>1. CASE UNCHANGED tableVars /\ \E status \in {404, 400, 500} : Answer(c, status)
  BY <1>1, AnswerWithoutWriting
<1>2. CASE /\ \E o \in Order \ Opened : uses' = uses \cup {o} \X named /\ open' = open \cup {o}
           /\ Answer(c, 201)
           /\ UNCHANGED row
  <2>1. request[c].call # "none"
    BY DEF OpenOrder
  <2>2. named \subseteq Id
    BY <2>1, RequestType, ScopeType DEF IInv, Request
  <2>3. /\ row' \in [Id -> Row] /\ uses' \subseteq Order \X Id /\ open' \subseteq Order
        /\ \A i \in Id : Present(i) => Present(i)'
    BY <1>2, <2>2 DEF IInv, TypeOK, Present
  <2>4. TypeOK' /\ NamesItsTable' /\ LeavingIsThere'
    BY <1>2, <2>3, AnswerKeeps DEF IInv
  <2> QED
    BY <1>2, <2>4, KeysUntouched DEF IInv
<1> QED
  BY <1>1, <1>2 DEF OpenOrder

LEMMA SettleKeeps ==
    ASSUME IInv, NEW o \in Order, UNCHANGED scope, Settle(o)
    PROVE  IInv'
<1>1. TypeOK'
  BY DEF IInv, TypeOK, Settle
<1>2. NamesItsTable' /\ LeavingIsThere'
  BY DEF IInv, NamesItsTable, LeavingIsThere, Settle, At, Present
<1> QED
  BY <1>1, <1>2, KeysUntouched DEF IInv, Settle
-----------------------------------------------------------------------------
LEMMA InvInit == Init => IInv
<1> SUFFICES ASSUME Init PROVE IInv
  OBVIOUS
<1>1. [state |-> "unused", key |-> NoKey, parent |-> NoId] \in Row
  BY DEF Row
<1>2. TypeOK
  BY <1>1 DEF Init, TypeOK
<1>3. NamesItsTable /\ LeavingIsThere
  BY DEF Init, NamesItsTable, LeavingIsThere, NoRequest
<1>4. KeysAreHeldOnce
  BY DEF Init, KeysAreHeldOnce, Present
<1> QED
  BY <1>2, <1>3, <1>4 DEF IInv

LEMMA InvAlways == Spec => []IInv
<1>1. IInv /\ [Next /\ UNCHANGED scope]_<<vars, scope>> => IInv'
  <2> SUFFICES ASSUME IInv, [Next /\ UNCHANGED scope]_<<vars, scope>> PROVE IInv'
    OBVIOUS
  <2>1. CASE UNCHANGED <<vars, scope>>
    BY <2>1 DEF vars, tableVars, IInv, TypeOK, NamesItsTable, KeysAreHeldOnce, LeavingIsThere, At, Present
  <2>2. CASE Next /\ UNCHANGED scope
    BY <2>2, AskKeeps, QueryKeeps, ReadKeeps, InsertKeeps, UpdateKeeps, DeactivateKeeps,
       DeleteKeeps, OpenOrderKeeps, SettleKeeps DEF Next
  <2> QED
    BY <2>1, <2>2
<1> QED
  BY InvInit, <1>1, PTL DEF Spec

\* The tables, the requests and the answers keep their types, for any requests
\* under way at once: a request never writes to a row of another table.
THEOREM TypeCorrect == Spec => []TypeOK
<1>1. IInv => TypeOK
  BY DEF IInv
<1> QED
  BY <1>1, InvAlways, PTL

\* A document, a plate or an e-mail is held once, for any number of requests
\* whose lookups and writes interleave: the lookup before the write never
\* matters, the unique index does.
THEOREM KeysCorrect == Spec => []KeysAreHeldOnce
<1>1. IInv => KeysAreHeldOnce
  BY DEF IInv
<1> QED
  BY <1>1, InvAlways, PTL
-----------------------------------------------------------------------------
(* Requests under way: where each of them is, and what the others leave    *)
(* standing while it is there.                                             *)

Reads == {"getCustomer", "getVehicle", "getService", "getItem"}

\* The query a request waits for is one of its own.
StepFits ==
    \A c \in Client :
        LET call == request[c].call IN
        /\ At(c, "validate") => request[c].body = "malformed" \/ call \in Validating
        /\ At(c, "lookup") => call \in {"createCustomer", "createVehicle", "register", "updateVehicle"}
        /\ At(c, "check") => call = "deleteItem"
        /\ At(c, "resolve") => call = "createOrder"
        /\ At(c, "find") => call \in Updates \cup Deletes
        /\ At(c, "read") => call \in Reads \cup ByKey
        /\ At(c, "write") => call \in Creates \cup Updates \cup Deletes \cup {"createOrder"}

\* A customer that was found is not lost before it is written, and a part that
\* was seen was inserted, even if it is gone by now.
SeenBefore ==
    \A c \in Client :
        /\ request[c].call = "updateCustomer" /\ At(c, "write") => Present(request[c].id)
        /\ request[c].call = "deleteItem" /\ (At(c, "find") \/ At(c, "write")) =>
              row[request[c].id].state # "unused"

\* The row of a request that inserts is not there yet, and is of no other one.
InsertsAreNew ==
    \A c \in Client : request[c].call \in Creates =>
        /\ row[request[c].id].state = "unused"
        /\ \A d \in Client : d # c /\ request[d].call \in Creates => request[d].id # request[c].id

\* The foreign keys: what is referred to is there.
ReferencesHold == \A i \in Id : Referenced(i) => Present(i)

AInv == IInv /\ StepFits /\ SeenBefore /\ InsertsAreNew /\ ReferencesHold

\* What Relevant says of each kind of call.
LEMMA RequestShape ==
    ASSUME IInv, NEW c \in Client, request[c].call # "none"
    PROVE  LET q == request[c] IN
           /\ q.call \in Calls /\ q.uses \subseteq Id
           /\ q.parent \in Id \cup {NoId}
           /\ q.call \in ByKey \cup {"createOrder"} => q.id = NoId
           /\ q.call \notin ByKey \cup {"createOrder"} => q.id \in Id /\ TableOf[q.id] = TableOfCall[q.call]
           /\ q.call # "createOrder" => q.uses = {}
           /\ q.call \notin {"createVehicle", "updateVehicle"} => q.parent = NoId
           /\ q.call \notin {"createCustomer", "createVehicle", "register", "updateVehicle"} \cup ByKey =>
                 q.key = NoKey
           /\ q.body = "low" => q.call = "updateItem"
<1> DEFINE q == request[c]
<1>1. q \in Request(scope) /\ Relevant(scope.ids, q)
  BY RequestType DEF IInv
<1>2. scope \in [ids : SUBSET Id, keys : SUBSET Key, calls : SUBSET Calls, bodies : SUBSET Body]
  BY CatalogueAssumption DEF IInv, TypeOK
<1>3. q.call \in Calls /\ q.uses \subseteq Id /\ q.parent \in Id \cup {NoId}
  BY <1>1, <1>2 DEF Request
<1>4. q.call \in ByKey \cup {"createOrder"} => q.id = NoId
  BY <1>1 DEF Relevant
<1>5. q.call \notin ByKey \cup {"createOrder"} => q.id \in Id /\ TableOf[q.id] = TableOfCall[q.call]
  BY <1>1 DEF Relevant
<1>6. q.call # "createOrder" => q.uses = {}
  BY <1>1 DEF Relevant
<1>7. q.call \notin {"createVehicle", "updateVehicle"} => q.parent = NoId
  BY <1>1 DEF Relevant
<1>8. q.call \notin {"createCustomer", "createVehicle", "register", "updateVehicle"} \cup ByKey => q.key = NoKey
  BY <1>1 DEF Relevant
<1>9. q.body = "low" => q.call = "updateItem"
  BY <1>1 DEF Relevant, Suits
<1> QED
  BY <1>3, <1>4, <1>5, <1>6, <1>7, <1>8, <1>9

LEMMA StateType ==
    ASSUME IInv, NEW i \in Id
    PROVE  /\ row[i].state \in {"unused", "live", "inactive", "gone"}
           /\ Present(i) => row[i].state \in {"live", "inactive"}
  BY DEF IInv, TypeOK, Row, Present

\* An answer, with whatever is written along with it.
LEMMA AnswerLeavesOthers ==
    ASSUME AInv, NEW c \in Client, NEW status, Answer(c, status),
           row' \in [Id -> Row],
           \A i \in Id : TableOf[i] = "customers" /\ Present(i) => Present(i)',
           \A i \in Id : row[i].state # "unused" => row'[i].state # "unused",
           \A i \in Id : row[i].state = "unused" /\ row'[i].state # "unused" =>
               request[c].call \in Creates /\ request[c].id = i
    PROVE  StepFits' /\ SeenBefore' /\ InsertsAreNew'
<1>1. /\ request'[c] = NoRequest /\ step'[c] = "idle"
      /\ \A d \in Client : d # c => request'[d] = request[d] /\ step'[d] = step[d]
  BY DEF AInv, IInv, TypeOK, Answer
<1>2. request'[c].call = "none"
  BY <1>1 DEF NoRequest
<1>3. StepFits'
  BY <1>1 DEF AInv, StepFits, At
<1>4. SeenBefore'
  <2>1. ASSUME NEW d \in Client, request'[d].call = "updateCustomer", At(d, "write")'
        PROVE  Present(request[d].id)' /\ request'[d].id = request[d].id
    <3>1. d # c /\ request'[d] = request[d] /\ At(d, "write") /\ request[d].call = "updateCustomer"
      BY <1>1, <2>1 DEF At
    <3>2. Present(request[d].id) /\ request[d].id \in Id
      BY <3>1 DEF AInv, SeenBefore, Present
    <3>3. TableOf[request[d].id] = "customers"
      BY <3>1, RequestShape, TablesOfUpdates DEF AInv, ByKey
    <3> QED
      BY <3>1, <3>2, <3>3 DEF Present
  <2>2. ASSUME NEW d \in Client, request'[d].call = "deleteItem", At(d, "find")' \/ At(d, "write")'
        PROVE  row'[request'[d].id].state # "unused"
    <3>1. d # c /\ request'[d] = request[d] /\ (At(d, "find") \/ At(d, "write")) /\ request[d].call = "deleteItem"
      BY <1>1, <2>2 DEF At
    <3>2. request[d].id \in Id
      BY <3>1, RequestShape DEF AInv, ByKey
    <3> QED
      BY <3>1, <3>2 DEF AInv, SeenBefore
  <2> QED
    BY <2>1, <2>2 DEF SeenBefore, Present
<1>5. InsertsAreNew'
  <2>1. ASSUME NEW d \in Client, request'[d].call \in Creates
        PROVE  row'[request'[d].id].state = "unused"
    <3>1. d # c /\ request'[d] = request[d] /\ request[d].call \in Creates
      BY <1>1, <1>2, <2>1 DEF Creates
    <3>2. row[request[d].id].state = "unused" /\ request[d].id \in Id
      BY <3>1, RequestShape DEF AInv, InsertsAreNew, Creates, ByKey
    <3>3. request[c].call \in Creates => request[c].id # request[d].id
      BY <3>1 DEF AInv, InsertsAreNew
    <3> QED
      BY <3>1, <3>2, <3>3
  <2>2. ASSUME NEW d \in Client, NEW e \in Client, request'[d].call \in Creates,
               e # d, request'[e].call \in Creates
        PROVE  request'[e].id # request'[d].id
    BY <1>1, <1>2, <2>2 DEF AInv, InsertsAreNew, Creates
  <2> QED
    BY <2>1, <2>2 DEF InsertsAreNew
<1> QED
  BY <1>3, <1>4, <1>5

LEMMA ReferencesUntouched ==
    ASSUME ReferencesHold, UNCHANGED <<row, uses>>
    PROVE  ReferencesHold'
  BY DEF ReferencesHold, Referenced, Rows, Present

\* An answer that leaves the tables alone.
LEMMA AnswerPends ==
    ASSUME AInv, NEW c \in Client, NEW status, Answer(c, status), UNCHANGED tableVars
    PROVE  StepFits' /\ SeenBefore' /\ InsertsAreNew' /\ ReferencesHold'
<1>1. /\ row' \in [Id -> Row] /\ UNCHANGED <<row, uses>>
      /\ \A i \in Id : Present(i) => Present(i)'
  BY DEF AInv, IInv, TypeOK, tableVars, Present
<1>2. StepFits' /\ SeenBefore' /\ InsertsAreNew'
  BY <1>1, AnswerLeavesOthers
<1> QED
  BY <1>1, <1>2, ReferencesUntouched DEF AInv

LEMMA GoToPends ==
    ASSUME AInv, NEW c \in Client, NEW s \in {"find", "write"}, GoTo(c, s), UNCHANGED tableVars,
           s = "find" => request[c].call \in Updates \cup Deletes,
           s = "write" => request[c].call \in Creates \cup Updates \cup Deletes \cup {"createOrder"},
           s = "write" /\ request[c].call = "updateCustomer" => Present(request[c].id),
           request[c].call = "deleteItem" => row[request[c].id].state # "unused"
    PROVE  StepFits' /\ SeenBefore' /\ InsertsAreNew' /\ ReferencesHold'
<1>1. /\ step'[c] = s /\ request' = request /\ row' = row /\ uses' = uses
      /\ \A d \in Client : d # c => step'[d] = step[d]
  BY DEF AInv, IInv, TypeOK, GoTo, tableVars
<1>2. StepFits'
  BY <1>1 DEF AInv, StepFits, At
<1>3. SeenBefore'
  BY <1>1 DEF AInv, SeenBefore, At, Present
<1>4. InsertsAreNew'
  BY <1>1 DEF AInv, InsertsAreNew
<1> QED
  BY <1>1, <1>2, <1>3, <1>4, ReferencesUntouched DEF AInv

LEMMA FirstStepFits ==
    ASSUME NEW q, q.call \in Calls
    PROVE  /\ FirstStep(q) = "validate" => q.body = "malformed" \/ q.call \in Validating
           /\ FirstStep(q) = "lookup" => q.call \in {"createCustomer", "createVehicle", "register", "updateVehicle"}
           /\ FirstStep(q) = "check" => q.call = "deleteItem"
           /\ FirstStep(q) = "resolve" => q.call = "createOrder"
           /\ FirstStep(q) = "find" => q.call \in (Updates \cup Deletes) \ {"deleteItem"}
           /\ FirstStep(q) = "read" => q.call \in Reads \cup ByKey
           /\ FirstStep(q) = "write" => q.call \in {"createItem", "createService"}
<1>1. q.call \in Creates \cup Updates \cup Deletes \cup Reads \cup ByKey \cup {"createOrder"}
  BY DEF Calls, CustomerCalls, VehicleCalls, ServiceCalls, ItemCalls, AuthCalls, Creates, Updates, Deletes,
         Reads, ByKey
<1> DEFINE early == q.body = "malformed" \/ (q.body = "refused" /\ q.call \in Validating)
<1>2. CASE early
  BY <1>2 DEF FirstStep
<1>3. CASE ~ early /\ q.call = "createOrder"
  BY <1>3 DEF FirstStep, LooksUp, ByKey
<1>4. CASE ~ early /\ LooksUp(q)
  <2>1. q.call \in {"createCustomer", "createVehicle", "register", "updateVehicle"}
    BY <1>4 DEF LooksUp
  <2>2. FirstStep(q) = "lookup"
    BY <1>4, <2>1 DEF FirstStep, ByKey
  <2> QED
    BY <2>1, <2>2
<1>5. CASE ~ early /\ ~ LooksUp(q) /\ q.call # "createOrder"
  <2>1. CASE q.call = "deleteItem"
    BY <1>5, <2>1 DEF FirstStep, ByKey
  <2>2. CASE q.call \in {"createItem", "createService"}
    BY <1>5, <2>2 DEF FirstStep, ByKey
  <2>3. CASE q.call \in Reads \cup ByKey
    BY <1>5, <2>3 DEF FirstStep, Reads, ByKey
  <2>4. CASE q.call \notin {"deleteItem", "createItem", "createService"} \cup Reads \cup ByKey
    <3>1. FirstStep(q) = "find"
      BY <1>5, <2>4 DEF FirstStep, Reads
    <3>2. q.call \in Updates \cup Deletes
      BY <1>1, <1>5, <2>4 DEF LooksUp, Creates
    <3> QED
      BY <2>4, <3>1, <3>2
  <2> QED
    BY <2>1, <2>2, <2>3, <2>4
<1> QED
  BY <1>2, <1>3, <1>4, <1>5

LEMMA AskPends ==
    ASSUME AInv, NEW c \in Client, NEW r \in Requests, r[1] = scope, Ask(c, r[2]), UNCHANGED scope
    PROVE  StepFits' /\ SeenBefore' /\ InsertsAreNew' /\ ReferencesHold'
<1> DEFINE q == r[2]
<1>1. /\ q \in Request(scope)
      /\ scope \in [ids : SUBSET Id, keys : SUBSET Key, calls : SUBSET Calls, bodies : SUBSET Body]
  BY CatalogueAssumption DEF Requests, AInv, IInv, TypeOK
<1>2. q.call \in Calls
  BY <1>1 DEF Request
<1>3. /\ request'[c] = q /\ step'[c] = FirstStep(q) /\ row' = row /\ uses' = uses
      /\ \A d \in Client : d # c => request'[d] = request[d] /\ step'[d] = step[d]
  BY DEF AInv, IInv, TypeOK, Ask, tableVars
<1>4. q.call \in Creates =>
          row[q.id].state = "unused" /\ \A d \in Client : request[d].call \in Creates => request[d].id # q.id
  BY DEF Ask, Fresh
<1> HIDE DEF q
<1>5. StepFits'
  <2> SUFFICES ASSUME NEW d \in Client
               PROVE  LET call == request'[d].call IN
                      /\ At(d, "validate")' => request'[d].body = "malformed" \/ call \in Validating
                      /\ At(d, "lookup")' => call \in {"createCustomer", "createVehicle", "register", "updateVehicle"}
                      /\ At(d, "check")' => call = "deleteItem"
                      /\ At(d, "resolve")' => call = "createOrder"
                      /\ At(d, "find")' => call \in Updates \cup Deletes
                      /\ At(d, "read")' => call \in Reads \cup ByKey
                      /\ At(d, "write")' => call \in Creates \cup Updates \cup Deletes \cup {"createOrder"}
    BY DEF StepFits, At
  <2>1. CASE d = c
    BY <1>2, <1>3, <2>1, FirstStepFits DEF At, Creates
  <2>2. CASE d # c
    BY <1>3, <2>2 DEF AInv, StepFits, At
  <2> QED
    BY <2>1, <2>2
<1>6. SeenBefore'
  <2>1. q.call = "updateCustomer" => FirstStep(q) # "write"
    BY <1>2, FirstStepFits
  <2>2. q.call = "deleteItem" => FirstStep(q) # "write" /\ FirstStep(q) # "find"
    BY <1>2, FirstStepFits
  <2> QED
    BY <1>3, <2>1, <2>2 DEF AInv, SeenBefore, At, Present
<1>7. InsertsAreNew'
  BY <1>3, <1>4 DEF AInv, InsertsAreNew
<1> QED
  BY <1>3, <1>5, <1>6, <1>7, ReferencesUntouched DEF AInv

-----------------------------------------------------------------------------
(* The documentation of the routes.                                        *)

LEMMA RoutesOfRouters ==
    /\ DOMAIN CustomerRoutes = {"listCustomers", "createCustomer", "getByTaxId", "getCustomer",
                                "updateCustomer", "deleteCustomer"}
    /\ DOMAIN VehicleRoutes = {"listVehicles", "createVehicle", "getVehicle", "updateVehicle", "deleteVehicle"}
    /\ DOMAIN ItemRoutes = {"listItems", "getItem", "createItem", "updateItem", "deleteItem"}
    /\ DOMAIN ServiceRoutes = {"listServices", "listAvgTime", "getService", "createService", "updateService",
                               "deleteService"}
    /\ DOMAIN AuthRoutes = {"lookupCustomer", "login", "register"}
    /\ DOMAIN OrderReads = {"getStatus", "getHistory", "deliver", "listOrders"}
    /\ DOMAIN OrderOpening = {"createOrder", "getOrder"}
    /\ DOMAIN OrderEdits = {"addService", "removeService", "addItem", "removeItem"}
  BY DEF CustomerRoutes, VehicleRoutes, ItemRoutes, ServiceRoutes, AuthRoutes, OrderReads, OrderOpening,
         OrderEdits

\* The routers have no route in common, so each route is the one its router has.
LEMMA RouterOfRoute ==
    /\ \A route \in DOMAIN CustomerRoutes : API[route] = CustomerRoutes[route]
    /\ \A route \in DOMAIN VehicleRoutes : API[route] = VehicleRoutes[route]
    /\ \A route \in DOMAIN ItemRoutes : API[route] = ItemRoutes[route]
    /\ \A route \in DOMAIN ServiceRoutes : API[route] = ServiceRoutes[route]
    /\ \A route \in DOMAIN AuthRoutes : API[route] = AuthRoutes[route]
    /\ \A route \in DOMAIN OrderReads : API[route] = OrderReads[route]
    /\ \A route \in DOMAIN OrderOpening : API[route] = OrderOpening[route]
    /\ \A route \in DOMAIN OrderEdits : API[route] = OrderEdits[route]
<1>1. \A route \in DOMAIN CustomerRoutes : API[route] = CustomerRoutes[route]
  BY RoutesOfRouters DEF API
<1>2. \A route \in DOMAIN VehicleRoutes : API[route] = VehicleRoutes[route]
  BY RoutesOfRouters DEF API
<1>3. \A route \in DOMAIN ItemRoutes : API[route] = ItemRoutes[route]
  BY RoutesOfRouters DEF API
<1>4. \A route \in DOMAIN ServiceRoutes : API[route] = ServiceRoutes[route]
  BY RoutesOfRouters DEF API
<1>5. \A route \in DOMAIN AuthRoutes : API[route] = AuthRoutes[route]
  BY RoutesOfRouters DEF API
<1>6. \A route \in DOMAIN OrderReads : API[route] = OrderReads[route]
  BY RoutesOfRouters DEF API
<1>7. \A route \in DOMAIN OrderOpening : API[route] = OrderOpening[route]
  BY RoutesOfRouters DEF API
<1>8. \A route \in DOMAIN OrderEdits : API[route] = OrderEdits[route]
  BY RoutesOfRouters DEF API
<1> QED
  BY <1>1, <1>2, <1>3, <1>4, <1>5, <1>6, <1>7, <1>8

LEMMA DocumentedAnswers ==
    /\ API["createCustomer"].documented = {201, 400, 409}
    /\ API["getByTaxId"].documented = {200, 404}
    /\ API["getCustomer"].documented = {200, 404}
    /\ API["updateCustomer"].documented = {200, 404}
    /\ API["deleteCustomer"].documented = {204, 404}
    /\ API["createVehicle"].documented = {201, 400, 409}
    /\ API["getVehicle"].documented = {200, 404}
    /\ API["updateVehicle"].documented = {200, 400, 404, 409}
    /\ API["deleteVehicle"].documented = {204, 404}
    /\ API["getItem"].documented = {200, 403, 404}
    /\ API["createItem"].documented = {201, 400}
    /\ API["updateItem"].documented = {200, 400, 404}
    /\ API["deleteItem"].documented = {204, 400, 404}
    /\ API["getService"].documented = {200, 403, 404}
    /\ API["createService"].documented = {201, 400}
    /\ API["updateService"].documented = {200, 400, 404}
    /\ API["deleteService"].documented = {204, 404}
    /\ API["login"].documented = {200, 401}
    /\ API["register"].documented = {201, 409}
    /\ API["createOrder"].documented = {201, 400, 403, 404}
<1>1. /\ API["createCustomer"] = CustomerRoutes["createCustomer"]
      /\ API["getByTaxId"] = CustomerRoutes["getByTaxId"]
      /\ API["getCustomer"] = CustomerRoutes["getCustomer"]
      /\ API["updateCustomer"] = CustomerRoutes["updateCustomer"]
      /\ API["deleteCustomer"] = CustomerRoutes["deleteCustomer"]
  BY RoutesOfRouters, RouterOfRoute
<1>2. /\ API["createVehicle"] = VehicleRoutes["createVehicle"]
      /\ API["getVehicle"] = VehicleRoutes["getVehicle"]
      /\ API["updateVehicle"] = VehicleRoutes["updateVehicle"]
      /\ API["deleteVehicle"] = VehicleRoutes["deleteVehicle"]
  BY RoutesOfRouters, RouterOfRoute
<1>3. /\ API["getItem"] = ItemRoutes["getItem"]
      /\ API["createItem"] = ItemRoutes["createItem"]
      /\ API["updateItem"] = ItemRoutes["updateItem"]
      /\ API["deleteItem"] = ItemRoutes["deleteItem"]
  BY RoutesOfRouters, RouterOfRoute
<1>4. /\ API["getService"] = ServiceRoutes["getService"]
      /\ API["createService"] = ServiceRoutes["createService"]
      /\ API["updateService"] = ServiceRoutes["updateService"]
      /\ API["deleteService"] = ServiceRoutes["deleteService"]
  BY RoutesOfRouters, RouterOfRoute
<1>5. /\ API["login"] = AuthRoutes["login"]
      /\ API["register"] = AuthRoutes["register"]
      /\ API["createOrder"] = OrderOpening["createOrder"]
  BY RoutesOfRouters, RouterOfRoute
<1>6. /\ API["createCustomer"].documented = {201, 400, 409}
      /\ API["getByTaxId"].documented = {200, 404}
      /\ API["getCustomer"].documented = {200, 404}
      /\ API["updateCustomer"].documented = {200, 404}
      /\ API["deleteCustomer"].documented = {204, 404}
  BY <1>1 DEF CustomerRoutes, Route
<1>7. /\ API["createVehicle"].documented = {201, 400, 409}
      /\ API["getVehicle"].documented = {200, 404}
      /\ API["updateVehicle"].documented = {200, 400, 404, 409}
      /\ API["deleteVehicle"].documented = {204, 404}
  BY <1>2 DEF VehicleRoutes, Route
<1>8. /\ API["getItem"].documented = {200, 403, 404}
      /\ API["createItem"].documented = {201, 400}
      /\ API["updateItem"].documented = {200, 400, 404}
      /\ API["deleteItem"].documented = {204, 400, 404}
  BY <1>3 DEF ItemRoutes, Route
<1>9. /\ API["getService"].documented = {200, 403, 404}
      /\ API["createService"].documented = {201, 400}
      /\ API["updateService"].documented = {200, 400, 404}
      /\ API["deleteService"].documented = {204, 404}
  BY <1>4 DEF ServiceRoutes, Route
<1>10. /\ API["login"].documented = {200, 401}
       /\ API["register"].documented = {201, 409}
       /\ API["createOrder"].documented = {201, 400, 403, 404}
  BY <1>5 DEF AuthRoutes, OrderOpening, Route
<1> QED
  BY <1>6, <1>7, <1>8, <1>9, <1>10

\* By status codes.
LEMMA Documentation ==
    ASSUME NEW q
    PROVE  /\ q.call \in Updates \cup Reads \cup {"getByTaxId", "login"} => IsDocumented(q, 200)
           /\ q.call \in Creates \cup {"createOrder"} => IsDocumented(q, 201)
           /\ q.call \in Deletes => IsDocumented(q, 204)
           /\ q.call \in Validating \cup {"deleteItem", "createOrder"} => IsDocumented(q, 400)
           /\ q.call = "login" => IsDocumented(q, 401)
           /\ q.call \in Updates \cup Deletes \cup Reads \cup {"getByTaxId", "createOrder"} =>
                 IsDocumented(q, 404)
           /\ q.call \in {"createCustomer", "createVehicle", "register", "updateVehicle"} =>
                 IsDocumented(q, 409)
           /\ q.call = "lookupCustomer" => \A status : IsDocumented(q, status)
<1>1. q.call \in Updates \cup Reads \cup {"getByTaxId", "login"} => IsDocumented(q, 200)
  BY DocumentedAnswers DEF IsDocumented, Updates, Reads
<1>2. q.call \in Creates \cup {"createOrder"} => IsDocumented(q, 201)
  BY DocumentedAnswers DEF IsDocumented, Creates
<1>3. q.call \in Deletes => IsDocumented(q, 204)
  BY DocumentedAnswers DEF IsDocumented, Deletes
<1>4. q.call \in Validating \cup {"deleteItem", "createOrder"} => IsDocumented(q, 400)
  BY DocumentedAnswers DEF IsDocumented, Validating
<1>5. q.call = "login" => IsDocumented(q, 401)
  BY DocumentedAnswers DEF IsDocumented
<1>6. q.call \in Updates \cup Deletes \cup Reads \cup {"getByTaxId", "createOrder"} => IsDocumented(q, 404)
  BY DocumentedAnswers DEF IsDocumented, Updates, Deletes, Reads
<1>7. q.call \in {"createCustomer", "createVehicle", "register", "updateVehicle"} => IsDocumented(q, 409)
  BY DocumentedAnswers DEF IsDocumented
<1>8. q.call = "lookupCustomer" => \A status : IsDocumented(q, status)
  BY DEF IsDocumented
<1> QED
  BY <1>1, <1>2, <1>3, <1>4, <1>5, <1>6, <1>7, <1>8

-----------------------------------------------------------------------------
(* The answers, one query at a time.                                       *)

\* A step of a request answers it with the truth, as documented, or goes on.
AnswersWell(c) ==
    \/ UNCHANGED answer
    \/ \E status :
          /\ Answer(c, status)
          /\ TellsTheTruth(request[c], status)
          /\ IsDocumented(request[c], status)

LEMMA NothingClaimed ==
    ASSUME NEW q, NEW status \in {400, 401}
    PROVE  TellsTheTruth(q, status)
  BY DEF TellsTheTruth

\* A read names no row, or one that is there.
LEMMA ReadThere ==
    ASSUME AInv, NEW c \in Client, request[c].call \in Reads \cup ByKey, UNCHANGED tableVars,
           request[c].id = NoId \/ Live(request[c].id)
    PROVE  TellsTheTruth(request[c], 200)
<1> DEFINE q == request[c]
<1>1. q.uses = {} /\ q.parent = NoId
  BY RequestShape DEF AInv, Reads, ByKey
<1>2. row' = row
  BY DEF tableVars
<1> QED
  BY <1>1, <1>2 DEF TellsTheTruth, Live

LEMMA NothingThere ==
    ASSUME NEW q, q.id # NoId => ~ Live(q.id)
    PROVE  TellsTheTruth(q, 404)
  BY DEF TellsTheTruth

\* On customers and users, only a body can be unanswerable.
LEMMA NoAnswer ==
    ASSUME NEW q, Unanswerable(q),
           q.body \in {"malformed", "unfit"} \/ q.call \notin CustomerCalls \cup AuthCalls
    PROVE  TellsTheTruth(q, 500) /\ IsDocumented(q, 500)
  BY DEF TellsTheTruth, IsDocumented

LEMMA RefuseWell ==
    ASSUME AInv, NEW c \in Client, Refuse(c)
    PROVE  AnswersWell(c) /\ StepFits' /\ SeenBefore' /\ InsertsAreNew' /\ ReferencesHold'
<1>1. Answer(c, 400) /\ UNCHANGED tableVars /\ request[c].call \in Validating
  BY DEF Refuse, AInv, StepFits
<1>2. TellsTheTruth(request[c], 400) /\ IsDocumented(request[c], 400)
  BY <1>1, NothingClaimed, Documentation
<1> QED
  BY <1>1, <1>2, AnswerPends DEF AnswersWell

LEMMA ThrowWell ==
    ASSUME AInv, NEW c \in Client, Throw(c)
    PROVE  AnswersWell(c) /\ StepFits' /\ SeenBefore' /\ InsertsAreNew' /\ ReferencesHold'
<1>1. Answer(c, 500) /\ UNCHANGED tableVars /\ request[c].body = "malformed"
  BY DEF Throw
<1>2. TellsTheTruth(request[c], 500) /\ IsDocumented(request[c], 500)
  BY <1>1, NoAnswer DEF Unanswerable
<1> QED
  BY <1>1, <1>2, AnswerPends DEF AnswersWell

LEMMA LookupWell ==
    ASSUME AInv, NEW c \in Client, Lookup(c)
    PROVE  AnswersWell(c) /\ StepFits' /\ SeenBefore' /\ InsertsAreNew' /\ ReferencesHold'
<1> DEFINE q == request[c]
<1>1. UNCHANGED tableVars /\ q.call \in {"createCustomer", "createVehicle", "register", "updateVehicle"}
  BY DEF Lookup, AInv, StepFits
<1>2. CASE Clashes(q)
  <2>1. Answer(c, 409)
    BY <1>2 DEF Lookup
  <2>2. TellsTheTruth(q, 409)
    BY <1>2 DEF Clashes, Found, TellsTheTruth
  <2>3. IsDocumented(q, 409)
    BY <1>1, Documentation
  <2> QED
    BY <1>1, <2>1, <2>2, <2>3, AnswerPends DEF AnswersWell
<1>3. CASE ~ Clashes(q) /\ q.call = "updateVehicle"
  <2>1. GoTo(c, "find")
    BY <1>3 DEF Lookup
  <2>2. q.call \in Updates
    BY <1>3 DEF Updates
  <2> QED
    BY <1>1, <1>3, <2>1, <2>2, GoToPends DEF AnswersWell, GoTo
<1>4. CASE ~ Clashes(q) /\ q.call # "updateVehicle"
  <2>1. GoTo(c, "write")
    BY <1>4 DEF Lookup
  <2>2. q.call \in Creates
    BY <1>1, <1>4 DEF Creates
  <2> QED
    BY <1>1, <1>4, <2>1, <2>2, GoToPends DEF AnswersWell, GoTo
<1> QED
  BY <1>2, <1>3, <1>4

LEMMA CheckWell ==
    ASSUME AInv, NEW c \in Client, Check(c)
    PROVE  AnswersWell(c) /\ StepFits' /\ SeenBefore' /\ InsertsAreNew' /\ ReferencesHold'
<1> DEFINE q == request[c]
<1>1. UNCHANGED tableVars /\ q.call = "deleteItem"
  BY DEF Check, AInv, StepFits
<1>2. q.call \in Deletes
  BY <1>1 DEF Deletes
<1>3. CASE ~ Live(q.id)
  <2>1. Answer(c, 404) /\ TellsTheTruth(q, 404) /\ IsDocumented(q, 404)
    BY <1>2, <1>3, NothingThere, Documentation DEF Check
  <2> QED
    BY <1>1, <2>1, AnswerPends DEF AnswersWell
<1>4. CASE Live(q.id) /\ Reserved(q.id)
  <2>1. Answer(c, 400) /\ TellsTheTruth(q, 400) /\ IsDocumented(q, 400)
    BY <1>1, <1>4, NothingClaimed, Documentation DEF Check
  <2> QED
    BY <1>1, <2>1, AnswerPends DEF AnswersWell
<1>5. CASE Live(q.id) /\ ~ Reserved(q.id)
  <2>1. GoTo(c, "find")
    BY <1>5 DEF Check
  <2>2. row[q.id].state # "unused"
    BY <1>5 DEF Live
  <2> QED
    BY <1>1, <1>2, <2>1, <2>2, GoToPends DEF AnswersWell, GoTo
<1> QED
  BY <1>3, <1>4, <1>5

\* A part that is gone although it was seen is deleted, as far as its caller
\* can tell: nothing refers to it any more.
LEMMA FindWell ==
    ASSUME AInv, NEW c \in Client, Find(c)
    PROVE  AnswersWell(c) /\ StepFits' /\ SeenBefore' /\ InsertsAreNew' /\ ReferencesHold'
<1> DEFINE q == request[c]
<1>1. UNCHANGED tableVars /\ q.call \in Updates \cup Deletes /\ At(c, "find")
  BY DEF Find, AInv, StepFits
<1>2. CASE Live(q.id)
  <2>1. GoTo(c, "write")
    BY <1>2 DEF Find
  <2>2. Present(q.id) /\ row[q.id].state # "unused"
    BY <1>2 DEF Live, Present
  <2> QED
    BY <1>1, <2>1, <2>2, GoToPends DEF AnswersWell, GoTo
<1>3. CASE ~ Live(q.id) /\ q.call = "deleteItem"
  <2>1. Answer(c, 204) /\ q.call \in Deletes
    BY <1>3 DEF Find, Deletes
  <2>2. q.id \in Id /\ row[q.id].state # "unused"
    BY <1>1, <1>3, RequestShape DEF AInv, SeenBefore, ByKey
  <2>3. \/ row[q.id].state = "inactive"
        \/ row[q.id].state = "gone" /\ ~ Present(q.id)
    BY <1>3, <2>2, StateType DEF AInv, Live, Present
  <2>4. ~ Present(q.id) => ~ Referenced(q.id)
    BY <2>2 DEF AInv, ReferencesHold
  <2>5. TellsTheTruth(q, 204)
    BY <1>1, <2>3, <2>4 DEF TellsTheTruth, tableVars
  <2> QED
    BY <1>1, <2>1, <2>5, Documentation, AnswerPends DEF AnswersWell
<1>4. CASE ~ Live(q.id) /\ q.call # "deleteItem"
  <2>1. Answer(c, 404) /\ TellsTheTruth(q, 404)
    BY <1>4, NothingThere DEF Find
  <2> QED
    BY <1>1, <2>1, Documentation, AnswerPends DEF AnswersWell
<1> QED
  BY <1>2, <1>3, <1>4

LEMMA ResolveWell ==
    ASSUME AInv, NEW c \in Client, Resolve(c)
    PROVE  AnswersWell(c) /\ StepFits' /\ SeenBefore' /\ InsertsAreNew' /\ ReferencesHold'
<1> DEFINE q == request[c]
<1>1. UNCHANGED tableVars /\ q.call = "createOrder"
  BY DEF Resolve, AInv, StepFits
<1>2. CASE GoTo(c, "write")
  BY <1>1, <1>2, GoToPends DEF AnswersWell, GoTo
<1>3. CASE Answer(c, 404)
  <2>1. q.id = NoId
    BY <1>1, RequestShape DEF AInv
  <2>2. TellsTheTruth(q, 404) /\ IsDocumented(q, 404)
    BY <1>1, <2>1, NothingThere, Documentation
  <2> QED
    BY <1>1, <1>3, <2>2, AnswerPends DEF AnswersWell
<1> QED
  BY <1>2, <1>3 DEF Resolve

LEMMA ReadWell ==
    ASSUME AInv, NEW c \in Client, GetById(c) \/ GetByTaxId(c) \/ LookupByCpf(c) \/ Login(c)
    PROVE  AnswersWell(c) /\ StepFits' /\ SeenBefore' /\ InsertsAreNew' /\ ReferencesHold'
<1> DEFINE q == request[c]
<1>1. UNCHANGED tableVars /\ q.call \in Reads \cup ByKey
  BY DEF GetById, GetByTaxId, LookupByCpf, Login, AInv, StepFits
<1>2. q.call \in ByKey => q.id = NoId
  <2>1. "none" \notin ByKey
    BY DEF ByKey
  <2> QED
    BY <2>1, RequestShape DEF AInv
<1>3. CASE GetById(c)
  <2>1. q.call \in Reads
    BY <1>1, <1>3 DEF GetById
  <2>2. CASE Live(q.id)
    <3>1. Answer(c, 200) /\ TellsTheTruth(q, 200) /\ IsDocumented(q, 200)
      BY <1>1, <1>3, <2>1, <2>2, ReadThere, Documentation DEF GetById
    <3> QED
      BY <1>1, <3>1, AnswerPends DEF AnswersWell
  <2>3. CASE ~ Live(q.id)
    <3>1. Answer(c, 404) /\ TellsTheTruth(q, 404) /\ IsDocumented(q, 404)
      BY <1>3, <2>1, <2>3, NothingThere, Documentation DEF GetById
    <3> QED
      BY <1>1, <3>1, AnswerPends DEF AnswersWell
  <2> QED
    BY <2>2, <2>3
<1>4. CASE GetByTaxId(c)
  <2>1. q.call = "getByTaxId" /\ q.id = NoId
    BY <1>2, <1>4 DEF GetByTaxId, ByKey
  <2>2. PICK status \in {200, 404} : Answer(c, status)
    BY <1>4 DEF GetByTaxId
  <2>3. TellsTheTruth(q, status) /\ IsDocumented(q, status)
    BY <1>1, <2>1, ReadThere, NothingThere, Documentation
  <2> QED
    BY <1>1, <2>2, <2>3, AnswerPends DEF AnswersWell
<1>5. CASE LookupByCpf(c)
  <2>1. q.call = "lookupCustomer" /\ q.id = NoId
    BY <1>2, <1>5 DEF LookupByCpf, ByKey
  <2>2. PICK status \in {200, 404} : Answer(c, status)
    BY <1>5 DEF LookupByCpf
  <2>3. TellsTheTruth(q, status) /\ IsDocumented(q, status)
    BY <1>1, <2>1, ReadThere, NothingThere, Documentation
  <2> QED
    BY <1>1, <2>2, <2>3, AnswerPends DEF AnswersWell
<1>6. CASE Login(c)
  <2>1. q.call = "login" /\ q.id = NoId
    BY <1>2, <1>6 DEF Login, ByKey
  <2>2. CASE Answer(c, 200)
    <3>1. TellsTheTruth(q, 200) /\ IsDocumented(q, 200)
      BY <1>1, <2>1, ReadThere, Documentation
    <3> QED
      BY <1>1, <2>2, <3>1, AnswerPends DEF AnswersWell
  <2>3. CASE Answer(c, 401)
    <3>1. TellsTheTruth(q, 401) /\ IsDocumented(q, 401)
      BY <2>1, NothingClaimed, Documentation
    <3> QED
      BY <1>1, <2>3, <3>1, AnswerPends DEF AnswersWell
  <2>4. CASE Answer(c, 500) /\ q.body = "unfit"
    <3>1. TellsTheTruth(q, 500) /\ IsDocumented(q, 500)
      BY <2>4, NoAnswer DEF Unanswerable, Unwritable
    <3> QED
      BY <1>1, <2>4, <3>1, AnswerPends DEF AnswersWell
  <2> QED
    BY <1>6, <2>2, <2>3, <2>4 DEF Login
<1> QED
  BY <1>3, <1>4, <1>5, <1>6

\* The unique index is the last word on a key, whatever the lookup has seen.
LEMMA InsertWell ==
    ASSUME AInv, NEW c \in Client, Insert(c)
    PROVE  AnswersWell(c) /\ StepFits' /\ SeenBefore' /\ InsertsAreNew' /\ ReferencesHold'
<1> DEFINE q == request[c]
           t == TableOfCall[q.call]
<1>1. q.call \in Creates /\ q.call # "none" /\ q.call \notin ByKey \cup {"createOrder"}
  BY DEF Insert, Creates, ByKey
<1>2. q.id \in Id /\ TableOf[q.id] = t /\ q.uses = {} /\ row[q.id].state = "unused"
  BY <1>1, RequestShape DEF AInv, InsertsAreNew
<1>3. /\ q.call \notin {"createVehicle", "updateVehicle"} => q.parent = NoId
      /\ q.parent \in Id \cup {NoId}
      /\ q.call \notin {"createCustomer", "createVehicle", "register"} => q.key = NoKey
      /\ q.body = "low" => q.call = "updateItem"
  BY <1>1, RequestShape DEF AInv, Creates
<1>4. CASE Holders(t, StoredKey(q)) # {} /\ Answer(c, 409) /\ UNCHANGED tableVars
  <2>1. ~ Present(q.id)
    BY <1>2 DEF Present
  <2>2. Holders(t, StoredKey(q)) \ {q.id} # {}
    BY <1>4, <2>1 DEF Holders, Rows
  <2>3. StoredKey(q) # NoKey
    BY <1>4 DEF Holders
  <2>4. q.call \in {"createCustomer", "createVehicle", "register"}
    BY <1>3, <2>3 DEF StoredKey
  <2>5. TellsTheTruth(q, 409)
    BY <2>2 DEF TellsTheTruth
  <2> QED
    BY <1>4, <2>4, <2>5, Documentation, AnswerPends DEF AnswersWell
<1>5. CASE (Unwritable(q) \/ ParentMissing(q)) /\ Answer(c, 500) /\ UNCHANGED tableVars
  <2>1. q.body = "unfit" \/ q.call \in {"createService", "createVehicle"}
    BY <1>1, <1>3, <1>5 DEF Unwritable, CheckFails, ParentMissing, Creates
  <2>2. q.body = "unfit" \/ q.call \notin CustomerCalls \cup AuthCalls
    BY <2>1 DEF CustomerCalls, AuthCalls
  <2>3. Unanswerable(q)
    BY <1>5 DEF Unanswerable, ParentMissing
  <2>4. TellsTheTruth(q, 500) /\ IsDocumented(q, 500)
    BY <2>2, <2>3, NoAnswer
  <2> QED
    BY <1>5, <2>4, AnswerPends DEF AnswersWell
<1>6. CASE /\ q.parent # NoId => Present(q.parent)
           /\ row' = [row EXCEPT ![q.id] = [state |-> "live", key |-> StoredKey(q), parent |-> q.parent]]
           /\ Answer(c, 201)
           /\ UNCHANGED <<uses, open>>
  <2>1. StoredKey(q) \in Spelling(Key) \cup {NoKey}
    BY <1>1, StoredKeyType DEF AInv, IInv
  <2>2. [state |-> "live", key |-> StoredKey(q), parent |-> q.parent] \in Row
    BY <1>3, <2>1 DEF Row
  <2>3. /\ row' \in [Id -> Row] /\ row'[q.id].state = "live" /\ row'[q.id].parent = q.parent
        /\ \A i \in Id : i # q.id => row'[i] = row[i]
    BY <1>2, <1>6, <2>2 DEF AInv, IInv, TypeOK
  <2> HIDE DEF q
  <2>4. \A i \in Id : Present(i) => Present(i)'
    BY <2>3 DEF Present
  <2>5. /\ \A i \in Id : row[i].state # "unused" => row'[i].state # "unused"
        /\ \A i \in Id : row[i].state = "unused" /\ row'[i].state # "unused" => i = q.id
    BY <2>3
  <2>6. StepFits' /\ SeenBefore' /\ InsertsAreNew'
    BY <1>1, <1>6, <2>3, <2>4, <2>5, AnswerLeavesOthers DEF q
  <2>7. ReferencesHold'
    <3> SUFFICES ASSUME NEW i \in Id, Referenced(i)' PROVE Present(i)'
      BY DEF ReferencesHold
    <3>1. CASE \E j \in Rows("vehicles")' : row'[j].parent = i
      <4>1. PICK j \in Rows("vehicles")' : row'[j].parent = i
        BY <3>1
      <4>2. CASE j = q.id
        <5>1. q.parent = i /\ q.parent # NoId
          BY <2>3, <4>1, <4>2, CatalogueAssumption
        <5> QED
          BY <1>6, <2>4, <5>1
      <4>3. CASE j # q.id
        <5>1. j \in Rows("vehicles") /\ row[j].parent = i
          BY <2>3, <4>1, <4>3 DEF Rows, Present
        <5>2. Present(i)
          BY <5>1 DEF AInv, ReferencesHold, Referenced
        <5> QED
          BY <2>4, <5>2
      <4> QED
        BY <4>2, <4>3
    <3>2. CASE \E o \in Order : <<o, i>> \in uses'
      <4>1. Present(i)
        BY <1>6, <3>2 DEF AInv, ReferencesHold, Referenced
      <4> QED
        BY <2>4, <4>1
    <3> QED
      BY <3>1, <3>2 DEF Referenced, Rows, Present
  <2>8. row'[q.id].state \in {"live", "inactive"}
    BY <2>3
  <2>9. q.parent # NoId => row'[q.parent].state \in {"live", "inactive"}
    <3>1. q.parent # NoId => Present(q.parent) /\ q.parent \in Id
      BY <1>3, <1>6
    <3> QED
      BY <2>4, <3>1 DEF Present
  <2>10. TellsTheTruth(q, 201)
    BY <1>2, <2>8, <2>9 DEF TellsTheTruth
  <2>11. IsDocumented(q, 201)
    BY <1>1, Documentation
  <2> QED
    BY <1>6, <2>6, <2>7, <2>10, <2>11 DEF AnswersWell, q
<1> QED
  BY <1>4, <1>5, <1>6 DEF Insert, Duplicate, ParentMissing

LEMMA UpdateWell ==
    ASSUME AInv, NEW c \in Client, Update(c)
    PROVE  AnswersWell(c) /\ StepFits' /\ SeenBefore' /\ InsertsAreNew' /\ ReferencesHold'
<1> DEFINE q == request[c]
           w == Written(q, row[q.id])
<1>1. q.call \in Updates /\ At(c, "write") /\ q.call # "none" /\ q.call \notin ByKey \cup {"createOrder"}
      /\ q.call \notin Creates /\ StoredKey(q) = q.key
  BY DEF Update, Updates, Creates, ByKey, StoredKey
<1>2. q.id \in Id /\ q.id # NoId /\ TableOf[q.id] = TableOfCall[q.call] /\ q.uses = {}
  BY <1>1, RequestShape, CatalogueAssumption DEF AInv
<1>3. /\ q.call # "updateVehicle" => q.key = NoKey /\ q.parent = NoId
      /\ q.body = "low" => q.call = "updateItem"
      /\ q.parent \in Id \cup {NoId}
  BY <1>1, RequestShape DEF AInv, Updates
<1>4. CASE (~ Present(q.id) \/ Unwritable(q) \/ ParentMissing(q)) /\ Answer(c, 500) /\ UNCHANGED tableVars
  <2>1. q.body = "unfit" \/ q.call # "updateCustomer"
    BY <1>1, <1>3, <1>4 DEF AInv, SeenBefore, Unwritable, CheckFails, ParentMissing
  <2>2. q.body = "unfit" \/ q.call \notin CustomerCalls \cup AuthCalls
    BY <1>1, <2>1 DEF Updates, CustomerCalls, AuthCalls
  <2>3. Unanswerable(q)
    BY <1>1, <1>2, <1>4 DEF Unanswerable, ParentMissing
  <2>4. TellsTheTruth(q, 500) /\ IsDocumented(q, 500)
    BY <2>2, <2>3, NoAnswer
  <2> QED
    BY <1>4, <2>4, AnswerPends DEF AnswersWell
<1>5. CASE Holders(TableOfCall[q.call], q.key) \ {q.id} # {} /\ Answer(c, 409) /\ UNCHANGED tableVars
  <2>1. q.call = "updateVehicle"
    BY <1>3, <1>5 DEF Holders
  <2>2. TellsTheTruth(q, 409)
    BY <1>1, <1>5 DEF TellsTheTruth
  <2> QED
    BY <1>5, <2>1, <2>2, Documentation, AnswerPends DEF AnswersWell
<1>6. CASE /\ Present(q.id) /\ ~ ParentMissing(q)
           /\ row' = [row EXCEPT ![q.id] = w]
           /\ Answer(c, 200)
           /\ UNCHANGED <<uses, open>>
  <2>1. /\ w \in Row /\ w.state \in {"live", "inactive"}
        /\ w.parent = IF q.parent = NoId THEN row[q.id].parent ELSE q.parent
    BY <1>1, <1>6, WrittenRow DEF AInv
  <2> HIDE DEF w
  <2>2. /\ row' \in [Id -> Row] /\ row'[q.id] = w
        /\ \A i \in Id : i # q.id => row'[i] = row[i]
    BY <1>2, <1>6, <2>1 DEF AInv, IInv, TypeOK
  <2>3. Answer(c, 200) /\ uses' = uses /\ Present(q.id) /\ row[q.id].state # "unused"
        /\ (q.parent # NoId => Present(q.parent))
    BY <1>6 DEF Present, ParentMissing
  <2> HIDE DEF q
  <2>4. \A i \in Id : Present(i)' <=> Present(i)
    BY <1>2, <2>1, <2>2, <2>3 DEF Present
  <2>5. \A i \in Id : row[i].state = "unused" <=> row'[i].state = "unused"
    BY <1>2, <2>1, <2>2, <2>3
  <2>6. StepFits' /\ SeenBefore' /\ InsertsAreNew'
    BY <2>2, <2>3, <2>4, <2>5, AnswerLeavesOthers
  <2>7. ReferencesHold'
    <3> SUFFICES ASSUME NEW i \in Id, Referenced(i)' PROVE Present(i)
      BY <2>4 DEF ReferencesHold
    <3>1. CASE \E j \in Rows("vehicles")' : row'[j].parent = i
      <4>1. PICK j \in Rows("vehicles")' : row'[j].parent = i
        BY <3>1
      <4>2. j \in Rows("vehicles")
        BY <2>4, <4>1 DEF Rows
      <4>3. CASE row[j].parent = i
        BY <4>2, <4>3 DEF AInv, ReferencesHold, Referenced
      <4>4. CASE row[j].parent # i
        <5>1. j = q.id /\ q.parent = i /\ q.parent # NoId
          BY <1>2, <2>1, <2>2, <4>1, <4>2, <4>4 DEF Rows
        <5> QED
          BY <2>3, <5>1
      <4> QED
        BY <4>3, <4>4
    <3>2. CASE \E o \in Order : <<o, i>> \in uses'
      BY <2>3, <3>2 DEF AInv, ReferencesHold, Referenced
    <3> QED
      BY <3>1, <3>2 DEF Referenced, Rows, Present
  <2>8. row'[q.id].state \in {"live", "inactive"}
    BY <2>1, <2>2
  <2>9. q.parent # NoId => row'[q.parent].state \in {"live", "inactive"}
    BY <1>3, <2>3, <2>4 DEF Present
  <2>10. TellsTheTruth(q, 200)
    BY <1>2, <2>8, <2>9 DEF TellsTheTruth
  <2>11. IsDocumented(q, 200)
    BY <1>1, Documentation
  <2> QED
    BY <2>3, <2>6, <2>7, <2>10, <2>11 DEF AnswersWell, q
<1> QED
  BY <1>4, <1>5, <1>6 DEF Update, Duplicate

LEMMA DeactivateWell ==
    ASSUME AInv, NEW c \in Client, Deactivate(c)
    PROVE  AnswersWell(c) /\ StepFits' /\ SeenBefore' /\ InsertsAreNew' /\ ReferencesHold'
<1> DEFINE q == request[c]
<1>1. q.call = "deleteCustomer" /\ Present(q.id) /\ q.id \in Id /\ Answer(c, 204) /\ UNCHANGED <<uses, open>>
  BY DEF AInv, IInv, LeavingIsThere, Deactivate, At, Present
<1>2. row[q.id] \in Row
  BY <1>1 DEF AInv, IInv, TypeOK
<1>3. /\ [row[q.id] EXCEPT !.state = "inactive"] \in Row
      /\ [row[q.id] EXCEPT !.state = "inactive"].state = "inactive"
      /\ [row[q.id] EXCEPT !.state = "inactive"].parent = row[q.id].parent
  BY <1>2 DEF Row
<1>4. /\ row' \in [Id -> Row] /\ row'[q.id].state = "inactive"
      /\ \A i \in Id : row'[i].parent = row[i].parent
      /\ \A i \in Id : i # q.id => row'[i] = row[i]
  BY <1>1, <1>3 DEF AInv, IInv, TypeOK, Deactivate
<1>5. TellsTheTruth(q, 204) /\ IsDocumented(q, 204)
  BY <1>1, <1>4, Documentation DEF TellsTheTruth, Deletes
<1>6. \A i \in Id : Present(i)' <=> Present(i)
  <2> HIDE DEF q
  <2> QED
    BY <1>1, <1>4 DEF Present
<1>7. row[q.id].state # "unused"
  BY <1>1 DEF Present
<1>8. StepFits' /\ SeenBefore' /\ InsertsAreNew'
  BY <1>1, <1>4, <1>6, <1>7, AnswerLeavesOthers
<1>9. \A i \in Id : Referenced(i)' <=> Referenced(i)
  BY <1>1, <1>4, <1>6 DEF Referenced, Rows
<1>10. ReferencesHold'
  BY <1>6, <1>9 DEF AInv, ReferencesHold
<1> QED
  BY <1>1, <1>5, <1>8, <1>10 DEF AnswersWell

\* A row that goes is no customer's, and nothing refers to it.
LEMMA DeleteWell ==
    ASSUME AInv, NEW c \in Client, Delete(c)
    PROVE  AnswersWell(c) /\ StepFits' /\ SeenBefore' /\ InsertsAreNew' /\ ReferencesHold'
<1> DEFINE q == request[c]
<1>1. q.call \in Deletes \ {"deleteCustomer"}
  BY DEF Delete
<1>2. q.id \in Id /\ TableOf[q.id] # "customers" /\ q.call \notin Creates
  BY <1>1, WritesItsTable, TablesOfDeletes DEF AInv, IInv, Deletes, Creates
<1>3. CASE (~ Present(q.id) \/ Referenced(q.id)) /\ Answer(c, 500) /\ UNCHANGED tableVars
  <2>1. q.call \notin CustomerCalls \cup AuthCalls
    BY <1>1 DEF Deletes, CustomerCalls, AuthCalls
  <2>2. Unanswerable(q)
    BY <1>1, <1>2, <1>3, CatalogueAssumption DEF Unanswerable
  <2>3. TellsTheTruth(q, 500) /\ IsDocumented(q, 500)
    BY <2>1, <2>2, NoAnswer
  <2> QED
    BY <1>3, <2>3, AnswerPends DEF AnswersWell
<1>4. CASE /\ Present(q.id) /\ ~ Referenced(q.id)
           /\ row' = [row EXCEPT ![q.id].state = "gone"]
           /\ Answer(c, 204)
           /\ UNCHANGED <<uses, open>>
  <2>1. row[q.id] \in Row
    BY <1>2 DEF AInv, IInv, TypeOK
  <2>2. /\ [row[q.id] EXCEPT !.state = "gone"] \in Row
        /\ [row[q.id] EXCEPT !.state = "gone"].state = "gone"
    BY <2>1 DEF Row
  <2>3. /\ row' \in [Id -> Row] /\ row'[q.id].state = "gone"
        /\ \A i \in Id : i # q.id => row'[i] = row[i]
    BY <1>2, <1>4, <2>2 DEF AInv, IInv, TypeOK
  <2>4. TellsTheTruth(q, 204) /\ IsDocumented(q, 204)
    BY <1>1, <1>4, <2>3, Documentation DEF TellsTheTruth
  <2>5. row[q.id].state # "unused"
    BY <1>4 DEF Present
  <2> HIDE DEF q
  <2>6. \A i \in Id : Present(i)' <=> i # q.id /\ Present(i)
    BY <2>3 DEF Present
  <2>7. /\ \A i \in Id : TableOf[i] = "customers" /\ Present(i) => Present(i)'
        /\ \A i \in Id : row[i].state # "unused" => row'[i].state # "unused"
        /\ \A i \in Id : row'[i].state # "unused" => row[i].state # "unused"
    BY <1>2, <2>3, <2>5, <2>6
  <2>8. StepFits' /\ SeenBefore' /\ InsertsAreNew'
    BY <1>4, <2>3, <2>7, AnswerLeavesOthers
  <2>9. \A i \in Id : Referenced(i)' => Referenced(i)
    BY <1>4, <2>3, <2>6 DEF Referenced, Rows
  <2>10. ReferencesHold'
    BY <1>4, <2>6, <2>9 DEF AInv, ReferencesHold
  <2> QED
    BY <1>4, <2>4, <2>8, <2>10 DEF AnswersWell, q
<1> QED
  BY <1>3, <1>4 DEF Delete

LEMMA OpenOrderWell ==
    ASSUME AInv, NEW c \in Client, OpenOrder(c)
    PROVE  AnswersWell(c) /\ StepFits' /\ SeenBefore' /\ InsertsAreNew' /\ ReferencesHold'
<1> DEFINE q == request[c]
<1>1. q.call = "createOrder" /\ q.id = NoId /\ q.parent = NoId /\ q.uses \subseteq Id
  BY RequestShape DEF OpenOrder, AInv
<1>2. q.call \notin CustomerCalls \cup AuthCalls
  BY <1>1 DEF CustomerCalls, AuthCalls
<1>3. CASE \E status \in {400, 404} : Answer(c, status) /\ UNCHANGED tableVars
  <2>1. PICK status \in {400, 404} : Answer(c, status) /\ UNCHANGED tableVars
    BY <1>3
  <2>2. TellsTheTruth(q, status) /\ IsDocumented(q, status)
    BY <1>1, NothingClaimed, NothingThere, Documentation
  <2> QED
    BY <2>1, <2>2, AnswerPends DEF AnswersWell
<1>4. CASE /\ q.body = "unfit" \/ \E i \in q.uses : ~ Present(i)
           /\ Answer(c, 500) /\ UNCHANGED tableVars
  <2>1. Unanswerable(q)
    BY <1>1, <1>4, CatalogueAssumption DEF Unanswerable, Unwritable
  <2>2. TellsTheTruth(q, 500) /\ IsDocumented(q, 500)
    BY <1>2, <2>1, NoAnswer
  <2> QED
    BY <1>4, <2>2, AnswerPends DEF AnswersWell
<1>5. CASE /\ \A i \in q.uses : Present(i)
           /\ \E o \in Order \ Opened : uses' = uses \cup {o} \X q.uses /\ open' = open \cup {o}
           /\ Answer(c, 201)
           /\ UNCHANGED row
  <2>1. TellsTheTruth(q, 201)
    BY <1>1, <1>5, StateType DEF TellsTheTruth, AInv
  <2>2. IsDocumented(q, 201)
    BY <1>1, Documentation
  <2>3. /\ row' \in [Id -> Row] /\ \A i \in Id : Present(i)' <=> Present(i)
    BY <1>5 DEF AInv, IInv, TypeOK, Present
  <2>4. StepFits' /\ SeenBefore' /\ InsertsAreNew'
    BY <1>5, <2>3, AnswerLeavesOthers
  <2>5. \A i \in Id : Referenced(i)' => Referenced(i) \/ i \in q.uses
    BY <1>5, <2>3 DEF Referenced, Rows
  <2>6. ReferencesHold'
    BY <1>5, <2>3, <2>5 DEF AInv, ReferencesHold
  <2> QED
    BY <1>5, <2>1, <2>2, <2>4, <2>6 DEF AnswersWell
<1> QED
  BY <1>3, <1>4, <1>5 DEF OpenOrder

-----------------------------------------------------------------------------
AllAnswersWell ==
    \A c \in Client : answer'[c] \notin {0, answer[c]} =>
        TellsTheTruth(request[c], answer'[c]) /\ IsDocumented(request[c], answer'[c])

\* Nobody is answered but the one whose query it was.
LEMMA OneIsAnswered ==
    ASSUME AInv, NEW c \in Client, AnswersWell(c)
    PROVE  AllAnswersWell
<1>1. CASE UNCHANGED answer
  BY <1>1 DEF AllAnswersWell
<1>2. CASE \E status : /\ Answer(c, status)
                       /\ TellsTheTruth(request[c], status)
                       /\ IsDocumented(request[c], status)
  <2>1. PICK status : /\ Answer(c, status)
                      /\ TellsTheTruth(request[c], status)
                      /\ IsDocumented(request[c], status)
    BY <1>2
  <2>2. answer'[c] = status /\ \A d \in Client : d # c => answer'[d] = answer[d]
    BY <2>1 DEF AInv, IInv, TypeOK, Answer
  <2> QED
    BY <2>1, <2>2 DEF AllAnswersWell
<1> QED
  BY <1>1, <1>2 DEF AnswersWell

LEMMA StepsAnswerWell ==
    ASSUME AInv, Next, UNCHANGED scope
    PROVE  AllAnswersWell /\ StepFits' /\ SeenBefore' /\ InsertsAreNew' /\ ReferencesHold'
<1>1. ASSUME NEW c \in Client, NEW r \in Requests, r[1] = scope, Ask(c, r[2])
      PROVE  AllAnswersWell /\ StepFits' /\ SeenBefore' /\ InsertsAreNew' /\ ReferencesHold'
  <2>1. answer'[c] = 0 /\ \A d \in Client : d # c => answer'[d] = answer[d]
    BY <1>1 DEF AInv, IInv, TypeOK, Ask
  <2> QED
    BY <1>1, <2>1, AskPends DEF AllAnswersWell
<1>2. ASSUME NEW c \in Client,
             \/ Refuse(c) \/ Throw(c) \/ Lookup(c) \/ Check(c) \/ Find(c) \/ Insert(c) \/ Update(c)
             \/ Deactivate(c) \/ Delete(c) \/ Resolve(c) \/ OpenOrder(c)
             \/ GetById(c) \/ GetByTaxId(c) \/ LookupByCpf(c) \/ Login(c)
      PROVE  AllAnswersWell /\ StepFits' /\ SeenBefore' /\ InsertsAreNew' /\ ReferencesHold'
  <2>1. AnswersWell(c) /\ StepFits' /\ SeenBefore' /\ InsertsAreNew' /\ ReferencesHold'
    BY <1>2, RefuseWell, ThrowWell, LookupWell, CheckWell, FindWell, InsertWell, UpdateWell, DeactivateWell, DeleteWell,
       ResolveWell, OpenOrderWell, ReadWell
  <2> QED
    BY <2>1, OneIsAnswered
<1>3. ASSUME NEW o \in Order, Settle(o)
      PROVE  AllAnswersWell /\ StepFits' /\ SeenBefore' /\ InsertsAreNew' /\ ReferencesHold'
  <2>1. UNCHANGED <<row, uses, request, step, answer>>
    BY <1>3 DEF Settle
  <2>2. StepFits' /\ SeenBefore' /\ InsertsAreNew'
    BY <2>1 DEF AInv, StepFits, SeenBefore, InsertsAreNew, At, Present
  <2> QED
    BY <2>1, <2>2, ReferencesUntouched DEF AllAnswersWell, AInv
<1> QED
  BY <1>1, <1>2, <1>3 DEF Next

LEMMA PendingAlways == Spec => []AInv
<1>1. Init => AInv
  <2> SUFFICES ASSUME Init PROVE AInv
    OBVIOUS
  <2>1. StepFits /\ SeenBefore /\ InsertsAreNew
    BY DEF Init, StepFits, SeenBefore, InsertsAreNew, At, NoRequest, Creates
  <2>2. ReferencesHold
    BY DEF Init, ReferencesHold, Referenced, Rows, Present
  <2> QED
    BY <2>1, <2>2, InvInit DEF AInv
<1>2. AInv /\ IInv' /\ [Next /\ UNCHANGED scope]_<<vars, scope>> => AInv'
  <2> SUFFICES ASSUME AInv, IInv', [Next /\ UNCHANGED scope]_<<vars, scope>> PROVE AInv'
    OBVIOUS
  <2>1. CASE UNCHANGED <<vars, scope>>
    <3>1. UNCHANGED <<row, uses, request, step>>
      BY <2>1 DEF vars, tableVars
    <3>2. StepFits' /\ SeenBefore' /\ InsertsAreNew'
      BY <3>1 DEF AInv, StepFits, SeenBefore, InsertsAreNew, At, Present
    <3> QED
      BY <3>1, <3>2, ReferencesUntouched DEF AInv
  <2>2. CASE Next /\ UNCHANGED scope
    BY <2>2, StepsAnswerWell DEF AInv
  <2> QED
    BY <2>1, <2>2
<1> QED
  BY <1>1, <1>2, InvAlways, PTL DEF Spec

\* Whatever the others do between two queries of a request, for any number of
\* them, its answer is true when it is given. The unique indexes and foreign
\* keys are what it takes: no lookup of a key is relied upon.
THEOREM AnswersAreTrue == Spec => AnswersTellTheTruth
<1>1. AInv /\ [Next /\ UNCHANGED scope]_<<vars, scope>> =>
          [\A c \in Client : answer'[c] \notin {0, answer[c]} => TellsTheTruth(request[c], answer'[c])]_vars
  BY StepsAnswerWell DEF AllAnswersWell, vars
<1> QED
  BY <1>1, PendingAlways, PTL DEF Spec, AnswersTellTheTruth

\* A request with any kind of body gets a status its route documents, but for the
\* gaps the property names, for any number of requests that write between its
\* queries: on customers and users the 500 takes a body that cannot be read or
\* written, and no race brings it about.
THEOREM DocumentationIsKept == Spec => AnswersAreDocumented
<1>1. AInv /\ [Next /\ UNCHANGED scope]_<<vars, scope>> =>
          [\A c \in Client : answer'[c] \notin {0, answer[c]} => IsDocumented(request[c], answer'[c])]_vars
  BY StepsAnswerWell DEF AllAnswersWell, vars
<1> QED
  BY <1>1, PendingAlways, PTL DEF Spec, AnswersAreDocumented

\* The foreign keys of orders, lines and vehicles never point to a row that is
\* not there, however deletes and inserts interleave.
THEOREM ReferencesCorrect == Spec => []ReferencesHold
<1>1. AInv => ReferencesHold
  BY DEF AInv
<1> QED
  BY <1>1, PendingAlways, PTL
-----------------------------------------------------------------------------
(* The rules every request passes.                                         *)

\* The CPF's rule (ten times the sum, ten becoming zero) and the CNPJ's (eleven
\* minus the remainder, below two becoming zero) are one rule: for every sum
\* they give the same digit, and it is a digit.
THEOREM DigitRulesAgree ==
    \A sum \in Nat : cpfDigit(sum) = cnpjDigit(sum) /\ cpfDigit(sum) \in 0 .. 9
<1> SUFFICES ASSUME NEW sum \in Nat
             PROVE  cpfDigit(sum) = cnpjDigit(sum) /\ cpfDigit(sum) \in 0 .. 9
  OBVIOUS
<1> DEFINE r == sum % 11
<1>1. PICK q \in Nat : sum = 11 * q + r /\ r \in 0 .. 10
  OBVIOUS
<1>2. (sum * 10) % 11 = (10 * r) % 11
  BY <1>1
<1>3. (10 * r) % 11 = IF r = 0 THEN 0 ELSE 11 - r
  BY <1>1
<1> QED
  BY <1>1, <1>2, <1>3 DEF cpfDigit, cnpjDigit

LEMMA GuardsOfRouters ==
    /\ \A route \in DOMAIN CustomerRoutes \cup DOMAIN VehicleRoutes :
          API[route].auth = TRUE /\ API[route].who = {"attendant", "admin"}
    /\ \A route \in {"listItems", "getItem", "listServices", "getService"} :
          API[route].auth = TRUE /\ API[route].who = {"attendant", "mechanic", "admin", "other"}
    /\ API["listAvgTime"].auth = TRUE /\ API["listAvgTime"].who = {"attendant", "mechanic", "admin"}
    /\ \A route \in {"createItem", "updateItem", "deleteItem", "createService", "updateService", "deleteService"} :
          API[route].auth = TRUE /\ API[route].who = {"admin"}
    /\ \A route \in DOMAIN OrderEdits \cup {"deliver"} :
          API[route].auth = TRUE /\ API[route].who = {"mechanic", "admin"}
    /\ \A route \in {"listOrders", "getOrder"} :
          API[route].auth = TRUE /\ API[route].who = {"attendant", "mechanic", "admin", "other"}
    /\ API["getStatus"].auth = TRUE /\ API["getStatus"].who = {"customer"}
    /\ API["getHistory"].auth = TRUE /\ API["getHistory"].who = {"attendant", "mechanic", "admin", "other", "customer"}
    /\ API["createOrder"].auth = TRUE /\ API["createOrder"].who = {"attendant", "admin"}
    /\ API["register"].auth = TRUE /\ API["register"].who = {"admin"}
    /\ API["lookupCustomer"].auth = FALSE /\ API["lookupCustomer"].who = {"function"}
    /\ API["login"].auth = FALSE /\ "nobody" \in API["login"].who
<1>1. \A route \in DOMAIN CustomerRoutes : CustomerRoutes[route].auth = TRUE /\ CustomerRoutes[route].who = {"attendant", "admin"}
  BY RoutesOfRouters DEF CustomerRoutes, Route, Desk
<1>2. \A route \in DOMAIN VehicleRoutes : VehicleRoutes[route].auth = TRUE /\ VehicleRoutes[route].who = {"attendant", "admin"}
  BY RoutesOfRouters DEF VehicleRoutes, Route, Desk
<1>3. /\ \A route \in {"listItems", "getItem"} :
            ItemRoutes[route].auth = TRUE /\ ItemRoutes[route].who = {"attendant", "mechanic", "admin", "other"}
      /\ \A route \in {"createItem", "updateItem", "deleteItem"} :
            ItemRoutes[route].auth = TRUE /\ ItemRoutes[route].who = {"admin"}
  BY DEF ItemRoutes, Route, AnyRole, Staff
<1>4. /\ \A route \in {"listServices", "getService"} :
            ServiceRoutes[route].auth = TRUE /\ ServiceRoutes[route].who = {"attendant", "mechanic", "admin", "other"}
      /\ ServiceRoutes["listAvgTime"].auth = TRUE
      /\ ServiceRoutes["listAvgTime"].who = {"attendant", "mechanic", "admin"}
      /\ \A route \in {"createService", "updateService", "deleteService"} :
            ServiceRoutes[route].auth = TRUE /\ ServiceRoutes[route].who = {"admin"}
  BY DEF ServiceRoutes, Route, AnyRole, Staff
<1>5. \A route \in DOMAIN OrderEdits : OrderEdits[route].auth = TRUE /\ OrderEdits[route].who = {"mechanic", "admin"}
  BY RoutesOfRouters DEF OrderEdits, Route, Workshop
<1>6. /\ OrderReads["deliver"].auth = TRUE /\ OrderReads["deliver"].who = {"mechanic", "admin"}
      /\ OrderReads["listOrders"].auth = TRUE /\ OrderReads["listOrders"].who = {"attendant", "mechanic", "admin", "other"}
      /\ OrderReads["getStatus"].auth = TRUE /\ OrderReads["getStatus"].who = {"customer"}
      /\ OrderReads["getHistory"].auth = TRUE
      /\ OrderReads["getHistory"].who = {"attendant", "mechanic", "admin", "other", "customer"}
  BY DEF OrderReads, Route, AnyRole, Staff, Workshop
<1>7. /\ OrderOpening["createOrder"].auth = TRUE /\ OrderOpening["createOrder"].who = {"attendant", "admin"}
      /\ OrderOpening["getOrder"].auth = TRUE /\ OrderOpening["getOrder"].who = {"attendant", "mechanic", "admin", "other"}
  BY DEF OrderOpening, Route, AnyRole, Staff, Desk
<1>8. /\ AuthRoutes["register"].auth = TRUE /\ AuthRoutes["register"].who = {"admin"}
      /\ AuthRoutes["lookupCustomer"].auth = FALSE /\ AuthRoutes["lookupCustomer"].who = {"function"}
      /\ AuthRoutes["login"].auth = FALSE /\ "nobody" \in AuthRoutes["login"].who
  BY DEF AuthRoutes, Route, AnyRole, Staff
<1>9. /\ \A route \in DOMAIN CustomerRoutes : API[route] = CustomerRoutes[route]
      /\ \A route \in DOMAIN VehicleRoutes : API[route] = VehicleRoutes[route]
      /\ \A route \in DOMAIN ItemRoutes : API[route] = ItemRoutes[route]
      /\ \A route \in DOMAIN ServiceRoutes : API[route] = ServiceRoutes[route]
      /\ \A route \in DOMAIN OrderEdits : API[route] = OrderEdits[route]
  BY RouterOfRoute
<1>10. /\ \A route \in {"deliver", "listOrders", "getStatus", "getHistory"} : API[route] = OrderReads[route]
       /\ \A route \in {"createOrder", "getOrder"} : API[route] = OrderOpening[route]
       /\ \A route \in {"register", "lookupCustomer", "login"} : API[route] = AuthRoutes[route]
  BY RouterOfRoute, RoutesOfRouters
<1>11. \A route \in DOMAIN CustomerRoutes \cup DOMAIN VehicleRoutes :
          API[route].auth = TRUE /\ API[route].who = {"attendant", "admin"}
  BY <1>1, <1>2, <1>9
<1>12. /\ \A route \in {"listItems", "getItem", "listServices", "getService"} :
             API[route].auth = TRUE /\ API[route].who = {"attendant", "mechanic", "admin", "other"}
       /\ API["listAvgTime"].auth = TRUE /\ API["listAvgTime"].who = {"attendant", "mechanic", "admin"}
       /\ \A route \in {"createItem", "updateItem", "deleteItem", "createService", "updateService", "deleteService"} :
             API[route].auth = TRUE /\ API[route].who = {"admin"}
  BY <1>3, <1>4, <1>9, RoutesOfRouters
<1>13. \A route \in DOMAIN OrderEdits \cup {"deliver"} :
          API[route].auth = TRUE /\ API[route].who = {"mechanic", "admin"}
  BY <1>5, <1>6, <1>9, <1>10
<1> QED
  BY <1>6, <1>7, <1>8, <1>10, <1>11, <1>12, <1>13

\* The table by routes instead of callers.
LEMMA TableByRoutes ==
    /\ \A route : route \in MayUse("other") <=> route \in
          {"listItems", "getItem", "listServices", "getService", "listOrders", "getOrder", "getHistory"}
    /\ \A route : route \in MayUse("attendant") <=>
          \/ route \in MayUse("other")
          \/ route \in {"listCustomers", "createCustomer", "getByTaxId", "getCustomer", "updateCustomer",
                        "deleteCustomer", "listVehicles", "createVehicle", "getVehicle", "updateVehicle",
                        "deleteVehicle", "createOrder", "listAvgTime"}
    /\ \A route : route \in MayUse("mechanic") <=>
          \/ route \in MayUse("other")
          \/ route \in {"deliver", "addService", "removeService", "addItem", "removeItem", "listAvgTime"}
    /\ \A route : route \in MayUse("admin") <=>
          \/ route \in MayUse("attendant") \cup MayUse("mechanic")
          \/ route \in {"createItem", "updateItem", "deleteItem", "createService", "updateService",
                        "deleteService", "register"}
    /\ \A route : route \in Matrix.customer <=> route \in {"getStatus", "getHistory"}
<1>1. /\ MayUse("other") = Matrix.everyone \cup {}
      /\ MayUse("attendant") = Matrix.everyone \cup (Matrix.attendant \cup Matrix.named)
      /\ MayUse("mechanic") = Matrix.everyone \cup (Matrix.mechanic \cup Matrix.named)
      /\ MayUse("admin") =
            Matrix.everyone \cup (Matrix.attendant \cup Matrix.mechanic \cup Matrix.named \cup Matrix.admin)
  BY DEF MayUse
<1>2. /\ Matrix.attendant =
            {"listCustomers", "createCustomer", "getByTaxId", "getCustomer", "updateCustomer", "deleteCustomer",
             "listVehicles", "createVehicle", "getVehicle", "updateVehicle", "deleteVehicle", "createOrder"}
      /\ Matrix.mechanic = {"deliver", "addService", "removeService", "addItem", "removeItem"}
      /\ Matrix.everyone = {"listItems", "getItem", "listServices", "getService", "listOrders",
                            "getOrder", "getHistory"}
      /\ Matrix.named = {"listAvgTime"}
      /\ Matrix.admin = {"createItem", "updateItem", "deleteItem", "createService", "updateService",
                         "deleteService", "register"}
      /\ Matrix.customer = {"getStatus", "getHistory"}
  BY DEF Matrix
<1>3. \A route : route \in MayUse("admin") <=>
          \/ route \in MayUse("attendant") \cup MayUse("mechanic")
          \/ route \in Matrix.admin
  BY <1>1
<1>4. \A route : route \in MayUse("attendant") <=>
          route \in MayUse("other") \/ route \in Matrix.attendant \cup Matrix.named
  BY <1>1
<1>5. \A route : route \in MayUse("mechanic") <=>
          route \in MayUse("other") \/ route \in Matrix.mechanic \cup Matrix.named
  BY <1>1
<1>6. \A route : route \in MayUse("other") <=> route \in Matrix.everyone
  BY <1>1
<1> QED
  BY <1>2, <1>3, <1>4, <1>5, <1>6

LEMMA RolesOfRoutes ==
    \A route \in DOMAIN API \ {"login", "lookupCustomer"} :
        /\ API[route].auth = TRUE
        /\ \A role \in AnyRole : role \in API[route].who <=> route \in MayUse(role)
        /\ "customer" \in API[route].who <=> route \in Matrix.customer
<1> SUFFICES ASSUME NEW route \in DOMAIN API \ {"login", "lookupCustomer"}
             PROVE  /\ API[route].auth = TRUE
                    /\ \A role \in AnyRole : role \in API[route].who <=> route \in MayUse(role)
                    /\ "customer" \in API[route].who <=> route \in Matrix.customer
  OBVIOUS
<1> DEFINE who == API[route].who
<1>1. route \in UNION {DOMAIN CustomerRoutes, DOMAIN VehicleRoutes, DOMAIN ItemRoutes, DOMAIN ServiceRoutes,
                       DOMAIN AuthRoutes, DOMAIN OrderReads, DOMAIN OrderOpening, DOMAIN OrderEdits}
  BY DEF API
<1> SUFFICES /\ API[route].auth = TRUE
             /\ "attendant" \in who <=> route \in MayUse("attendant")
             /\ "mechanic" \in who <=> route \in MayUse("mechanic")
             /\ "admin" \in who <=> route \in MayUse("admin")
             /\ "other" \in who <=> route \in MayUse("other")
             /\ "customer" \in who <=> route \in Matrix.customer
  BY DEF AnyRole, Staff
<1>2. CASE route \in DOMAIN CustomerRoutes \cup DOMAIN VehicleRoutes
  <2>1. API[route].auth = TRUE /\ who = {"attendant", "admin"}
    BY <1>2, GuardsOfRouters
  <2> HIDE DEF who
  <2> QED
    BY <1>2, <2>1, RoutesOfRouters, TableByRoutes
<1>3. CASE route \in {"listItems", "getItem", "listServices", "getService", "listOrders", "getOrder"}
  <2>1. API[route].auth = TRUE /\ who = {"attendant", "mechanic", "admin", "other"}
    BY <1>3, GuardsOfRouters
  <2> HIDE DEF who
  <2> QED
    BY <1>3, <2>1, TableByRoutes
<1>4. CASE route \in {"createItem", "updateItem", "deleteItem", "createService", "updateService", "deleteService",
                      "register"}
  <2>1. API[route].auth = TRUE /\ who = {"admin"}
    BY <1>4, GuardsOfRouters
  <2> HIDE DEF who
  <2> QED
    BY <1>4, <2>1, TableByRoutes
<1>5. CASE route \in DOMAIN OrderEdits \cup {"deliver"}
  <2>1. API[route].auth = TRUE /\ who = {"mechanic", "admin"}
    BY <1>5, GuardsOfRouters
  <2> HIDE DEF who
  <2> QED
    BY <1>5, <2>1, RoutesOfRouters, TableByRoutes
<1>6. CASE route = "createOrder"
  <2>1. API[route].auth = TRUE /\ who = {"attendant", "admin"}
    BY <1>6, GuardsOfRouters
  <2> HIDE DEF who
  <2> QED
    BY <1>6, <2>1, TableByRoutes
<1>7. CASE route = "getStatus"
  <2>1. API[route].auth = TRUE /\ who = {"customer"}
    BY <1>7, GuardsOfRouters
  <2> HIDE DEF who
  <2> QED
    BY <1>7, <2>1, TableByRoutes
<1>8. CASE route = "getHistory"
  <2>1. API[route].auth = TRUE /\ who = {"attendant", "mechanic", "admin", "other", "customer"}
    BY <1>8, GuardsOfRouters
  <2> HIDE DEF who
  <2> QED
    BY <1>8, <2>1, TableByRoutes
<1>9. CASE route = "listAvgTime"
  <2>1. API[route].auth = TRUE /\ who = {"attendant", "mechanic", "admin"}
    BY <1>9, GuardsOfRouters
  <2> HIDE DEF who
  <2> QED
    BY <1>9, <2>1, TableByRoutes
<1> QED
  BY <1>1, <1>2, <1>3, <1>4, <1>5, <1>6, <1>7, <1>8, <1>9, RoutesOfRouters

LEMMA UserOfToken ==
    ASSUME NEW t \in Token
    PROVE  \/ /\ IsStaff(t) /\ ~ IsCustomer(t)
              /\ authMiddleware(t) = [type |-> "staff", role |-> t.role]
              /\ t.role \in AnyRole
           \/ /\ IsCustomer(t) /\ ~ IsStaff(t)
              /\ authMiddleware(t) = [type |-> "customer", sub |-> t.sub]
           \/ /\ ~ IsStaff(t) /\ ~ IsCustomer(t)
              /\ authMiddleware(t) = Nobody
<1>1. CASE t \in [type : {"none", "refused"}] \cup [type : {"other"}]
  <2>1. t.type \in {"none", "refused", "other"}
    BY <1>1
  <2>2. ~ IsStaff(t) /\ ~ IsCustomer(t)
    BY <2>1 DEF IsStaff, IsCustomer
  <2>3. authMiddleware(t) = Nobody
    BY <2>1 DEF authMiddleware, toPayload
  <2> QED
    BY <2>2, <2>3
<1>2. CASE t \in [type : {"staff", "missing"}, userId : BOOLEAN, role : AnyRole \cup {"missing"}]
  <2>1. t.type \in {"staff", "missing"} /\ t.role \in AnyRole \cup {"missing"}
    BY <1>2
  <2>2. ~ IsCustomer(t)
    BY <2>1 DEF IsCustomer
  <2>3. CASE t.userId /\ t.role # "missing"
    <3>1. IsStaff(t) /\ t.role \in AnyRole
      BY <2>1, <2>3 DEF IsStaff
    <3>2. authMiddleware(t) = [type |-> "staff", role |-> t.role]
      BY <2>1, <2>3 DEF authMiddleware, toPayload
    <3> QED
      BY <2>2, <3>1, <3>2
  <2>4. CASE ~ (t.userId /\ t.role # "missing")
    <3>1. ~ IsStaff(t)
      BY <2>4 DEF IsStaff
    <3>2. authMiddleware(t) = Nobody
      BY <2>1, <2>4 DEF authMiddleware, toPayload
    <3> QED
      BY <2>2, <3>1, <3>2
  <2> QED
    BY <2>3, <2>4
<1>3. CASE t \in [type : {"customer"}, sub : Requester \cup {"missing"}]
  <2>1. t.type = "customer"
    BY <1>3
  <2>2. ~ IsStaff(t)
    BY <2>1 DEF IsStaff
  <2>3. CASE t.sub # "missing"
    <3>1. IsCustomer(t)
      BY <2>1, <2>3 DEF IsCustomer
    <3>2. authMiddleware(t) = [type |-> "customer", sub |-> t.sub]
      BY <2>1, <2>3 DEF authMiddleware, toPayload
    <3> QED
      BY <2>2, <3>1, <3>2
  <2>4. CASE t.sub = "missing"
    <3>1. ~ IsCustomer(t)
      BY <2>4 DEF IsCustomer
    <3>2. authMiddleware(t) = Nobody
      BY <2>1, <2>4 DEF authMiddleware, toPayload
    <3> QED
      BY <2>2, <3>1, <3>2
  <2> QED
    BY <2>3, <2>4
<1> QED
  BY <1>1, <1>2, <1>3 DEF Token

\* Every route, every kind of token, any customers and any orders: the guards
\* and the ownership check answer as the table of the documentation says.
THEOREM MatrixIsKept == TheMatrixIsKept
<1> SUFFICES ASSUME NEW q \in HttpRequest PROVE Respond(q) = Promised(q)
  BY DEF TheMatrixIsKept
<1> DEFINE t == q.token
           route == q.route
           reads == {"getStatus", "getHistory", "getOrder"}
<1>1. t \in Token /\ route \in DOMAIN API
  BY DEF HttpRequest
<1>2. CASE route = "login"
  <2>1. API[route].auth = FALSE /\ ~ Internal(API[route])
    BY <1>2, GuardsOfRouters DEF Internal
  <2>2. Controller(q, Nobody) = 200
    BY <1>2 DEF Controller
  <2>3. Respond(q) = IF q.spent THEN 429 ELSE 200
    BY <1>2, <2>1, <2>2 DEF Respond, Limited
  <2> QED
    BY <1>2, <2>3 DEF Promised
<1>3. CASE route = "lookupCustomer"
  <2>1. API[route].auth = FALSE /\ Internal(API[route])
    BY <1>3, GuardsOfRouters DEF Internal
  <2>2. Controller(q, Nobody) = 200
    BY <1>3 DEF Controller
  <2>3. Respond(q) = IF q.spent THEN 429 ELSE IF q.secret = "right" THEN 200 ELSE 401
    BY <1>3, <2>1, <2>2 DEF Respond, Limited
  <2> QED
    BY <1>3, <2>3 DEF Promised
<1>4. CASE route \notin {"login", "lookupCustomer"}
  <2> DEFINE user == authMiddleware(t)
             allowed == LetThrough(user, API[route].who)
  <2>1. /\ API[route].auth = TRUE
        /\ \A role \in AnyRole : role \in API[route].who <=> route \in MayUse(role)
        /\ "customer" \in API[route].who <=> route \in Matrix.customer
    BY <1>1, <1>4, RolesOfRoutes
  <2>2. ~ Internal(API[route]) /\ route \notin Limited
    BY <1>4, <2>1 DEF Internal, Limited
  <2>3. CASE ~ IsStaff(t) /\ ~ IsCustomer(t)
    <3>1. user = Nobody
      BY <1>1, <2>3, UserOfToken
    <3>2. Respond(q) = 401
      BY <2>1, <2>2, <3>1 DEF Respond
    <3>3. Promised(q) = 401
      BY <1>4, <2>3 DEF Promised
    <3> QED
      BY <3>2, <3>3
  <2>4. CASE IsStaff(t)
    <3>1. user = [type |-> "staff", role |-> t.role] /\ t.role \in AnyRole /\ ~ IsCustomer(t)
      BY <1>1, <2>4, UserOfToken
    <3>2. user # Nobody /\ user.type = "staff" /\ user.role = t.role
      BY <3>1 DEF Nobody
    <3>3. allowed <=> route \in MayUse(t.role)
      BY <2>1, <3>1, <3>2 DEF LetThrough
    <3>4. CASE ~ allowed
      <4>1. Respond(q) = 403
        BY <2>1, <2>2, <3>2, <3>4 DEF Respond
      <4>2. Promised(q) = 403
        BY <1>4, <2>4, <3>1, <3>3, <3>4 DEF Promised
      <4> QED
        BY <4>1, <4>2
    <3>5. CASE allowed
      <4>1. Respond(q) = Controller(q, user)
        BY <2>1, <2>2, <3>2, <3>5 DEF Respond
      <4>2. Controller(q, user) = IF route \in reads /\ q.order \notin DOMAIN OwnerOf THEN 404 ELSE 200
        BY <3>2 DEF Controller, NotOwner
      <4>3. Promised(q) = IF route \in reads /\ q.order \notin DOMAIN OwnerOf THEN 404 ELSE 200
        BY <1>4, <2>4, <3>1, <3>3, <3>5 DEF Promised
      <4> QED
        BY <4>1, <4>2, <4>3
    <3> QED
      BY <3>4, <3>5
  <2>5. CASE IsCustomer(t)
    <3>1. user = [type |-> "customer", sub |-> t.sub] /\ ~ IsStaff(t)
      BY <1>1, <2>5, UserOfToken
    <3>2. user # Nobody /\ user.type = "customer" /\ user.sub = t.sub
      BY <3>1 DEF Nobody
    <3>3. allowed <=> route \in Matrix.customer
      BY <2>1, <3>1, <3>2 DEF LetThrough
    <3>4. CASE ~ allowed
      <4>1. Respond(q) = 403
        BY <2>1, <2>2, <3>2, <3>4 DEF Respond
      <4>2. Promised(q) = 403
        BY <1>4, <2>5, <3>1, <3>3, <3>4 DEF Promised
      <4> QED
        BY <4>1, <4>2
    <3>5. CASE allowed
      <4>1. Respond(q) = Controller(q, user)
        BY <2>1, <2>2, <3>2, <3>5 DEF Respond
      <4>2. route \in {"getStatus", "getHistory"}
        BY <3>3, <3>5, TableByRoutes
      <4>3. Controller(q, user) = IF q.order \notin DOMAIN OwnerOf THEN 404
                                  ELSE IF OwnerOf[q.order] # t.sub THEN 403 ELSE 200
        BY <3>2, <4>2 DEF Controller, NotOwner
      <4>4. Promised(q) = IF q.order \notin DOMAIN OwnerOf THEN 404
                          ELSE IF OwnerOf[q.order] # t.sub THEN 403 ELSE 200
        BY <1>4, <2>5, <3>1, <3>3, <3>5, <4>2 DEF Promised
      <4> QED
        BY <4>1, <4>3, <4>4
    <3> QED
      BY <3>4, <3>5
  <2> QED
    BY <2>3, <2>4, <2>5
<1> QED
  BY <1>2, <1>3, <1>4

\* The same of the running system, for any customers, orders and clients.
THEOREM CallersCorrect == Spec => []CallersMeetTheMatrix
<1>1. CallersMeetTheMatrix
  BY MatrixIsKept DEF CallersMeetTheMatrix
<1> QED
  BY <1>1, PTL
-----------------------------------------------------------------------------
(* The check digits.                                                       *)

\* A set of numbers has a least member: the induction of the sums below.
LEMMA Least ==
    ASSUME NEW S \in SUBSET Nat, S # {}
    PROVE  \E n \in S : \A m \in S : n <= m
<1>1. PICK k \in S : TRUE
  OBVIOUS
<1> DEFINE F == {T \in SUBSET (1 .. k) : \E n \in S : n <= k /\ T = 1 .. n}
<1>2. IsFiniteSet(1 .. k)
  BY <1>1, FS_Interval
<1>3. 1 .. k \in F
  BY <1>1
<1>4. IsWellFoundedOn(StrictSubsetOrdering(1 .. k), FiniteSubsetsOf(1 .. k))
  BY <1>2, FS_StrictSubsetOrderingWellFounded
<1>5. F \subseteq FiniteSubsetsOf(1 .. k)
  BY <1>2, FS_FiniteSubsetsOfFinite
<1>6. PICK T \in F : \A U \in F : ~ (<<U, T>> \in StrictSubsetOrdering(1 .. k))
  <2> HIDE DEF F
  <2> QED
    BY <1>3, <1>4, <1>5, WFMin
<1>7. PICK n \in S : n <= k /\ T = 1 .. n
  BY <1>6
<1>8. ASSUME NEW m \in S, m < n PROVE FALSE
  <2>1. 1 .. m \in F
    BY <1>1, <1>7, <1>8
  <2>2. 1 .. m \subseteq T /\ n \in T /\ n \notin 1 .. m
    BY <1>7, <1>8
  <2> QED
    BY <1>6, <2>1, <2>2 DEF StrictSubsetOrdering
<1> QED
  BY <1>8

\* sum is the recursive function of WeightedSum over the first k digits.
IsSum(sum, digits, weights, k) ==
    sum = [n \in 0 .. k |-> IF n = 0 THEN 0 ELSE sum[n - 1] + digits[n] * weights[n]]

\* The recursive function exists.
LEMMA SumExists ==
    ASSUME NEW digits, NEW weights, NEW L \in Nat
    PROVE  \E sum : IsSum(sum, digits, weights, L)
<1> DEFINE B == {k \in Nat : ~ \E sum : IsSum(sum, digits, weights, k)}
<1> SUFFICES ASSUME B # {} PROVE FALSE
  OBVIOUS
<1>1. PICK k \in B : \A m \in B : k <= m
  <2>1. B \in SUBSET Nat
    OBVIOUS
  <2> HIDE DEF B
  <2> QED
    BY <2>1, Least
<1>2. CASE k = 0
  <2>1. IsSum([n \in 0 .. 0 |-> 0], digits, weights, 0)
    BY DEF IsSum
  <2> QED
    BY <1>1, <1>2, <2>1
<1>3. CASE k # 0
  <2>1. k - 1 \in Nat /\ k - 1 \notin B
    BY <1>1, <1>3
  <2>2. PICK f : IsSum(f, digits, weights, k - 1)
    BY <2>1
  <2> DEFINE g == [n \in 0 .. k |-> IF n = k THEN f[k - 1] + digits[k] * weights[k] ELSE f[n]]
  <2>3. \A n \in 0 .. k - 1 : g[n] = f[n]
    BY <1>1
  <2>4. \A n \in 0 .. k : g[n] = IF n = 0 THEN 0 ELSE g[n - 1] + digits[n] * weights[n]
    <3> TAKE n \in 0 .. k
    <3>1. CASE n = k
      BY <1>3, <2>1, <2>3, <3>1
    <3>2. CASE n # k
      <4>1. n \in 0 .. k - 1 /\ g[n] = f[n]
        BY <1>1, <2>3, <3>2
      <4>2. f[n] = IF n = 0 THEN 0 ELSE f[n - 1] + digits[n] * weights[n]
        BY <2>2, <4>1 DEF IsSum
      <4>3. n # 0 => n - 1 \in 0 .. k - 1 /\ g[n - 1] = f[n - 1]
        BY <2>3, <4>1
      <4> HIDE DEF g
      <4> QED
        BY <4>1, <4>2, <4>3
    <3> QED
      BY <3>1, <3>2
  <2>5. IsSum(g, digits, weights, k)
    <3>1. g = [n \in 0 .. k |-> g[n]]
      OBVIOUS
    <3> HIDE DEF g
    <3> QED
      BY <2>4, <3>1 DEF IsSum
  <2> QED
    BY <1>1, <2>5
<1> QED
  BY <1>1, <1>2, <1>3

\* The sum, as the loop makes it: digit after digit.
LEMMA SumOfLoop ==
    ASSUME NEW digits, NEW weights, Len(weights) \in Nat
    PROVE  \E sum : /\ sum[0] = 0 /\ WeightedSum(digits, weights) = sum[Len(weights)]
                    /\ \A n \in 1 .. Len(weights) : sum[n] = sum[n - 1] + digits[n] * weights[n]
<1> DEFINE L == Len(weights)
           sum == CHOOSE f : IsSum(f, digits, weights, L)
<1>1. IsSum(sum, digits, weights, L)
  BY SumExists
<1>2. WeightedSum(digits, weights) = sum[L]
  BY DEF WeightedSum, IsSum
<1> HIDE DEF sum
<1>3. sum[0] = 0 /\ \A n \in 1 .. L : sum[n] = sum[n - 1] + digits[n] * weights[n]
  BY <1>1 DEF IsSum
<1> QED
  BY <1>2, <1>3

\* The four sums of the code, unrolled.
LEMMA SumOfNine ==
    ASSUME NEW d, \A i \in 1 .. 9 : d[i] \in Nat
    PROVE  WeightedSum(d, factors(9)) =
              10 * d[1] + 9 * d[2] + 8 * d[3] + 7 * d[4] + 6 * d[5] + 5 * d[6] + 4 * d[7]
              + 3 * d[8] + 2 * d[9]
<1> DEFINE w == factors(9)
<1>1. /\ Len(w) = 9
      /\ w[1] = 10 /\ w[2] = 9 /\ w[3] = 8 /\ w[4] = 7 /\ w[5] = 6 /\ w[6] = 5 /\ w[7] = 4
      /\ w[8] = 3 /\ w[9] = 2
  BY DEF factors
<1> HIDE DEF w
<1>2. PICK sum : /\ sum[0] = 0 /\ WeightedSum(d, w) = sum[Len(w)]
                 /\ \A n \in 1 .. Len(w) : sum[n] = sum[n - 1] + d[n] * w[n]
  <2>1. Len(w) \in Nat
    BY <1>1
  <2> QED
    BY <2>1, SumOfLoop, Zenon
<1>3. /\ sum[1] = sum[0] + 10 * d[1] /\ sum[2] = sum[1] + 9 * d[2] /\ sum[3] = sum[2] + 8 * d[3]
      /\ sum[4] = sum[3] + 7 * d[4] /\ sum[5] = sum[4] + 6 * d[5] /\ sum[6] = sum[5] + 5 * d[6]
      /\ sum[7] = sum[6] + 4 * d[7] /\ sum[8] = sum[7] + 3 * d[8] /\ sum[9] = sum[8] + 2 * d[9]
  BY <1>1, <1>2
<1>4. WeightedSum(d, w) = sum[9] /\ sum[0] = 0
  BY <1>1, <1>2
<1> QED
  BY <1>3, <1>4 DEF w

LEMMA SumOfTen ==
    ASSUME NEW d, \A i \in 1 .. 10 : d[i] \in Nat
    PROVE  WeightedSum(d, factors(10)) =
              11 * d[1] + 10 * d[2] + 9 * d[3] + 8 * d[4] + 7 * d[5] + 6 * d[6] + 5 * d[7]
              + 4 * d[8] + 3 * d[9] + 2 * d[10]
<1> DEFINE w == factors(10)
<1>1. /\ Len(w) = 10
      /\ w[1] = 11 /\ w[2] = 10 /\ w[3] = 9 /\ w[4] = 8 /\ w[5] = 7 /\ w[6] = 6 /\ w[7] = 5
      /\ w[8] = 4 /\ w[9] = 3 /\ w[10] = 2
  BY DEF factors
<1> HIDE DEF w
<1>2. PICK sum : /\ sum[0] = 0 /\ WeightedSum(d, w) = sum[Len(w)]
                 /\ \A n \in 1 .. Len(w) : sum[n] = sum[n - 1] + d[n] * w[n]
  <2>1. Len(w) \in Nat
    BY <1>1
  <2> QED
    BY <2>1, SumOfLoop, Zenon
<1>3. /\ sum[1] = sum[0] + 11 * d[1] /\ sum[2] = sum[1] + 10 * d[2] /\ sum[3] = sum[2] + 9 * d[3]
      /\ sum[4] = sum[3] + 8 * d[4] /\ sum[5] = sum[4] + 7 * d[5] /\ sum[6] = sum[5] + 6 * d[6]
      /\ sum[7] = sum[6] + 5 * d[7] /\ sum[8] = sum[7] + 4 * d[8] /\ sum[9] = sum[8] + 3 * d[9]
      /\ sum[10] = sum[9] + 2 * d[10]
  BY <1>1, <1>2
<1>4. WeightedSum(d, w) = sum[10] /\ sum[0] = 0
  BY <1>1, <1>2
<1> QED
  BY <1>3, <1>4 DEF w

LEMMA SumOfTwelve ==
    ASSUME NEW d, \A i \in 1 .. 12 : d[i] \in Nat
    PROVE  WeightedSum(d, w1) =
              5 * d[1] + 4 * d[2] + 3 * d[3] + 2 * d[4] + 9 * d[5] + 8 * d[6] + 7 * d[7]
              + 6 * d[8] + 5 * d[9] + 4 * d[10] + 3 * d[11] + 2 * d[12]
<1> DEFINE w == w1
<1>1. /\ Len(w) = 12
      /\ w[1] = 5 /\ w[2] = 4 /\ w[3] = 3 /\ w[4] = 2 /\ w[5] = 9 /\ w[6] = 8 /\ w[7] = 7
      /\ w[8] = 6 /\ w[9] = 5 /\ w[10] = 4 /\ w[11] = 3 /\ w[12] = 2
  BY DEF w1
<1> HIDE DEF w
<1>2. PICK sum : /\ sum[0] = 0 /\ WeightedSum(d, w) = sum[Len(w)]
                 /\ \A n \in 1 .. Len(w) : sum[n] = sum[n - 1] + d[n] * w[n]
  <2>1. Len(w) \in Nat
    BY <1>1
  <2> QED
    BY <2>1, SumOfLoop, Zenon
<1>3. /\ sum[1] = sum[0] + 5 * d[1] /\ sum[2] = sum[1] + 4 * d[2] /\ sum[3] = sum[2] + 3 * d[3]
      /\ sum[4] = sum[3] + 2 * d[4] /\ sum[5] = sum[4] + 9 * d[5] /\ sum[6] = sum[5] + 8 * d[6]
      /\ sum[7] = sum[6] + 7 * d[7] /\ sum[8] = sum[7] + 6 * d[8] /\ sum[9] = sum[8] + 5 * d[9]
      /\ sum[10] = sum[9] + 4 * d[10] /\ sum[11] = sum[10] + 3 * d[11] /\ sum[12] = sum[11] + 2 * d[12]
  BY <1>1, <1>2
<1>4. WeightedSum(d, w) = sum[12] /\ sum[0] = 0
  BY <1>1, <1>2
<1> QED
  BY <1>3, <1>4 DEF w

LEMMA SumOfThirteen ==
    ASSUME NEW d, \A i \in 1 .. 13 : d[i] \in Nat
    PROVE  WeightedSum(d, w2) =
              6 * d[1] + 5 * d[2] + 4 * d[3] + 3 * d[4] + 2 * d[5] + 9 * d[6] + 8 * d[7]
              + 7 * d[8] + 6 * d[9] + 5 * d[10] + 4 * d[11] + 3 * d[12] + 2 * d[13]
<1> DEFINE w == w2
<1>1. /\ Len(w) = 13
      /\ w[1] = 6 /\ w[2] = 5 /\ w[3] = 4 /\ w[4] = 3 /\ w[5] = 2 /\ w[6] = 9 /\ w[7] = 8
      /\ w[8] = 7 /\ w[9] = 6 /\ w[10] = 5 /\ w[11] = 4 /\ w[12] = 3 /\ w[13] = 2
  BY DEF w1, w2
<1> HIDE DEF w
<1>2. PICK sum : /\ sum[0] = 0 /\ WeightedSum(d, w) = sum[Len(w)]
                 /\ \A n \in 1 .. Len(w) : sum[n] = sum[n - 1] + d[n] * w[n]
  <2>1. Len(w) \in Nat
    BY <1>1
  <2> QED
    BY <2>1, SumOfLoop, Zenon
<1>3. /\ sum[1] = sum[0] + 6 * d[1] /\ sum[2] = sum[1] + 5 * d[2] /\ sum[3] = sum[2] + 4 * d[3]
      /\ sum[4] = sum[3] + 3 * d[4] /\ sum[5] = sum[4] + 2 * d[5] /\ sum[6] = sum[5] + 9 * d[6]
      /\ sum[7] = sum[6] + 8 * d[7] /\ sum[8] = sum[7] + 7 * d[8] /\ sum[9] = sum[8] + 6 * d[9]
      /\ sum[10] = sum[9] + 5 * d[10] /\ sum[11] = sum[10] + 4 * d[11] /\ sum[12] = sum[11] + 3 * d[12]
      /\ sum[13] = sum[12] + 2 * d[13]
  BY <1>1, <1>2
<1>4. WeightedSum(d, w) = sum[13] /\ sum[0] = 0
  BY <1>1, <1>2
<1> QED
  BY <1>3, <1>4 DEF w

\* A document: the base, and two digits behind it.
IsDocument(digits, n, base, d, e) ==
    /\ Len(digits) = n + 2
    /\ \A i \in 1 .. n : digits[i] = base[i]
    /\ digits[n + 1] = d /\ digits[n + 2] = e
    /\ AllTheSame(digits) <=> AllTheSame(base) /\ d = base[1] /\ e = base[1]

LEMMA Joined ==
    ASSUME NEW n \in Nat \ {0}, NEW base \in [1 .. n -> 0 .. 9], NEW d \in 0 .. 9, NEW e \in 0 .. 9
    PROVE  IsDocument(base \o <<d, e>>, n, base, d, e)
<1> DEFINE digits == base \o <<d, e>>
<1>1. base \in Seq(0 .. 9) /\ Len(base) = n /\ <<d, e>> \in Seq(0 .. 9) /\ Len(<<d, e>>) = 2
  OBVIOUS
<1>2. /\ Len(digits) = n + 2 /\ DOMAIN digits = 1 .. n + 2 /\ \A i \in 1 .. n : digits[i] = base[i]
      /\ digits[n + 1] = d /\ digits[n + 2] = e
  BY <1>1
<1> HIDE DEF digits
<1>3. AllTheSame(digits) <=> AllTheSame(base) /\ d = base[1] /\ e = base[1]
  BY <1>2 DEF AllTheSame
<1> QED
  BY <1>2, <1>3 DEF digits, IsDocument

\* Which pairs complete a base, said of the two digits.
LEMMA NoPair ==
    ASSUME NEW base, NEW type,
           \A d, e \in 0 .. 9 : ~ validateTaxId(base \o <<d, e>>, type)
    PROVE  WithDigits(base, type) = {}
<1>1. \A pair \in CheckDigits : \E d, e \in 0 .. 9 : pair = <<d, e>>
  BY DEF CheckDigits
<1> QED
  BY <1>1, Zenon DEF WithDigits

Completes(base, type, f, g) ==
    \A d, e \in 0 .. 9 : validateTaxId(base \o <<d, e>>, type) <=> d = f /\ e = g

LEMMA OnePair ==
    ASSUME NEW base, NEW type, NEW f \in 0 .. 9, NEW g \in 0 .. 9, Completes(base, type, f, g)
    PROVE  WithDigits(base, type) = {<<f, g>>}
<1>1. \A pair \in CheckDigits : \E d, e \in 0 .. 9 : pair = <<d, e>>
  BY DEF CheckDigits
<1>2. \A pair \in WithDigits(base, type) : pair = <<f, g>>
  BY <1>1, Zenon DEF WithDigits, Completes
<1>3. <<f, g>> \in CheckDigits
  BY DEF CheckDigits
<1>4. <<f, g>> \in WithDigits(base, type)
  BY <1>3, Zenon DEF WithDigits, Completes
<1> QED
  BY <1>2, <1>4

\* The digits of a CPF depend on the base alone; with one repeated digit they
\* repeat it, and the code refuses what is all the same.
LEMMA OneCPF ==
    ASSUME NEW base \in [1 .. 9 -> 0 .. 9]
    PROVE  Cardinality(WithDigits(base, "CPF")) = IF AllTheSame(base) THEN 0 ELSE 1
<1> DEFINE b(i) == base[i]
           r == 10 * b(1) + 9 * b(2) + 8 * b(3) + 7 * b(4) + 6 * b(5) + 5 * b(6) + 4 * b(7)
                + 3 * b(8) + 2 * b(9)
           f == cpfDigit(r)
           s == 11 * b(1) + 10 * b(2) + 9 * b(3) + 8 * b(4) + 7 * b(5) + 6 * b(6) + 5 * b(7)
                + 4 * b(8) + 3 * b(9) + 2 * f
           g == cpfDigit(s)
<1>1. \A i \in 1 .. 9 : b(i) \in 0 .. 9
  OBVIOUS
<1> HIDE DEF b
<1>2. /\ b(1) \in Nat /\ b(2) \in Nat /\ b(3) \in Nat /\ b(4) \in Nat /\ b(5) \in Nat
      /\ b(6) \in Nat /\ b(7) \in Nat /\ b(8) \in Nat /\ b(9) \in Nat
  BY <1>1
<1>3. f \in 0 .. 9
  <2>1. r \in Nat
    BY <1>2
  <2> HIDE DEF r
  <2> QED
    BY <2>1, DigitRulesAgree
<1>4. g \in 0 .. 9
  <2> HIDE DEF f
  <2>1. s \in Nat
    BY <1>2, <1>3
  <2> HIDE DEF s
  <2> QED
    BY <2>1, DigitRulesAgree
<1> HIDE DEF r, f, s, g
<1>5. ASSUME NEW d \in 0 .. 9, NEW e \in 0 .. 9
      PROVE  validateTaxId(base \o <<d, e>>, "CPF") <=>
                ~ (AllTheSame(base) /\ d = b(1) /\ e = b(1)) /\ d = f /\ e = g
  <2> DEFINE digits == base \o <<d, e>>
  <2>1. /\ Len(digits) = 11 /\ \A i \in 1 .. 9 : digits[i] = b(i)
        /\ digits[10] = d /\ digits[11] = e
        /\ AllTheSame(digits) <=> AllTheSame(base) /\ d = b(1) /\ e = b(1)
    <3> DEFINE n == 9
    <3>1. n \in Nat \ {0}
      OBVIOUS
    <3>2. base \in [1 .. n -> 0 .. 9]
      OBVIOUS
    <3> HIDE DEF n
    <3>3. IsDocument(digits, n, base, d, e)
      BY <3>1, <3>2, Joined
    <3> QED
      BY <3>3 DEF n, b, IsDocument
  <2> HIDE DEF digits
  <2>2. \A i \in 1 .. 10 : digits[i] \in Nat
    BY <1>1, <2>1
  <2>3. cpfDigit(WeightedSum(digits, factors(9))) = f
    BY <2>1, <2>2, SumOfNine DEF f, r
  <2>4. d = f => cpfDigit(WeightedSum(digits, factors(10))) = g
    BY <2>1, <2>2, SumOfTen DEF g, s
  <2>5. validateTaxId(digits, "CPF") <=> validateCPF(digits)
    BY DEF validateTaxId
  <2> QED
    BY <2>1, <2>3, <2>4, <2>5 DEF validateCPF, digits
<1>6. CASE AllTheSame(base)
  <2>1. \A i \in 1 .. 9 : b(i) = b(1)
    BY <1>6 DEF AllTheSame, b
  <2>2. f = cpfDigit(54 * b(1))
    BY <1>2, <2>1 DEF f, r
  <2>3. f = b(1)
    BY <1>1, <2>2 DEF cpfDigit
  <2>4. g = cpfDigit(65 * b(1))
    BY <1>2, <2>1, <2>3 DEF g, s
  <2>5. g = b(1)
    BY <1>1, <2>4 DEF cpfDigit
  <2>6. WithDigits(base, "CPF") = {}
    BY <1>5, <1>6, <2>3, <2>5, NoPair
  <2> QED
    BY <1>6, <2>6, FS_EmptySet
<1>7. CASE ~ AllTheSame(base)
  <2>1. WithDigits(base, "CPF") = {<<f, g>>}
    <3>1. Completes(base, "CPF", f, g)
      BY <1>5, <1>7 DEF Completes
    <3>2. \A x, y \in 0 .. 9 :
             Completes(base, "CPF", x, y) => WithDigits(base, "CPF") = {<<x, y>>}
      BY OnePair
    <3> QED
      BY <1>3, <1>4, <3>1, <3>2
  <2> QED
    BY <1>7, <2>1, FS_Singleton
<1> QED
  BY <1>6, <1>7

\* The same of a CNPJ: of the repeated digits only the zero comes back.
LEMMA OneCNPJ ==
    ASSUME NEW base \in [1 .. 12 -> 0 .. 9]
    PROVE  Cardinality(WithDigits(base, "CNPJ")) =
              IF \A i \in DOMAIN base : base[i] = 0 THEN 0 ELSE 1
<1> DEFINE b(i) == base[i]
           r == 5 * b(1) + 4 * b(2) + 3 * b(3) + 2 * b(4) + 9 * b(5) + 8 * b(6) + 7 * b(7)
                + 6 * b(8) + 5 * b(9) + 4 * b(10) + 3 * b(11) + 2 * b(12)
           f == cnpjDigit(r)
           s == 6 * b(1) + 5 * b(2) + 4 * b(3) + 3 * b(4) + 2 * b(5) + 9 * b(6) + 8 * b(7)
                + 7 * b(8) + 6 * b(9) + 5 * b(10) + 4 * b(11) + 3 * b(12) + 2 * f
           g == cnpjDigit(s)
<1>1. \A i \in 1 .. 12 : b(i) \in 0 .. 9
  OBVIOUS
<1> HIDE DEF b
<1>2. /\ b(1) \in Nat /\ b(2) \in Nat /\ b(3) \in Nat /\ b(4) \in Nat /\ b(5) \in Nat
      /\ b(6) \in Nat /\ b(7) \in Nat /\ b(8) \in Nat /\ b(9) \in Nat /\ b(10) \in Nat /\ b(11) \in Nat /\ b(12) \in Nat
  BY <1>1
<1>3. f \in 0 .. 9
  <2>1. 5 * b(1) + 4 * b(2) + 3 * b(3) + 2 * b(4) + 9 * b(5) + 8 * b(6) + 7 * b(7) \in Nat
    BY <1>2
  <2>2. r \in Nat
    BY <1>2, <2>1
  <2> HIDE DEF r
  <2> QED
    BY <2>2, DigitRulesAgree
<1>4. g \in 0 .. 9
  <2> HIDE DEF f
  <2>1. 6 * b(1) + 5 * b(2) + 4 * b(3) + 3 * b(4) + 2 * b(5) + 9 * b(6) + 8 * b(7) \in Nat
    BY <1>2
  <2>2. s \in Nat
    BY <1>2, <1>3, <2>1
  <2> HIDE DEF s
  <2> QED
    BY <2>2, DigitRulesAgree
<1> HIDE DEF r, f, s, g
<1>5. ASSUME NEW d \in 0 .. 9, NEW e \in 0 .. 9
      PROVE  validateTaxId(base \o <<d, e>>, "CNPJ") <=>
                ~ (AllTheSame(base) /\ d = b(1) /\ e = b(1)) /\ d = f /\ e = g
  <2> DEFINE digits == base \o <<d, e>>
  <2>1. /\ Len(digits) = 14 /\ \A i \in 1 .. 12 : digits[i] = b(i)
        /\ digits[13] = d /\ digits[14] = e
        /\ AllTheSame(digits) <=> AllTheSame(base) /\ d = b(1) /\ e = b(1)
    <3> DEFINE n == 12
    <3>1. n \in Nat \ {0}
      OBVIOUS
    <3>2. base \in [1 .. n -> 0 .. 9]
      OBVIOUS
    <3> HIDE DEF n
    <3>3. IsDocument(digits, n, base, d, e)
      BY <3>1, <3>2, Joined
    <3> QED
      BY <3>3 DEF n, b, IsDocument
  <2> HIDE DEF digits
  <2>2. \A i \in 1 .. 13 : digits[i] \in Nat
    BY <1>1, <2>1
  <2>3. cnpjDigit(WeightedSum(digits, w1)) = f
    BY <2>1, <2>2, SumOfTwelve DEF f, r
  <2>4. d = f => cnpjDigit(WeightedSum(digits, w2)) = g
    BY <2>1, <2>2, SumOfThirteen DEF g, s
  <2>5. validateTaxId(digits, "CNPJ") <=> validateCNPJ(digits)
    BY DEF validateTaxId
  <2> QED
    BY <2>1, <2>3, <2>4, <2>5 DEF validateCNPJ, digits
<1>6. CASE \A i \in DOMAIN base : base[i] = 0
  <2>1. AllTheSame(base) /\ \A i \in 1 .. 12 : b(i) = 0
    BY <1>6 DEF AllTheSame, b
  <2>2. f = 0
    BY <2>1 DEF cnpjDigit, f, r
  <2>3. g = 0
    BY <2>1, <2>2 DEF cnpjDigit, g, s
  <2>4. WithDigits(base, "CNPJ") = {}
    <3>1. \A d, e \in 0 .. 9 : ~ validateTaxId(base \o <<d, e>>, "CNPJ")
      <4>1. b(1) = 0
        BY <2>1
      <4> QED
        BY <1>5, <2>1, <2>2, <2>3, <4>1
    <3> QED
      BY <3>1, NoPair, Zenon
  <2> QED
    BY <1>6, <2>4, FS_EmptySet
<1>7. CASE ~ \A i \in DOMAIN base : base[i] = 0
  <2>1. ~ (AllTheSame(base) /\ f = b(1))
    <3> SUFFICES ASSUME AllTheSame(base), f = b(1) PROVE FALSE
      OBVIOUS
    <3>1. \A i \in 1 .. 12 : b(i) = b(1)
      BY DEF AllTheSame, b
    <3>2. f = cnpjDigit(58 * b(1))
      BY <1>2, <3>1 DEF f, r
    <3>3. b(1) # 0
      BY <1>7, <3>1 DEF b
    <3> QED
      BY <1>1, <3>2, <3>3 DEF cnpjDigit
  <2>2. WithDigits(base, "CNPJ") = {<<f, g>>}
    <3>1. Completes(base, "CNPJ", f, g)
      BY <1>5, <2>1 DEF Completes
    <3>2. \A x, y \in 0 .. 9 :
             Completes(base, "CNPJ", x, y) => WithDigits(base, "CNPJ") = {<<x, y>>}
      BY OnePair
    <3> QED
      BY <1>3, <1>4, <3>1, <3>2
  <2> QED
    BY <1>7, <2>2, FS_Singleton
<1> QED
  BY <1>6, <1>7

\* Whatever the digits of a base, it has one document, but for the bases that the
\* code refuses: two remainders share the digit 0, and none is left without one.
THEOREM DocumentsAreOne == EveryBaseHasOneDocument
<1>1. \A n \in Nat : Bases(n) \subseteq [1 .. n -> 0 .. 9]
  BY DocumentsAssumption DEF Bases
<1> QED
  BY <1>1, OneCPF, OneCNPJ DEF EveryBaseHasOneDocument

\* The same of the running system.
THEOREM CheckDigitsCorrect == Spec => []CheckDigitsAreUnique
<1>1. CheckDigitsAreUnique
  BY DocumentsAreOne DEF CheckDigitsAreUnique
<1> QED
  BY <1>1, PTL
=============================================================================
