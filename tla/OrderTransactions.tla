------------------------- MODULE OrderTransactions -------------------------
(***************************************************************************)
(* The units of work of ServiceOrderSaga taken statement by statement.     *)
(* Sessions run them at the same time in PostgreSQL at READ COMMITTED, the *)
(* isolation Prisma leaves in place: a session reads what is committed,    *)
(* its own writes show only at its commit, an updated row stays locked     *)
(* until then, and an inserted message id keeps the same id waiting.       *)
(*                                                                         *)
(* The variables shared with ServiceOrderSaga are the committed tables.    *)
(* The version column is kept as the question asked of it: `stale` are the *)
(* sessions whose order was written by another since they read it.  The    *)
(* claim of the version and the rest of update() are one step, the commit: *)
(* the row lock lets nobody else touch the order in between.  A unit of    *)
(* work that throws, crashes, runs out of its five seconds or is chosen as *)
(* the victim of a deadlock ends in Abort.                                 *)
(***************************************************************************)
EXTENDS ServiceOrderStateMachine, Integers, FiniteSetsExt

CONSTANTS
    Session,      \* connections of the pool, over all replicas
    OrderId, ItemId, Quantity, StockLevel,   \* as in ServiceOrderSaga
    Message,      \* replies and dead commands: [kind, type, order]
    StaffRequest  \* requests: [kind, order] and what the kind needs

\* An order is opened under an identifier of its own, and 0 is a part left out.
\* Of the other quantities of a body only Int is known.
ASSUME OperationAssumption ==
    /\ Quantity \subseteq Int
    /\ StockLevel \subseteq Nat
    /\ \A m \in Message :
          /\ m.kind \in {"reply", "dead"} /\ m.order \in OrderId
          /\ m.type \in IF m.kind = "reply" THEN SagaReplyType ELSE SagaCommandType
    /\ \A op \in StaffRequest :
          /\ op.kind \in {"create", "add", "remove", "deliver"} /\ op.order \in OrderId
          /\ op.kind = "create" => op.lines \in [ItemId -> Quantity \cup {0}]
          /\ op.kind \in {"add", "remove"} => op.item \in ItemId
          /\ op.kind = "add" => op.quantity \in Int
    /\ \A a, b \in StaffRequest : a.kind = "create" /\ b.kind = "create" /\ a.order = b.order => a = b

VARIABLES
    status, items, budgetTotal, history, stock, reserved, outbox, processed,
    tx,           \* the unit of work each session is in
    stale         \* sessions whose order changed since they read it

tables == <<status, items, budgetTotal, history, stock, reserved, outbox, processed>>
vars == <<tables, tx, stale>>

Saga == INSTANCE ServiceOrderSaga WITH
    ServiceId <- {}, services <- [o \in OrderId |-> {}], MessageId <- Message,
    CustomerId <- OrderId, CustomerOf <- [o \in OrderId |-> o], customers <- OrderId

NoLines == [i \in ItemId |-> 0]

Idle == [at |-> "idle"]

\* A unit of work that has begun: the next statement, the operation, what it
\* read of the order and of a part, and its uncommitted rows of items.
Begun(op, at) == [at |-> at, op |-> op, status |-> "NONE", lines |-> NoLines,
                  reservedSeen |-> 0, rows |-> <<>>]

Busy(s) == tx[s] # Idle

UnitOfWork(rows) ==
    [at : {"read", "item", "write", "ignored"}, op : Message \cup StaffRequest,
     status : OSStatus \cup {"NONE"}, lines : Saga!Lines, reservedSeen : Nat, rows : {rows}]

TypeOK ==
    /\ Saga!TypeOK
    /\ stale \subseteq {s \in Session : Busy(s)}
    /\ DOMAIN tx = Session
    /\ \A s \in Session : Busy(s) =>
          LET rows == tx[s].rows IN
          /\ tx[s] \in UnitOfWork(rows)
          /\ DOMAIN rows \subseteq ItemId
          /\ \A i \in DOMAIN rows : rows[i] \in [stock : Nat, reserved : Nat]

Init ==
    /\ Saga!Init
    /\ tx = [s \in Session |-> Idle]
    /\ stale = {}

-----------------------------------------------------------------------------
(* What each operation does, as a function of what it read.                *)

IsMessage(op) == op.kind \in {"reply", "dead"}

Compensates(op) ==
    \/ op.kind = "reply" /\ op.type \in {"BudgetRejected", "PaymentFailed"}
    \/ op.kind = "dead" /\ op.type \in Compensable

\* Confirmations of a compensation and reports write nothing but their id.
WritesOrder(op) ==
    ~ \/ op.kind = "reply" /\ op.type \in {"ExecutionCancelled", "BudgetCancelled"}
      \/ op.kind = "dead" /\ op.type \notin Compensable

\* The two edits are the writers that pass no expectedVersion to update().
VersionChecked(op) == WritesOrder(op) /\ op.kind \notin {"create", "add", "remove"}

ExpectedStatus(op) ==
    CASE op.kind = "reply"   -> EXPECTED_STATUS(op.type)
      [] op.kind = "dead"    -> ExpectedOfFailed(op.type)
      [] op.kind = "deliver" -> {s \in OSStatus : canTransition(s, "DELIVERED")}
      [] OTHER               -> {"DIAGNOSIS"}

\* The status an operation writes, the present one when it writes none.
NewStatus(op, from) ==
    CASE op.kind = "create"  -> "RECEIVED"
      [] op.kind = "deliver" -> "DELIVERED"
      [] op.kind = "dead" /\ op.type \in Compensable -> "CANCELLED"
      [] op.kind = "reply" /\ op.type \in DOMAIN Saga!Target -> Saga!Target[op.type]
      [] OTHER -> from

Commands(op, lines) ==
    CASE op.kind = "create" -> <<Saga!Cmd("EnqueueDiagnosis")>>
      [] op.kind = "dead" /\ op.type \in Compensable -> Saga!CancelCommands(op.type)
      [] op.kind = "reply" /\ op.type = "DiagnosisCompleted" ->
            <<[Saga!Cmd("GenerateBudget") EXCEPT !.items = lines]>>
      [] op.kind = "reply" /\ op.type = "BudgetApproved" -> <<Saga!Cmd("RequestPayment")>>
      [] op.kind = "reply" /\ op.type = "BudgetRejected" -> <<Saga!Cmd("CancelExecution")>>
      [] op.kind = "reply" /\ op.type = "PaymentConfirmed" -> <<Saga!Cmd("EnqueueRepair")>>
      [] op.kind = "reply" /\ op.type = "PaymentFailed" ->
            <<Saga!Cmd("CancelExecution"), Saga!Cmd("CancelBudget")>>
      [] OTHER -> <<>>

\* The lines written back, whole: computed from the lines that were read.
LinesAfter(t) ==
    CASE t.op.kind = "create" -> t.op.lines
      [] t.op.kind = "add"    -> [t.lines EXCEPT ![t.op.item] = @ + t.op.quantity]
      [] t.op.kind = "remove" -> [t.lines EXCEPT ![t.op.item] = 0]
      [] OTHER                -> items[t.op.order]

\* What an operation does to the rows of items: the statements reserve, release
\* and consume, or the absolute write of RemoveItem.
PartsEffect(op) ==
    CASE op.kind \in {"create", "add"} -> "reserve"
      [] op.kind = "remove"            -> "overwrite"
      [] Compensates(op)               -> "release"
      [] op.kind = "reply" /\ op.type = "PaymentConfirmed" -> "consume"
      [] OTHER                         -> "none"

Amount(t, i) ==
    CASE t.op.kind = "create" -> t.op.lines[i]
      [] t.op.kind = "add"    -> t.op.quantity
      [] OTHER                -> t.lines[i]

\* The rows of items to update before the commit.
Touched(t) ==
    CASE PartsEffect(t.op) = "none" -> {}
      [] t.op.kind \in {"add", "remove"} -> {t.op.item}
      [] OTHER -> {i \in ItemId : Amount(t, i) # 0}

\* The WHERE of the UPDATE, evaluated on the committed row once it is locked.
RowFound(t, i) ==
    CASE PartsEffect(t.op) = "reserve" -> Amount(t, i) <= stock[i] - reserved[i]
      [] PartsEffect(t.op) = "release" -> Amount(t, i) <= reserved[i]
      [] PartsEffect(t.op) = "consume" -> Amount(t, i) <= reserved[i] /\ Amount(t, i) <= stock[i]
      [] OTHER -> TRUE

\* The row the UPDATE leaves.
RowAfter(t, i) ==
    [stock    |-> IF PartsEffect(t.op) = "consume" THEN stock[i] - Amount(t, i) ELSE stock[i],
     reserved |-> CASE PartsEffect(t.op) = "reserve"   -> reserved[i] + Amount(t, i)
                    [] PartsEffect(t.op) = "overwrite" -> t.reservedSeen - Amount(t, i)
                    [] OTHER                           -> reserved[i] - Amount(t, i)]

\* A slip: the migration leaves the CHECK constraints of items out.
RowCheck_Missing(row) == TRUE

\* The CHECK constraints of items.
RowCheck(row) == 0 <= row.reserved /\ row.reserved <= row.stock

-----------------------------------------------------------------------------
(* The statements.                                                         *)

Step(s, t) == tx' = [tx EXCEPT ![s] = t]

\* Each participant's dead commands have a queue and a poller of their own.
QueueOf(m) == IF m.kind = "dead" THEN Destination(m.type) ELSE "saga-replies"

\* The queues keep the messages of an order in order: while one is being
\* handled, no other of the same queue is delivered. The message itself may be,
\* to another replica, when it outlives its visibility timeout.
NextInQueue(m) ==
    \A u \in {v \in Session : Busy(v) /\ IsMessage(tx[v].op)} :
        QueueOf(tx[u].op) = QueueOf(m) /\ tx[u].op.order = m.order => tx[u].op = m

\* The command a reply answers. A participant says nothing it was not asked.
Answered(reply) ==
    CASE reply \in {"DiagnosisStarted", "DiagnosisCompleted"} -> "EnqueueDiagnosis"
      [] reply \in {"BudgetGenerated", "BudgetApproved", "BudgetRejected"} -> "GenerateBudget"
      [] reply \in {"PaymentConfirmed", "PaymentFailed"}      -> "RequestPayment"
      [] reply \in {"RepairStarted", "RepairCompleted"}       -> "EnqueueRepair"
      [] reply = "ExecutionCancelled" -> "CancelExecution"
      [] reply = "BudgetCancelled"    -> "CancelBudget"

Deliverable(m) ==
    (IF m.kind = "dead" THEN m.type ELSE Answered(m.type)) \in Saga!Sent(m.order)

\* BEGIN and markProcessed: the insert waits while another session holds the
\* same id, and finds a conflict once it is committed (process() then returns
\* 'duplicate' and nothing changes).
RecordMessage(s, m) ==
    /\ ~ Busy(s)
    /\ Deliverable(m) /\ NextInQueue(m)
    /\ m \notin processed
    /\ \A u \in Session : Busy(u) => tx[u].op # m
    /\ Step(s, Begun(m, "read"))
    /\ UNCHANGED <<tables, stale>>

\* An insert has nothing to read; any other request reads its order first.
BeginRequest(s, op) ==
    /\ ~ Busy(s)
    /\ IF op.kind = "create"
       THEN /\ status[op.order] = "NONE"
            /\ \A u \in Session : Busy(u) => tx[u].op # op
            /\ Step(s, Begun(op, "write"))
       ELSE /\ status[op.order] # "NONE"
            /\ Step(s, Begun(op, "read"))
    /\ UNCHANGED <<tables, stale>>

\* findById. A message that finds another status is dropped; a request throws.
ReadOrder(s) ==
    LET t == tx[s]
        o == t.op.order
        expected == status[o] \in ExpectedStatus(t.op)
    IN
    /\ t.at = "read"
    /\ IsMessage(t.op) \/ expected
    /\ t.op.kind = "remove" => items[o][t.op.item] > 0
    /\ Step(s, [t EXCEPT !.at = CASE ~ expected -> "ignored"
                                  [] t.op.kind = "remove" -> "item"
                                  [] OTHER -> "write",
                         !.status = status[o], !.lines = items[o]])
    /\ stale' = stale \ {s}
    /\ UNCHANGED tables

\* items.findById in RemoveItem, which takes no lock.
ReadItem(s) ==
    /\ tx[s].at = "item"
    /\ Step(s, [tx[s] EXCEPT !.at = "write", !.reservedSeen = reserved[tx[s].op.item]])
    /\ UNCHANGED <<tables, stale>>

Locked(i) == \E u \in Session : Busy(u) /\ i \in DOMAIN tx[u].rows

\* A slip: the statement reads and writes the row without locking it.
WriteItem_Unlocked(s, i) ==
    LET t == tx[s] IN
    /\ t.at = "write"
    /\ i \in Touched(t) \ DOMAIN t.rows
    /\ RowFound(t, i) /\ RowCheck(RowAfter(t, i))
    /\ Step(s, [t EXCEPT !.rows = [j \in DOMAIN @ \cup {i} |->
                                      IF j = i THEN RowAfter(t, i) ELSE @[j]]])
    /\ UNCHANGED <<tables, stale>>

\* One UPDATE of items: it waits for the row, then evaluates its WHERE, and the
\* CHECKs, on what is committed by then.
WriteItem(s, i) ==
    LET t == tx[s] IN
    /\ t.at = "write"
    /\ i \in Touched(t) /\ ~ Locked(i)
    /\ RowFound(t, i) /\ RowCheck(RowAfter(t, i))
    /\ Step(s, [t EXCEPT !.rows = [j \in DOMAIN @ \cup {i} |->
                                      IF j = i THEN RowAfter(t, i) ELSE @[j]]])
    /\ UNCHANGED <<tables, stale>>

\* The rows of a session replace the committed ones.
Install(s) ==
    LET rows == tx[s].rows IN
    /\ stock' = [i \in ItemId |-> IF i \in DOMAIN rows THEN rows[i].stock ELSE stock[i]]
    /\ reserved' = [i \in ItemId |-> IF i \in DOMAIN rows THEN rows[i].reserved ELSE reserved[i]]

Recorded(op) == processed' = IF IsMessage(op) THEN processed \cup {op} ELSE processed

\* create() or update(), outbox.add and COMMIT. The version claim fails when the
\* order was written since it was read; the edits make no such claim, and write
\* back the lines they computed from what they read. A CHECK refuses a line
\* without a positive quantity, whatever was reserved for it.
CommitOf(s, claimed) ==
    LET t == tx[s]
        o == t.op.order
        to == NewStatus(t.op, status[o])
    IN
    /\ t.at = "write" /\ DOMAIN t.rows = Touched(t)
    /\ claimed
    /\ to # status[o] /\ t.op.kind # "create" => canTransition(t.status, to)
    /\ PartsEffect(t.op) = "reserve" => \A i \in Touched(t) : LinesAfter(t)[i] > 0
    /\ status' = [status EXCEPT ![o] = to]
    /\ history' = [history EXCEPT ![o] = IF to = status[o] THEN @ ELSE Append(@, to)]
    /\ items' = [items EXCEPT ![o] = LinesAfter(t)]
    /\ budgetTotal' = [budgetTotal EXCEPT ![o] =
                          @ \/ (t.op.kind = "reply" /\ t.op.type = "BudgetGenerated")]
    /\ outbox' = [outbox EXCEPT ![o] = @ \o Commands(t.op, t.lines)]
    /\ Install(s)
    /\ Recorded(t.op)
    /\ stale' = (stale \ {s}) \cup
                {u \in Session \ {s} : Busy(u) /\ tx[u].op.order = o /\ WritesOrder(t.op)}
    /\ Step(s, Idle)

\* A slip: update() claims whatever version it finds.
Commit_AnyVersion(s) == CommitOf(s, TRUE)

Commit(s) == CommitOf(s, VersionChecked(tx[s].op) => s \notin stale)

\* 'ignored': the message is recorded all the same.
CommitIgnored(s) ==
    /\ tx[s].at = "ignored"
    /\ Recorded(tx[s].op)
    /\ Step(s, Idle)
    /\ stale' = stale \ {s}
    /\ UNCHANGED <<status, items, budgetTotal, history, stock, reserved, outbox>>

Abort(s) ==
    /\ Busy(s)
    /\ Step(s, Idle)
    /\ stale' = stale \ {s}
    /\ UNCHANGED tables

\* One UPDATE in a transaction of its own, of a body that is documented: one that
\* names reservedQuantity would write it too, and is left out as in the saga.
UpdateStock(i, n) ==
    /\ ~ Locked(i)
    /\ reserved[i] <= n
    /\ stock' = [stock EXCEPT ![i] = n]
    /\ UNCHANGED <<status, items, budgetTotal, history, reserved, outbox, processed, tx, stale>>

-----------------------------------------------------------------------------
Statement(s) ==
    \/ \E m \in Message : RecordMessage(s, m)
    \/ \E op \in StaffRequest : BeginRequest(s, op)
    \/ ReadOrder(s)
    \/ ReadItem(s)
    \/ \E i \in ItemId : WriteItem(s, i)
    \/ Commit(s)
    \/ CommitIgnored(s)
    \/ Abort(s)

Next ==
    \/ \E s \in Session : Statement(s)
    \/ \E i \in ItemId, n \in StockLevel : UpdateStock(i, n)

Spec == Init /\ [][Next]_vars
-----------------------------------------------------------------------------
(* Properties.                                                             *)

\* Run statement by statement and interleaved in any way, the units of work of
\* the saga, the opening and the delivery of an order act as if each ran alone:
\* every commit is one step of ServiceOrderSaga. So a message has its effect at
\* most once however often it is redelivered, and no write is lost. (The edits
\* are the exception: TxLostReservation shows what they can break.)
ImplementsSaga == Saga!Spec

\* With edits running too: the version claim still lets one message at a time
\* decide the next status, so the history stays a path of the state machine.
HistoryIsALegalPath == Saga!HistoryIsALegalPath

\* With edits running too: of a payment's answer and its dead request handled
\* at once only one commits, so what was asked for is cancelled if and only if
\* the order ends that way.
CompensationIsComplete == Saga!CompensationIsComplete

\* A reservation and its order line commit together. Between the openings and
\* the messages it follows from ImplementsSaga; TxLostReservation shows how an
\* edit and an opening break it.
ReservationsBackOpenOrders == Saga!ReservationsBackOpenOrders
=============================================================================
