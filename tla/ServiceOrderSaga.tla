-------------------------- MODULE ServiceOrderSaga --------------------------
(***************************************************************************)
(* The orchestrator of the service order saga together with the use cases  *)
(* that open, edit and deliver an order, over the tables they write:       *)
(* src/src/use-cases/saga/ServiceOrderSaga.ts, use-cases/service-orders,   *)
(* and the repositories under adapters/gateways.                           *)
(*                                                                         *)
(* One action is one unit of work (one database transaction) run to its    *)
(* commit.  A unit of work that throws rolls back, message id included, so *)
(* it is not a step: its conditions are conjuncts of the action.  What     *)
(* units of work do to each other statement by statement is the subject of *)
(* module OrderTransactions.                                               *)
(*                                                                         *)
(* The messages are whatever the queues hand over: any reply and any dead  *)
(* command, for any order, at any time, any number of times.  Nothing here *)
(* relies on the order in which the participants answer.                   *)
(***************************************************************************)
EXTENDS ServiceOrderStateMachine, Integers, FiniteSetsExt

CONSTANTS
    OrderId,      \* the orders that may be opened
    ItemId,       \* parts in the catalogue
    ServiceId,    \* services in the catalogue
    CustomerId,   \* registered customers
    CustomerOf,   \* the customer an order is opened for
    MessageId,    \* ids of incoming messages; bounds how many are handled
    Quantity,     \* quantities a caller may send: nothing stops 0 or -1
    StockLevel    \* stock counts an administrator may set

ASSUME SagaAssumption ==
    /\ CustomerOf \in [OrderId -> CustomerId]
    /\ Quantity \subseteq Int
    /\ StockLevel \subseteq Nat

VARIABLES
    status,       \* service_orders.status, "NONE" before the insert
    items,        \* service_order_items: quantity per part, 0 when no line
    services,     \* service_order_services
    budgetTotal,  \* service_orders.budget_total is set
    history,      \* service_order_status_history, to_status of each row
    stock,        \* items.stock_quantity
    reserved,     \* items.reserved_quantity
    outbox,       \* outbox_messages of each order, oldest first
    processed,    \* processed_messages
    customers     \* customers not soft-deleted

orderVars == <<status, history>>
lineVars  == <<items, services>>
stockVars == <<stock, reserved>>
vars == <<status, items, services, budgetTotal, history, stock, reserved,
          outbox, processed, customers>>

Lines   == [ItemId -> Nat]
NoLines == [i \in ItemId |-> 0]

\* An outbox row. Only GenerateBudget and EnqueueRepair carry a payload: the
\* lines to price, and the tasks to carry out.
Command == [type : SagaCommandType, items : Lines, services : SUBSET ServiceId]

TypeOK ==
    /\ status \in [OrderId -> OSStatus \cup {"NONE"}]
    /\ items \in [OrderId -> Lines]
    /\ services \in [OrderId -> SUBSET ServiceId]
    /\ budgetTotal \in [OrderId -> BOOLEAN]
    /\ history \in [OrderId -> Seq(OSStatus)]
    /\ stock \in [ItemId -> Nat]
    /\ reserved \in [ItemId -> Nat]
    /\ outbox \in [OrderId -> Seq(Command)]
    /\ processed \subseteq MessageId
    /\ customers \subseteq CustomerId

Init ==
    /\ status = [o \in OrderId |-> "NONE"]
    /\ items = [o \in OrderId |-> NoLines]
    /\ services = [o \in OrderId |-> {}]
    /\ budgetTotal = [o \in OrderId |-> FALSE]
    /\ history = [o \in OrderId |-> <<>>]
    /\ stock \in [ItemId -> StockLevel]
    /\ reserved = [i \in ItemId |-> 0]
    /\ outbox = [o \in OrderId |-> <<>>]
    /\ processed = {}
    /\ customers = CustomerId

-----------------------------------------------------------------------------
(* The statements the use cases share.                                     *)

Cmd(type) == [type |-> type, items |-> NoLines, services |-> {}]

Send(o, commands) == outbox' = [outbox EXCEPT ![o] = @ \o commands]

\* A stock update whose result breaks a CHECK of the items table fails.
StockCheck == \A i \in ItemId : 0 <= reserved'[i] /\ reserved'[i] <= stock'[i]

CanRelease(o) == \A i \in ItemId : items[o][i] <= reserved[i]

CanConsume(o) ==
    \A i \in ItemId : items[o][i] <= reserved[i] /\ items[o][i] <= stock[i]

ReleaseReservations(o) ==
    /\ CanRelease(o)
    /\ reserved' = [i \in ItemId |-> reserved[i] - items[o][i]]
    /\ UNCHANGED stock

\* A slip: the parts leave the reservation and stay on the shelf.
Consume_KeepsStock(o) ==
    /\ CanConsume(o)
    /\ reserved' = [i \in ItemId |-> reserved[i] - items[o][i]]
    /\ UNCHANGED stock

Consume(o) ==
    /\ CanConsume(o)
    /\ stock' = [i \in ItemId |-> stock[i] - items[o][i]]
    /\ reserved' = [i \in ItemId |-> reserved[i] - items[o][i]]

\* A slip: the history row is written before the status is compared.
MoveTo_FromRow(o, to) ==
    /\ canTransition(status[o], to)
    /\ status' = [status EXCEPT ![o] = to]
    /\ history' = [history EXCEPT ![o] = Append(@, status[o])]

MoveTo(o, to) ==
    /\ canTransition(status[o], to)
    /\ status' = [status EXCEPT ![o] = to]
    /\ history' = [history EXCEPT ![o] = Append(@, to)]

\* A slip: the window for edits reopens while the budget is computed.
Editable_UntilApproval(o) == status[o] \in {"DIAGNOSIS", "WAITING_APPROVAL"}

Editable(o) == status[o] = "DIAGNOSIS"

-----------------------------------------------------------------------------
(* The requests of the staff and of the customers.                         *)

CreateServiceOrder(o, lines, tasks) ==
    /\ status[o] = "NONE"
    /\ \A i \in ItemId : lines[i] >= 0 /\ lines[i] <= stock[i] - reserved[i]
    /\ reserved' = [i \in ItemId |-> reserved[i] + lines[i]]
    /\ status' = [status EXCEPT ![o] = "RECEIVED"]
    /\ history' = [history EXCEPT ![o] = <<"RECEIVED">>]
    /\ items' = [items EXCEPT ![o] = lines]
    /\ services' = [services EXCEPT ![o] = tasks]
    /\ Send(o, <<Cmd("EnqueueDiagnosis")>>)
    /\ UNCHANGED <<budgetTotal, stock, processed, customers>>

\* A slip: no CHECK constraint guards the two tables.
AddItem_NoChecks(o, i, q) ==
    /\ Editable(o)
    /\ q <= stock[i] - reserved[i]
    /\ reserved' = [reserved EXCEPT ![i] = @ + q]
    /\ UNCHANGED stock
    /\ items' = [items EXCEPT ![o][i] = @ + q]
    /\ UNCHANGED <<orderVars, services, budgetTotal, outbox, processed, customers>>

\* A slip: a part already in the order gets the new quantity, not the sum.
AddItem_Overwrites(o, i, q) ==
    /\ Editable(o)
    /\ q <= stock[i] - reserved[i] /\ q > 0
    /\ reserved' = [reserved EXCEPT ![i] = @ + q]
    /\ UNCHANGED stock
    /\ items' = [items EXCEPT ![o][i] = q]
    /\ UNCHANGED <<orderVars, services, budgetTotal, outbox, processed, customers>>

\* A negative quantity passes reserve() and gives part of a line back; the
\* CHECKs refuse a line that is not positive and a reservation below zero.
AddItem(o, i, q) ==
    /\ Editable(o)
    /\ q <= stock[i] - reserved[i]
    /\ reserved' = [reserved EXCEPT ![i] = @ + q]
    /\ UNCHANGED stock
    /\ StockCheck
    /\ items[o][i] + q > 0
    /\ items' = [items EXCEPT ![o][i] = @ + q]
    /\ UNCHANGED <<orderVars, services, budgetTotal, outbox, processed, customers>>

RemoveItem(o, i) ==
    /\ Editable(o)
    /\ items[o][i] > 0
    /\ reserved' = [reserved EXCEPT ![i] = @ - items[o][i]]
    /\ UNCHANGED stock
    /\ StockCheck
    /\ items' = [items EXCEPT ![o][i] = 0]
    /\ UNCHANGED <<orderVars, services, budgetTotal, outbox, processed, customers>>

AddService(o, s) ==
    /\ Editable(o)
    /\ s \notin services[o]
    /\ services' = [services EXCEPT ![o] = @ \cup {s}]
    /\ UNCHANGED <<orderVars, items, budgetTotal, stockVars, outbox, processed, customers>>

RemoveService(o, s) ==
    /\ Editable(o)
    /\ s \in services[o]
    /\ services' = [services EXCEPT ![o] = @ \ {s}]
    /\ UNCHANGED <<orderVars, items, budgetTotal, stockVars, outbox, processed, customers>>

\* A slip: the transition is not asserted.
Deliver_Unchecked(o) ==
    /\ status[o] # "NONE"
    /\ status' = [status EXCEPT ![o] = "DELIVERED"]
    /\ history' = [history EXCEPT ![o] = Append(@, "DELIVERED")]
    /\ UNCHANGED <<lineVars, budgetTotal, stockVars, outbox, processed, customers>>

Deliver(o) ==
    /\ MoveTo(o, "DELIVERED")
    /\ UNCHANGED <<lineVars, budgetTotal, stockVars, outbox, processed, customers>>

\* A slip: the database does not compare the new stock with the reservation.
UpdateStock_Unchecked(i, n) ==
    /\ stock' = [stock EXCEPT ![i] = n]
    /\ UNCHANGED <<orderVars, lineVars, budgetTotal, reserved, outbox, processed, customers>>

\* The body of PUT /items as it is documented. It is passed on as it comes
\* (ItemController.ts:44, PostgresItemRepository.ts:49), so one that names
\* reservedQuantity would write that column too: left out here.
UpdateStock(i, n) ==
    /\ stock' = [stock EXCEPT ![i] = n]
    /\ UNCHANGED reserved
    /\ StockCheck
    /\ UNCHANGED <<orderVars, lineVars, budgetTotal, outbox, processed, customers>>

DeleteCustomer(c) ==
    /\ c \in customers
    /\ customers' = customers \ {c}
    /\ UNCHANGED <<orderVars, lineVars, budgetTotal, stockVars, outbox, processed>>

-----------------------------------------------------------------------------
(* process(): the id is recorded first, then the status is compared.  A    *)
(* repeated id changes nothing; a message that finds another status is     *)
(* dropped, and its id stays recorded.                                     *)

Record(id) == id \notin processed /\ processed' = processed \cup {id}

Accepted(id, o, expected) == Record(id) /\ status[o] \in expected

Ignored(id, o, expected) ==
    /\ Record(id)
    /\ status[o] \notin expected
    /\ UNCHANGED <<orderVars, lineVars, budgetTotal, stockVars, outbox, customers>>

IgnoredReply(id, o, r) == Ignored(id, o, EXPECTED_STATUS(r))

IgnoredFailure(id, o, c) == Ignored(id, o, ExpectedOfFailed(c))

Duplicate(id) == id \in processed /\ UNCHANGED vars

DiagnosisStarted(id, o) ==
    /\ Accepted(id, o, EXPECTED_STATUS("DiagnosisStarted"))
    /\ MoveTo(o, "DIAGNOSIS")
    /\ UNCHANGED <<lineVars, budgetTotal, stockVars, outbox, customers>>

DiagnosisCompleted(id, o) ==
    /\ Accepted(id, o, EXPECTED_STATUS("DiagnosisCompleted"))
    /\ CustomerOf[o] \in customers
    /\ MoveTo(o, "WAITING_APPROVAL")
    /\ Send(o, <<[type |-> "GenerateBudget", items |-> items[o], services |-> services[o]]>>)
    /\ UNCHANGED <<lineVars, budgetTotal, stockVars, customers>>

\* The total is a number and not negative, as the Billing Service sends it: for
\* any other the handler (lines 210-213) or the CHECK of the column throws, and
\* the unit of work leaves no trace.
BudgetGenerated(id, o) ==
    /\ Accepted(id, o, EXPECTED_STATUS("BudgetGenerated"))
    /\ budgetTotal' = [budgetTotal EXCEPT ![o] = TRUE]
    /\ UNCHANGED <<orderVars, lineVars, stockVars, outbox, customers>>

BudgetApproved(id, o) ==
    /\ Accepted(id, o, EXPECTED_STATUS("BudgetApproved"))
    /\ MoveTo(o, "APPROVED")
    /\ Send(o, <<Cmd("RequestPayment")>>)
    /\ UNCHANGED <<lineVars, budgetTotal, stockVars, customers>>

BudgetRejected(id, o) ==
    /\ Accepted(id, o, EXPECTED_STATUS("BudgetRejected"))
    /\ ReleaseReservations(o)
    /\ MoveTo(o, "REJECTED")
    /\ Send(o, <<Cmd("CancelExecution")>>)
    /\ UNCHANGED <<lineVars, budgetTotal, customers>>

PaymentConfirmed(id, o) ==
    /\ Accepted(id, o, EXPECTED_STATUS("PaymentConfirmed"))
    /\ Consume(o)
    /\ MoveTo(o, "PAID")
    /\ Send(o, <<[type |-> "EnqueueRepair", items |-> NoLines, services |-> services[o]]>>)
    /\ UNCHANGED <<lineVars, budgetTotal, customers>>

PaymentFailed(id, o) ==
    /\ Accepted(id, o, EXPECTED_STATUS("PaymentFailed"))
    /\ ReleaseReservations(o)
    /\ MoveTo(o, "CANCELLED")
    /\ Send(o, <<Cmd("CancelExecution"), Cmd("CancelBudget")>>)
    /\ UNCHANGED <<lineVars, budgetTotal, customers>>

RepairStarted(id, o) ==
    /\ Accepted(id, o, EXPECTED_STATUS("RepairStarted"))
    /\ MoveTo(o, "EXECUTION")
    /\ UNCHANGED <<lineVars, budgetTotal, stockVars, outbox, customers>>

RepairCompleted(id, o) ==
    /\ Accepted(id, o, EXPECTED_STATUS("RepairCompleted"))
    /\ MoveTo(o, "FINISHED")
    /\ UNCHANGED <<lineVars, budgetTotal, stockVars, outbox, customers>>

CompensationConfirmed(id, o, r) ==
    /\ r \in {"ExecutionCancelled", "BudgetCancelled"}
    /\ Accepted(id, o, EXPECTED_STATUS(r))
    /\ UNCHANGED <<orderVars, lineVars, budgetTotal, stockVars, outbox, customers>>

\* A slip: the budget is left open when the payment request dies.
CancelCommands_ForgetsBudget(c) ==
    IF c = "EnqueueDiagnosis" THEN <<>> ELSE <<Cmd("CancelExecution")>>

\* The "cancel" column of FAILED_COMMAND, in the order stepFailed adds them.
CancelCommands(c) ==
    CASE c = "EnqueueDiagnosis" -> <<>>
      [] c = "GenerateBudget"   -> <<Cmd("CancelExecution")>>
      [] c = "RequestPayment"   -> <<Cmd("CancelExecution"), Cmd("CancelBudget")>>

StepFailed(id, o, c) ==
    /\ c \in Compensable
    /\ Accepted(id, o, ExpectedOfFailed(c))
    /\ ReleaseReservations(o)
    /\ MoveTo(o, "CANCELLED")
    /\ Send(o, CancelCommands(c))
    /\ UNCHANGED <<lineVars, budgetTotal, customers>>

\* A slip: a dead command is sent once more instead of being reported.
ReportStuck_Resends(id, o, c) ==
    /\ c \in SagaCommandType \ Compensable
    /\ Accepted(id, o, ExpectedOfFailed(c))
    /\ Send(o, <<Cmd(c)>>)
    /\ UNCHANGED <<orderVars, lineVars, budgetTotal, stockVars, customers>>

ReportStuck(id, o, c) ==
    /\ c \in SagaCommandType \ Compensable
    /\ Accepted(id, o, ExpectedOfFailed(c))
    /\ UNCHANGED <<orderVars, lineVars, budgetTotal, stockVars, outbox, customers>>

-----------------------------------------------------------------------------
\* Bodies of POST /service-orders: a quantity per part, 0 for a part left out.
RequestedLines == [ItemId -> (Quantity \cap Nat) \cup {0}]

Request ==
    \/ \E o \in OrderId, lines \in RequestedLines, tasks \in SUBSET ServiceId :
          CreateServiceOrder(o, lines, tasks)
    \/ \E o \in OrderId, i \in ItemId, q \in Quantity : AddItem(o, i, q)
    \/ \E o \in OrderId, i \in ItemId : RemoveItem(o, i)
    \/ \E o \in OrderId, s \in ServiceId : AddService(o, s)
    \/ \E o \in OrderId, s \in ServiceId : RemoveService(o, s)
    \/ \E o \in OrderId : Deliver(o)
    \/ \E i \in ItemId, n \in StockLevel : UpdateStock(i, n)
    \/ \E c \in CustomerId : DeleteCustomer(c)

\* handle()
HandleReply(id, o) ==
    \/ DiagnosisStarted(id, o)
    \/ DiagnosisCompleted(id, o)
    \/ BudgetGenerated(id, o)
    \/ BudgetApproved(id, o)
    \/ BudgetRejected(id, o)
    \/ PaymentConfirmed(id, o)
    \/ PaymentFailed(id, o)
    \/ RepairStarted(id, o)
    \/ RepairCompleted(id, o)
    \/ \E r \in SagaReplyType : CompensationConfirmed(id, o, r)
    \/ \E r \in SagaReplyType : IgnoredReply(id, o, r)

\* handleFailedCommand()
HandleFailedCommand(id, o) ==
    \E c \in SagaCommandType :
        StepFailed(id, o, c) \/ ReportStuck(id, o, c) \/ IgnoredFailure(id, o, c)

Next ==
    \/ Request
    \/ \E id \in MessageId, o \in OrderId :
          HandleReply(id, o) \/ HandleFailedCommand(id, o)
    \/ \E id \in MessageId : Duplicate(id)

Spec == Init /\ [][Next]_vars
-----------------------------------------------------------------------------
(* Properties.                                                             *)

\* Statuses in which an order still holds a reservation.
Holding == {"RECEIVED", "DIAGNOSIS", "WAITING_APPROVAL", "APPROVED"}

\* Statuses after the payment, when the parts have left the stock.
Paid == {"PAID", "EXECUTION", "FINISHED", "DELIVERED"}

Closed == {"DELIVERED", "REJECTED", "CANCELLED"}

Sent(o) == {outbox[o][k].type : k \in DOMAIN outbox[o]}

\* The reserved quantity of a part is exactly what the open orders have in
\* their lines: no path through edits, refusals, failed payments, failed steps
\* and repeated messages leaks a reservation or gives one back twice.
ReservationsBackOpenOrders ==
    \A i \in ItemId :
        reserved[i] = MapThenSumSet(LAMBDA o : items[o][i],
                                    {o \in OrderId : status[o] \in Holding})

\* The status each reply moves its order to.
Target == [r \in {"DiagnosisStarted", "DiagnosisCompleted", "BudgetApproved", "BudgetRejected",
                  "PaymentConfirmed", "PaymentFailed", "RepairStarted", "RepairCompleted"} |->
    CASE r = "DiagnosisStarted"   -> "DIAGNOSIS"
      [] r = "DiagnosisCompleted" -> "WAITING_APPROVAL"
      [] r = "BudgetApproved"     -> "APPROVED"
      [] r = "BudgetRejected"     -> "REJECTED"
      [] r = "PaymentConfirmed"   -> "PAID"
      [] r = "PaymentFailed"      -> "CANCELLED"
      [] r = "RepairStarted"      -> "EXECUTION"
      [] r = "RepairCompleted"    -> "FINISHED"]

\* A message that finds the status it expects can be applied: the transition
\* is legal, the reservation covers the release or the consumption, and the
\* stock covers the consumption. So no message fails five times and dies in
\* the dead-letter queue because of the stock or of a disagreement between
\* EXPECTED_STATUS and VALID_TRANSITIONS. (Two other reasons to fail for good are
\* not excluded: the customer of a DiagnosisCompleted was deleted, and the total
\* of a BudgetGenerated is no number or negative.)
NoMessageIsPoison ==
    \A o \in OrderId :
        /\ \A r \in SagaReplyType : status[o] \in EXPECTED_STATUS(r) =>
              /\ r \in DOMAIN Target => canTransition(status[o], Target[r])
              /\ r \in {"BudgetRejected", "PaymentFailed"} => CanRelease(o)
              /\ r = "PaymentConfirmed" => CanConsume(o)
        /\ \A c \in Compensable : status[o] \in ExpectedOfFailed(c) =>
              canTransition(status[o], "CANCELLED") /\ CanRelease(o)

\* A closed order leaves nothing running elsewhere: whatever the Execution and
\* Billing services were asked to do before the end is cancelled exactly when
\* it had been asked, after it was asked, and never once the order is paid.
\* (A rejected budget needs no CancelBudget: the Billing Service closed it.)
CompensationIsComplete ==
    \A o \in OrderId :
        /\ "CancelExecution" \in Sent(o) <=>
              status[o] \in {"REJECTED", "CANCELLED"} /\ "GenerateBudget" \in Sent(o)
        /\ "CancelBudget" \in Sent(o) <=>
              status[o] = "CANCELLED" /\ "RequestPayment" \in Sent(o)
        /\ "EnqueueRepair" \in Sent(o) <=> status[o] \in Paid
        /\ \A j, k \in DOMAIN outbox[o] :
              outbox[o][j].type \in {"CancelExecution", "CancelBudget"} /\ j < k
                 => outbox[o][k].type \in {"CancelExecution", "CancelBudget"}

\* No command is asked for twice for the same order, however many times the
\* messages that cause it come back.
EachCommandAtMostOnce ==
    \A o \in OrderId : \A j, k \in DOMAIN outbox[o] :
        outbox[o][j].type = outbox[o][k].type => j = k

\* The customer approves and pays for what the mechanic repairs: the lines sent
\* to be priced are the lines of the order from then on, and the tasks sent to
\* the mechanic are the services priced.
BudgetIsTheOrder ==
    \A o \in OrderId : \A k \in DOMAIN outbox[o] :
        LET command == outbox[o][k] IN
        /\ command.type = "GenerateBudget" =>
              command.items = items[o] /\ command.services = services[o]
        /\ command.type = "EnqueueRepair" => command.services = services[o]

\* The recorded history is a path of the state machine from the opening to the
\* present status, so no status was skipped, repeated or recorded wrongly.
HistoryIsALegalPath ==
    \A o \in OrderId :
        IF status[o] = "NONE" THEN history[o] = <<>>
        ELSE /\ history[o] # <<>>
             /\ history[o][1] = "RECEIVED"
             /\ history[o][Len(history[o])] = status[o]
             /\ \A k \in 1 .. Len(history[o]) - 1 :
                   canTransition(history[o][k], history[o][k + 1])

\* One transaction never writes two messages of an order to the same queue.
\* findPending relies on it: such messages would share their creation time and
\* could be published in either order.
OneMessagePerDestination ==
    [][\A o \in OrderId : \A j, k \in DOMAIN outbox'[o] :
          /\ Len(outbox[o]) < j
          /\ j < k
          => Destination(outbox'[o][j].type) # Destination(outbox'[o][k].type)]_vars

\* Nothing reopens or edits an order that was delivered, rejected or cancelled,
\* takes its parts again or asks anything more of the participants.
ClosedOrdersAreFinal ==
    [][\A o \in OrderId : status[o] \in Closed =>
          /\ status'[o] = status[o] /\ history'[o] = history[o]
          /\ items'[o] = items[o] /\ services'[o] = services[o]
          /\ outbox'[o] = outbox[o]]_vars

\* The abstract specification this one implements. The free parts are what
\* getAvailableQuantity computes; the rest is read off the status.
freeParts == [i \in ItemId |-> stock[i] - reserved[i]]

Phase(s) ==
    CASE s = "NONE" -> "none"
      [] s \in {"RECEIVED", "DIAGNOSIS"} -> "open"
      [] s \in {"WAITING_APPROVAL", "APPROVED"} -> "priced"
      [] s \in Paid -> "taken"
      [] s \in {"REJECTED", "CANCELLED"} -> "returned"

phaseOf == [o \in OrderId |-> Phase(status[o])]

heldParts == [o \in OrderId |-> IF status[o] \in Holding THEN items[o] ELSE NoLines]

takenParts == [o \in OrderId |-> IF status[o] \in Paid THEN items[o] ELSE NoLines]

Ledger == INSTANCE PartsLedger WITH
    free <- freeParts, phase <- phaseOf, held <- heldParts, taken <- takenParts

\* Every part of every order is free, held or taken, and what is taken or
\* returned is all that was priced: the saga implements the parts ledger.
ImplementsLedger == Ledger!LedgerSpec
=============================================================================
