-------------------------- MODULE SagaConversation --------------------------
(***************************************************************************)
(* The saga and its participants at the two ends of the queues: the        *)
(* commands of the outbox go to the Execution and Billing services, their  *)
(* answers come back, and commands that failed five times come back dead.  *)
(*                                                                         *)
(* The channels are what OutboxRelay and ReplyQueue are shown to make of   *)
(* the relays, the queues and the pollers: in order per order and queue,   *)
(* repeated, and passed over only when a message dies.  The participants   *)
(* are external; each carries out a command once, by its message id.  The  *)
(* parts and the lines of an order are left out: ServiceOrderSaga has them.*)
(***************************************************************************)
EXTENDS ServiceOrderStateMachine, Integers, FiniteSetsExt

CONSTANTS
    OrderId,
    Faults,   \* bound: sets of what else goes wrong, of FaultKind
    MaxDead   \* bound: commands of an order that die

\* A reply is received five times and not handled, though it could be; or a
\* participant carries a command out at the fifth receive and it dies as well.
FaultKind == {"reply dies", "carried out and dead"}

ASSUME ConversationAssumption == Faults \subseteq SUBSET FaultKind /\ MaxDead \in Nat

VARIABLES
    faults,      \* what else goes wrong in this behaviour
    status, budgetTotal, history, outbox, processed, customers,
    handed,      \* commands each participant received, per order and queue
    dead,        \* commands in the dead-letter queues, by place in the outbox
    execution,   \* the entry of an order in the Execution Service
    billing,     \* its budget and payment in the Billing Service
    answers,     \* replies sent about each order, oldest first
    taken,       \* how many of them have left the queue
    stuck,       \* commands reported for a person to look at
    lost         \* replies in their dead-letter queue, not handled: an alert

serviceVars == <<status, budgetTotal, history, outbox, processed, customers>>
participantVars == <<execution, billing, answers>>
alertVars == <<stuck, lost>>
vars == <<serviceVars, handed, dead, participantVars, taken, alertVars>>    \* faults never changes

Queue == {"execution-commands", "billing-commands"}

\* The id of the k-th reply about an order, and of its k-th command.
MessageId == OrderId \X {"reply", "command"} \X Nat

Saga == INSTANCE ServiceOrderSaga WITH
    ItemId <- {}, ServiceId <- {}, Quantity <- {}, StockLevel <- {}, items <- [o \in OrderId |-> <<>>],
    services <- [o \in OrderId |-> {}], stock <- <<>>, reserved <- <<>>,
    CustomerId <- OrderId, CustomerOf <- [o \in OrderId |-> o]

TypeOK ==
    /\ faults \in Faults
    /\ Saga!TypeOK
    /\ handed \in [OrderId -> [Queue -> Nat]]
    /\ dead \in [OrderId -> SUBSET Nat]
    /\ execution \in [OrderId -> {"none", "diagnosis", "diagnosing", "diagnosed",
                                  "repair", "repairing", "repaired", "cancelled"}]
    /\ billing \in [OrderId -> {"none", "budget", "approved", "rejected",
                                "charged", "paid", "refused", "cancelled"}]
    /\ answers \in [OrderId -> Seq(SagaReplyType)]
    /\ taken \in [OrderId -> Nat] /\ \A o \in OrderId : taken[o] <= Len(answers[o])
    /\ stuck \in [OrderId -> SUBSET SagaCommandType]
    /\ lost \in [OrderId -> SUBSET SagaReplyType]

Init ==
    /\ faults \in Faults
    /\ Saga!Init
    /\ handed = [o \in OrderId |-> [q \in Queue |-> 0]]
    /\ dead = [o \in OrderId |-> {}]
    /\ execution = [o \in OrderId |-> "none"]
    /\ billing = [o \in OrderId |-> "none"]
    /\ answers = [o \in OrderId |-> <<>>]
    /\ taken = [o \in OrderId |-> 0]
    /\ stuck = [o \in OrderId |-> {}]
    /\ lost = [o \in OrderId |-> {}]

-----------------------------------------------------------------------------
(* The requests of the staff.                                              *)

Open(o) ==
    /\ Saga!CreateServiceOrder(o, <<>>, {})
    /\ UNCHANGED <<handed, dead, participantVars, taken, alertVars>>

Deliver(o) ==
    /\ Saga!Deliver(o)
    /\ UNCHANGED <<handed, dead, participantVars, taken, alertVars>>

CustomerLeaves(o) ==
    /\ Saga!DeleteCustomer(o)
    /\ UNCHANGED <<handed, dead, participantVars, taken, alertVars>>

-----------------------------------------------------------------------------
(* The participants.                                                       *)

TypeOf(o, k) == outbox[o][k].type

\* Places in the outbox of the commands of a queue.
Addressed(o, q) == {k \in DOMAIN outbox[o] : Destination(TypeOf(o, k)) = q}

\* The next command of a queue, wherever between outbox and participant it is.
NextCommand(o, q) == {k \in Addressed(o, q) :
                   Cardinality({j \in Addressed(o, q) : j < k}) = handed[o][q]}

Answer(o, replies) == answers' = [answers EXCEPT ![o] = @ \o replies]

\* What a participant does with a command.
CarryOut(o, c) ==
    /\ execution' = [execution EXCEPT ![o] =
          CASE c = "EnqueueDiagnosis" -> "diagnosis"
            [] c = "EnqueueRepair"    -> "repair"
            [] c = "CancelExecution"  -> "cancelled"
            [] OTHER -> @]
    /\ billing' = [billing EXCEPT ![o] =
          CASE c = "GenerateBudget" -> "budget"
            [] c = "RequestPayment" -> "charged"
            [] c = "CancelBudget"   -> "cancelled"
            [] OTHER -> @]
    /\ Answer(o, CASE c = "GenerateBudget"  -> <<"BudgetGenerated">>
                   [] c = "CancelExecution" -> <<"ExecutionCancelled">>
                   [] c = "CancelBudget"    -> <<"BudgetCancelled">>
                   [] OTHER -> <<>>)

CommandId(o, k) == <<o, "command", k>>

MayDie(o) ==
    Cardinality(dead[o] \cup {k \in DOMAIN outbox[o] : CommandId(o, k) \in processed}) < MaxDead

Received(o, q) == handed' = [handed EXCEPT ![o][q] = @ + 1]

TakeCommand(o, q) ==
    \E k \in NextCommand(o, q) :
        /\ CarryOut(o, TypeOf(o, k))
        /\ Received(o, q)
        /\ UNCHANGED <<serviceVars, dead, taken, alertVars>>

\* Five receives without success.
CommandDies(o, q) ==
    /\ MayDie(o)
    /\ \E k \in NextCommand(o, q) :
          /\ dead' = [dead EXCEPT ![o] = @ \cup {k}]
          /\ Received(o, q)
          /\ UNCHANGED <<serviceVars, participantVars, taken, alertVars>>

\* The fifth receive succeeds, and the message is not deleted in time.
CarriedOutAndDead(o, q) ==
    /\ "carried out and dead" \in faults
    /\ MayDie(o)
    /\ \E k \in NextCommand(o, q) :
          /\ CarryOut(o, TypeOf(o, k))
          /\ dead' = [dead EXCEPT ![o] = @ \cup {k}]
    /\ Received(o, q)
    /\ UNCHANGED <<serviceVars, taken, alertVars>>

\* What the mechanic does: the entry before and after it, and the reply.
Repairs == {<<"diagnosis", "diagnosing", "DiagnosisStarted">>,
            <<"diagnosing", "diagnosed", "DiagnosisCompleted">>,
            <<"repair", "repairing", "RepairStarted">>,
            <<"repairing", "repaired", "RepairCompleted">>}

\* What the customer and the payment provider do.
Decisions == {<<"budget", "approved", "BudgetApproved">>,
              <<"budget", "rejected", "BudgetRejected">>,
              <<"charged", "paid", "PaymentConfirmed">>,
              <<"charged", "refused", "PaymentFailed">>}

MechanicActs(o) ==
    \E work \in Repairs :
        /\ execution[o] = work[1]
        /\ execution' = [execution EXCEPT ![o] = work[2]]
        /\ Answer(o, <<work[3]>>)
        /\ UNCHANGED <<serviceVars, handed, dead, billing, taken, alertVars>>

CustomerActs(o) ==
    \E decision \in Decisions :
        /\ billing[o] = decision[1]
        /\ billing' = [billing EXCEPT ![o] = decision[2]]
        /\ Answer(o, <<decision[3]>>)
        /\ UNCHANGED <<serviceVars, handed, dead, execution, taken, alertVars>>

-----------------------------------------------------------------------------
(* The replies come back to the saga.                                      *)

HasReply(o) == taken[o] < Len(answers[o])

HeadReply(o) == answers[o][taken[o] + 1]

HeadId(o) == <<o, "reply", taken[o] + 1>>

\* A slip: the case of PaymentFailed falls through to PaymentConfirmed.
Handle_FallsThrough(id, o, r) ==
    \/ r \in {"PaymentConfirmed", "PaymentFailed"} /\ Saga!PaymentConfirmed(id, o)
    \/ r = "DiagnosisStarted" /\ Saga!DiagnosisStarted(id, o)
    \/ r = "DiagnosisCompleted" /\ Saga!DiagnosisCompleted(id, o)
    \/ r = "BudgetGenerated" /\ Saga!BudgetGenerated(id, o)
    \/ r = "BudgetApproved" /\ Saga!BudgetApproved(id, o)

\* handle(), for the type of the reply.
Handle(id, o, r) ==
    \/ r = "DiagnosisStarted" /\ Saga!DiagnosisStarted(id, o)
    \/ r = "DiagnosisCompleted" /\ Saga!DiagnosisCompleted(id, o)
    \/ r = "BudgetGenerated" /\ Saga!BudgetGenerated(id, o)
    \/ r = "BudgetApproved" /\ Saga!BudgetApproved(id, o)
    \/ r = "BudgetRejected" /\ Saga!BudgetRejected(id, o)
    \/ r = "PaymentConfirmed" /\ Saga!PaymentConfirmed(id, o)
    \/ r = "PaymentFailed" /\ Saga!PaymentFailed(id, o)
    \/ r = "RepairStarted" /\ Saga!RepairStarted(id, o)
    \/ r = "RepairCompleted" /\ Saga!RepairCompleted(id, o)
    \/ Saga!CompensationConfirmed(id, o, r)
    \/ Saga!IgnoredReply(id, o, r)

HandleReply(o) ==
    /\ HasReply(o)
    /\ Handle(HeadId(o), o, HeadReply(o))
    /\ UNCHANGED <<handed, dead, participantVars, taken, alertVars>>

\* A slip: the message is deleted whether or not its handling committed.
DeleteReply_Always(o) ==
    /\ HasReply(o)
    /\ taken' = [taken EXCEPT ![o] = @ + 1]
    /\ UNCHANGED <<serviceVars, handed, dead, participantVars, alertVars>>

\* A slip: the message received with it is deleted as well.
DeleteReply_Batch(o) ==
    /\ HasReply(o)
    /\ HeadId(o) \in processed
    /\ taken' = [taken EXCEPT ![o] = @ + 2]
    /\ UNCHANGED <<serviceVars, handed, dead, participantVars, alertVars>>

\* Deleted once the handling has committed. Until then it may be received
\* again, and is found in processed_messages (Saga!Duplicate, a stutter).
DeleteReply(o) ==
    /\ HasReply(o)
    /\ HeadId(o) \in processed
    /\ taken' = [taken EXCEPT ![o] = @ + 1]
    /\ UNCHANGED <<serviceVars, handed, dead, participantVars, alertVars>>

\* A reply that throws every time: buildBudgetLines finds no customer. (So does a
\* BudgetGenerated whose total is no number or negative; the Billing Service
\* sends none. With the fault "reply dies" any reply may end like this.)
CannotBeHandled(o) ==
    /\ HeadReply(o) = "DiagnosisCompleted"
    /\ status[o] \in EXPECTED_STATUS("DiagnosisCompleted")
    /\ o \notin customers

\* The fifth receive fails: nobody reads the dead-letter queue of replies.
ReplyDies(o) ==
    /\ HasReply(o)
    /\ HeadId(o) \notin processed
    /\ "reply dies" \in faults \/ CannotBeHandled(o)
    /\ taken' = [taken EXCEPT ![o] = @ + 1]
    /\ lost' = [lost EXCEPT ![o] = @ \cup {HeadReply(o)}]
    /\ UNCHANGED <<serviceVars, handed, dead, participantVars, stuck>>

-----------------------------------------------------------------------------
(* The dead commands come back to the saga, one queue for each participant.*)

HeadOfDead(o, q) == {k \in dead[o] \cap Addressed(o, q) :
                        \A j \in dead[o] \cap Addressed(o, q) : k <= j}

HandleDeadCommand(o, q) ==
    \E k \in HeadOfDead(o, q) :
        LET c == TypeOf(o, k)
            id == CommandId(o, k) IN
        /\ \/ Saga!StepFailed(id, o, c) /\ UNCHANGED stuck
           \/ /\ Saga!ReportStuck(id, o, c)
              /\ stuck' = [stuck EXCEPT ![o] = @ \cup {c}]
           \/ Saga!IgnoredFailure(id, o, c) /\ UNCHANGED stuck
        /\ UNCHANGED <<handed, dead, participantVars, taken, lost>>

\* A slip: the dead-letter queue is emptied without a look.
DeleteDeadCommand_Unread(o, q) ==
    \E k \in HeadOfDead(o, q) :
        /\ dead' = [dead EXCEPT ![o] = @ \ {k}]
        /\ UNCHANGED <<serviceVars, handed, participantVars, taken, alertVars>>

DeleteDeadCommand(o, q) ==
    \E k \in HeadOfDead(o, q) :
        /\ CommandId(o, k) \in processed
        /\ dead' = [dead EXCEPT ![o] = @ \ {k}]
        /\ UNCHANGED <<serviceVars, handed, participantVars, taken, alertVars>>

-----------------------------------------------------------------------------
Next ==
    \E o \in OrderId :
        \/ Open(o) \/ Deliver(o) \/ CustomerLeaves(o)
        \/ MechanicActs(o) \/ CustomerActs(o)
        \/ HandleReply(o) \/ DeleteReply(o) \/ ReplyDies(o)
        \/ \E q \in Queue :
              \/ TakeCommand(o, q) \/ CommandDies(o, q) \/ CarriedOutAndDead(o, q)
              \/ HandleDeadCommand(o, q) \/ DeleteDeadCommand(o, q)

Spec == Init /\ [][Next /\ UNCHANGED faults]_<<vars, faults>>

\* The relays publish every command (EveryRowIsPublished), the pollers settle
\* every reply and every dead command (EveryMessageIsSettled), and a participant that is running takes its
\* commands or fails at them. Nobody makes a mechanic or a customer act.
Fairness ==
    \A o \in OrderId :
        /\ WF_vars(HandleReply(o)) /\ WF_vars(DeleteReply(o))
        /\ WF_vars(ReplyDies(o) /\ CannotBeHandled(o))
        /\ \A q \in Queue :
              /\ WF_vars(TakeCommand(o, q) \/ CommandDies(o, q))
              /\ WF_vars(HandleDeadCommand(o, q)) /\ WF_vars(DeleteDeadCommand(o, q))

FairSpec == Spec /\ Fairness
-----------------------------------------------------------------------------
(* Properties.                                                             *)

\* A reply that was not handled before finds the status it expects: it never
\* comes too early, although two participants and the dead-letter queues all
\* move the order, and so only repeats are dropped. (It takes a fault to make a
\* late answer, or to lose the one before it.)
OnlyRepeatsAreDropped ==
    faults = {} => \A o \in OrderId :
        HasReply(o) /\ HeadId(o) \notin processed => status[o] \in EXPECTED_STATUS(HeadReply(o))

Ended(o) == status[o] \in {"FINISHED", "DELIVERED", "REJECTED", "CANCELLED"}

WaitsForAPerson(o) ==
    \/ execution[o] \in {"diagnosis", "diagnosing", "repair", "repairing"}
    \/ billing[o] \in {"budget", "charged"}

\* No order comes to wait for ever for something nobody is about to do: it
\* ends, or waits for the mechanic, the customer or the provider, or somebody
\* is alerted, as when a deleted customer keeps its budget from being asked for.
OrdersMoveOn ==
    \A o \in OrderId :
        []<>(\/ status[o] = "NONE" \/ Ended(o) \/ WaitsForAPerson(o)
            \/ stuck[o] # {} \/ lost[o] # {})

\* The order never claims what the participants did not do, even when replies
\* die, replies are dropped and dead commands were carried out.
StatusAgreesWithParticipants ==
    \A o \in OrderId :
        /\ status[o] = "APPROVED" => billing[o] \in {"approved", "charged", "paid", "refused"}
        /\ status[o] \in {"PAID", "EXECUTION", "FINISHED", "DELIVERED"} => billing[o] = "paid"
        /\ status[o] = "REJECTED" => billing[o] = "rejected"
        /\ status[o] = "EXECUTION" => execution[o] \in {"repairing", "repaired"}
        /\ status[o] \in {"FINISHED", "DELIVERED"} => execution[o] = "repaired"

\* No participant did what it gave up.
DeadIsNotDone == "carried out and dead" \notin faults

\* Whoever paid gets the repair: it is enqueued, or a person is told.
PaidOrdersAreRepaired ==
    \A o \in OrderId :
        DeadIsNotDone /\ billing[o] = "paid" ~>
            \/ execution[o] \in {"repair", "repairing", "repaired"}
            \/ "EnqueueRepair" \in stuck[o] \/ lost[o] # {}

\* An order that is rejected or cancelled is left in no participant's hands:
\* nothing is diagnosed, priced or charged for it any more, or a person is told.
ClosedOrdersAreReleased ==
    \A o \in OrderId :
        DeadIsNotDone /\ status[o] \in {"REJECTED", "CANCELLED"} ~>
            \/ execution[o] \in {"none", "cancelled"} /\ billing[o] \in {"none", "rejected", "cancelled"}
            \/ stuck[o] # {}
=============================================================================
