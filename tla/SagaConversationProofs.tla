----------------------- MODULE SagaConversationProofs -----------------------
(***************************************************************************)
(* What the conversation of the saga and its participants guarantees for   *)
(* any number of orders, any bound on the commands that die and any set of *)
(* faults.                                                                 *)
(***************************************************************************)
EXTENDS SagaConversation, FiniteSetTheorems, TLAPS

\* The theorems of ServiceOrderSagaProofs, about the tables of this module.
Facts == INSTANCE ServiceOrderSagaProofs WITH
    ItemId <- {}, ServiceId <- {}, Quantity <- {}, StockLevel <- {}, items <- [o \in OrderId |-> <<>>],
    services <- [o \in OrderId |-> {}], stock <- <<>>, reserved <- <<>>,
    CustomerId <- OrderId, CustomerOf <- [o \in OrderId |-> o]

\* The parameters are what ServiceOrderSaga assumes of its own.
LEMMA SagaParameters ==
    /\ [o \in OrderId |-> o] \in [OrderId -> OrderId]
    /\ {} \subseteq Int
    /\ {} \subseteq Nat
OBVIOUS

LEMMA SameTables ==
    /\ Facts!OSStatus = OSStatus /\ Facts!SagaCommandType = SagaCommandType
    /\ Facts!SagaReplyType = SagaReplyType /\ Facts!Compensable = Compensable
    /\ Saga!Compensable = Compensable /\ Saga!SagaCommandType = SagaCommandType
    /\ \A r : Facts!EXPECTED_STATUS(r) = EXPECTED_STATUS(r) /\ Saga!EXPECTED_STATUS(r) = EXPECTED_STATUS(r)
    /\ \A c : Facts!ExpectedOfFailed(c) = ExpectedOfFailed(c) /\ Saga!ExpectedOfFailed(c) = ExpectedOfFailed(c)
BY DEF OSStatus, Facts!OSStatus, SagaCommandType, Facts!SagaCommandType, Saga!SagaCommandType,
   SagaReplyType, Facts!SagaReplyType, Compensable, Facts!Compensable, Saga!Compensable,
   EXPECTED_STATUS, Facts!EXPECTED_STATUS, Saga!EXPECTED_STATUS,
   ExpectedOfFailed, Facts!ExpectedOfFailed, Saga!ExpectedOfFailed, Saga!OSStatus

LEMMA SameType == Saga!TypeOK <=> Facts!TypeOK
BY DEF Saga!TypeOK, Facts!TypeOK, Saga!OSStatus, Facts!OSStatus, Saga!Lines, Facts!Lines,
   Saga!Command, Facts!Command, Saga!SagaCommandType, Facts!SagaCommandType

LEMMA SameInit == Saga!Init <=> Facts!Init
BY DEF Saga!Init, Facts!Init, Saga!NoLines, Facts!NoLines

LEMMA SameActions ==
    \A o \in OrderId :
        /\ Saga!CreateServiceOrder(o, <<>>, {}) <=> Facts!CreateServiceOrder(o, <<>>, {})
        /\ Saga!Deliver(o) <=> Facts!Deliver(o)
        /\ Saga!DeleteCustomer(o) <=> Facts!DeleteCustomer(o)
BY DEF Saga!CreateServiceOrder, Facts!CreateServiceOrder, Saga!Send, Facts!Send, Saga!Cmd, Facts!Cmd,
   Saga!NoLines, Facts!NoLines, Saga!Deliver, Facts!Deliver, Saga!MoveTo, Facts!MoveTo,
   Saga!canTransition, Facts!canTransition, Saga!OSStatus, Facts!OSStatus,
   Saga!VALID_TRANSITIONS, Facts!VALID_TRANSITIONS, Saga!DeleteCustomer, Facts!DeleteCustomer,
   Saga!orderVars, Facts!orderVars, Saga!lineVars, Facts!lineVars, Saga!stockVars, Facts!stockVars

LEMMA SameReplies ==
    \A id, o, r :
        /\ Saga!DiagnosisStarted(id, o) <=> Facts!DiagnosisStarted(id, o)
        /\ Saga!DiagnosisCompleted(id, o) <=> Facts!DiagnosisCompleted(id, o)
        /\ Saga!BudgetGenerated(id, o) <=> Facts!BudgetGenerated(id, o)
        /\ Saga!BudgetApproved(id, o) <=> Facts!BudgetApproved(id, o)
        /\ Saga!BudgetRejected(id, o) <=> Facts!BudgetRejected(id, o)
        /\ Saga!PaymentConfirmed(id, o) <=> Facts!PaymentConfirmed(id, o)
        /\ Saga!PaymentFailed(id, o) <=> Facts!PaymentFailed(id, o)
        /\ Saga!RepairStarted(id, o) <=> Facts!RepairStarted(id, o)
        /\ Saga!RepairCompleted(id, o) <=> Facts!RepairCompleted(id, o)
        /\ Saga!CompensationConfirmed(id, o, r) <=> Facts!CompensationConfirmed(id, o, r)
        /\ Saga!IgnoredReply(id, o, r) <=> Facts!IgnoredReply(id, o, r)
        /\ Saga!StepFailed(id, o, r) <=> Facts!StepFailed(id, o, r)
        /\ Saga!ReportStuck(id, o, r) <=> Facts!ReportStuck(id, o, r)
        /\ Saga!IgnoredFailure(id, o, r) <=> Facts!IgnoredFailure(id, o, r)
<1> TAKE id, o, r
<1> USE DEF Saga!Accepted, Facts!Accepted, Saga!Record, Facts!Record, Saga!MoveTo, Facts!MoveTo,
   Saga!canTransition, Facts!canTransition, Saga!OSStatus, Facts!OSStatus,
   Saga!VALID_TRANSITIONS, Facts!VALID_TRANSITIONS, Saga!EXPECTED_STATUS, Facts!EXPECTED_STATUS,
   Saga!ExpectedOfFailed, Facts!ExpectedOfFailed, Saga!Send, Facts!Send, Saga!Cmd, Facts!Cmd,
   Saga!NoLines, Facts!NoLines, Saga!orderVars, Facts!orderVars, Saga!lineVars, Facts!lineVars,
   Saga!stockVars, Facts!stockVars, Saga!Ignored, Facts!Ignored,
   Saga!ReleaseReservations, Facts!ReleaseReservations, Saga!CanRelease, Facts!CanRelease,
   Saga!Consume, Facts!Consume, Saga!CanConsume, Facts!CanConsume
<1>1. Saga!DiagnosisStarted(id, o) <=> Facts!DiagnosisStarted(id, o)
  BY DEF Saga!DiagnosisStarted, Facts!DiagnosisStarted
<1>2. Saga!DiagnosisCompleted(id, o) <=> Facts!DiagnosisCompleted(id, o)
  BY DEF Saga!DiagnosisCompleted, Facts!DiagnosisCompleted
<1>3. Saga!BudgetGenerated(id, o) <=> Facts!BudgetGenerated(id, o)
  BY DEF Saga!BudgetGenerated, Facts!BudgetGenerated
<1>4. Saga!BudgetApproved(id, o) <=> Facts!BudgetApproved(id, o)
  BY DEF Saga!BudgetApproved, Facts!BudgetApproved
<1>5. Saga!BudgetRejected(id, o) <=> Facts!BudgetRejected(id, o)
  BY DEF Saga!BudgetRejected, Facts!BudgetRejected
<1>6. Saga!PaymentConfirmed(id, o) <=> Facts!PaymentConfirmed(id, o)
  BY DEF Saga!PaymentConfirmed, Facts!PaymentConfirmed
<1>7. Saga!PaymentFailed(id, o) <=> Facts!PaymentFailed(id, o)
  BY DEF Saga!PaymentFailed, Facts!PaymentFailed
<1>8. Saga!RepairStarted(id, o) <=> Facts!RepairStarted(id, o)
  BY DEF Saga!RepairStarted, Facts!RepairStarted
<1>9. Saga!RepairCompleted(id, o) <=> Facts!RepairCompleted(id, o)
  BY DEF Saga!RepairCompleted, Facts!RepairCompleted
<1>10. Saga!CompensationConfirmed(id, o, r) <=> Facts!CompensationConfirmed(id, o, r)
  BY DEF Saga!CompensationConfirmed, Facts!CompensationConfirmed
<1>11. Saga!IgnoredReply(id, o, r) <=> Facts!IgnoredReply(id, o, r)
  BY DEF Saga!IgnoredReply, Facts!IgnoredReply
<1>12. Saga!StepFailed(id, o, r) <=> Facts!StepFailed(id, o, r)
  BY DEF Saga!StepFailed, Facts!StepFailed, Saga!Compensable, Facts!Compensable,
     Saga!CancelCommands, Facts!CancelCommands
<1>13. Saga!ReportStuck(id, o, r) <=> Facts!ReportStuck(id, o, r)
  BY DEF Saga!ReportStuck, Facts!ReportStuck, Saga!Compensable, Facts!Compensable,
     Saga!SagaCommandType, Facts!SagaCommandType
<1>14. Saga!IgnoredFailure(id, o, r) <=> Facts!IgnoredFailure(id, o, r)
  BY DEF Saga!IgnoredFailure, Facts!IgnoredFailure
<1> QED
  BY <1>1, <1>2, <1>3, <1>4, <1>5, <1>6, <1>7, <1>8, <1>9, <1>10, <1>11, <1>12, <1>13, <1>14

-----------------------------------------------------------------------------
(* Every step of the conversation is a step of the saga, or none.          *)

\* The commands of an order and their places in the outbox.
LEMMA Places ==
    ASSUME TypeOK, NEW o \in OrderId
    PROVE  /\ Len(outbox[o]) \in Nat
           /\ DOMAIN outbox[o] = 1 .. Len(outbox[o])
           /\ \A k \in 1 .. Len(outbox[o]) : TypeOf(o, k) \in SagaCommandType
<1>1. outbox[o] \in Seq(Facts!Command)
  BY SameType DEF TypeOK, Facts!TypeOK
<1>2. \A c \in Facts!Command : c.type \in SagaCommandType
  BY SameTables DEF Facts!Command
<1> QED
  BY <1>1, <1>2 DEF TypeOf

\* The reply at the head of the queue is one of the saga's replies.
LEMMA Heads ==
    ASSUME TypeOK, NEW o \in OrderId, HasReply(o)
    PROVE  /\ taken[o] \in Nat /\ taken[o] + 1 \in 1 .. Len(answers[o])
           /\ Len(answers[o]) \in Nat
           /\ HeadReply(o) \in SagaReplyType
           /\ HeadId(o) \in MessageId
<1>1. answers[o] \in Seq(SagaReplyType) /\ taken[o] \in Nat
  BY DEF TypeOK
<1> QED
  BY <1>1 DEF HasReply, HeadReply, HeadId, MessageId

\* handle() is the handler of the saga for the reply at the head.
LEMMA ReplyIsSaga ==
    ASSUME TypeOK, NEW o \in OrderId, HandleReply(o)
    PROVE  HeadId(o) \in MessageId /\ Facts!HandleReply(HeadId(o), o)
<1>1. HeadReply(o) \in SagaReplyType /\ HeadId(o) \in MessageId
  BY Heads DEF HandleReply
<1> QED
  BY <1>1, SameReplies, SameTables DEF HandleReply, Handle, Facts!HandleReply

\* A dead command is handled as the saga handles it.
LEMMA DeadIsSaga ==
    ASSUME TypeOK, NEW o \in OrderId, NEW q \in Queue, HandleDeadCommand(o, q)
    PROVE  \E k \in HeadOfDead(o, q) :
              /\ CommandId(o, k) \in MessageId
              /\ Facts!HandleFailedCommand(CommandId(o, k), o)
<1>1. PICK k \in HeadOfDead(o, q) :
         \/ Saga!StepFailed(CommandId(o, k), o, TypeOf(o, k))
         \/ Saga!ReportStuck(CommandId(o, k), o, TypeOf(o, k))
         \/ Saga!IgnoredFailure(CommandId(o, k), o, TypeOf(o, k))
  BY DEF HandleDeadCommand
<1>2. k \in DOMAIN outbox[o]
  BY <1>1 DEF HeadOfDead, Addressed
<1>3. k \in Nat /\ TypeOf(o, k) \in SagaCommandType
  BY <1>2, Places
<1> QED
  BY <1>1, <1>3, SameReplies, SameTables DEF Facts!HandleFailedCommand, CommandId, MessageId

\* What is left of the saga's step when the conversation leaves the tables alone.
LEMMA TablesAlone == UNCHANGED serviceVars => UNCHANGED Facts!vars
BY DEF serviceVars, Facts!vars

LEMMA NextIsSaga ==
    ASSUME TypeOK, [Next /\ UNCHANGED faults]_<<vars, faults>>
    PROVE  [Facts!Next]_(Facts!vars)
<1>1. CASE UNCHANGED vars
  BY <1>1, TablesAlone DEF vars
<1>2. ASSUME NEW o \in OrderId, Open(o)
      PROVE  Facts!Request
  <2>1. <<>> \in Facts!RequestedLines
    BY DEF Facts!RequestedLines
  <2> QED
    BY <1>2, <2>1, SameActions DEF Open, Facts!Request
<1>3. ASSUME NEW o \in OrderId, Deliver(o) \/ CustomerLeaves(o)
      PROVE  Facts!Request
  BY <1>3, SameActions DEF Deliver, CustomerLeaves, Facts!Request
<1>4. ASSUME NEW o \in OrderId,
             \/ MechanicActs(o) \/ CustomerActs(o) \/ DeleteReply(o) \/ ReplyDies(o)
             \/ \E q \in Queue : \/ TakeCommand(o, q) \/ CommandDies(o, q)
                                 \/ CarriedOutAndDead(o, q) \/ DeleteDeadCommand(o, q)
      PROVE  UNCHANGED Facts!vars
  BY <1>4, TablesAlone DEF MechanicActs, CustomerActs, DeleteReply, ReplyDies, TakeCommand,
     CommandDies, CarriedOutAndDead, DeleteDeadCommand
<1>5. ASSUME NEW o \in OrderId, HandleReply(o)
      PROVE  \E id \in MessageId : Facts!HandleReply(id, o)
  BY <1>5, ReplyIsSaga
<1>6. ASSUME NEW o \in OrderId, NEW q \in Queue, HandleDeadCommand(o, q)
      PROVE  \E id \in MessageId : Facts!HandleFailedCommand(id, o)
  BY <1>6, DeadIsSaga
<1> QED
  BY <1>1, <1>2, <1>3, <1>4, <1>5, <1>6 DEF Next, Facts!Next, vars

-----------------------------------------------------------------------------
(* Type correctness.                                                       *)

ExecutionState == {"none", "diagnosis", "diagnosing", "diagnosed",
                   "repair", "repairing", "repaired", "cancelled"}

BillingState == {"none", "budget", "approved", "rejected",
                 "charged", "paid", "refused", "cancelled"}

\* Replies are appended to those about one order.
LEMMA AnswerAppends ==
    ASSUME TypeOK, NEW o \in OrderId, NEW replies \in Seq(SagaReplyType), Answer(o, replies)
    PROVE  /\ answers' \in [OrderId -> Seq(SagaReplyType)]
           /\ Len(answers[o]) \in Nat /\ Len(replies) \in Nat
           /\ Len(answers'[o]) = Len(answers[o]) + Len(replies)
           /\ \A k \in 1 .. Len(answers[o]) : answers'[o][k] = answers[o][k]
           /\ \A k \in 1 .. Len(replies) : answers'[o][Len(answers[o]) + k] = replies[k]
           /\ \A p \in OrderId \ {o} : answers'[p] = answers[p]
<1>1. answers[o] \in Seq(SagaReplyType)
  BY DEF TypeOK
<1>2. answers'[o] = answers[o] \o replies /\ \A p \in OrderId \ {o} : answers'[p] = answers[p]
  BY DEF TypeOK, Answer
<1>3. answers[o] \o replies \in Seq(SagaReplyType)
  BY <1>1
<1>4. answers' \in [OrderId -> Seq(SagaReplyType)]
  BY <1>3 DEF TypeOK, Answer
<1> QED
  BY <1>1, <1>2, <1>4

\* More replies leave those taken among them.
LEMMA AnswerType ==
    ASSUME TypeOK, NEW o \in OrderId, NEW replies \in Seq(SagaReplyType), Answer(o, replies),
           taken' = taken
    PROVE  /\ answers' \in [OrderId -> Seq(SagaReplyType)]
           /\ taken' \in [OrderId -> Nat] /\ \A p \in OrderId : taken'[p] <= Len(answers'[p])
<1>1. \A p \in OrderId : taken[p] \in Nat /\ taken[p] <= Len(answers[p])
  BY DEF TypeOK
<1>2. /\ answers' \in [OrderId -> Seq(SagaReplyType)]
      /\ Len(answers[o]) \in Nat /\ Len(replies) \in Nat
      /\ Len(answers'[o]) = Len(answers[o]) + Len(replies)
      /\ \A p \in OrderId \ {o} : answers'[p] = answers[p]
  BY AnswerAppends
<1>3. \A p \in OrderId : taken[p] <= Len(answers'[p])
  BY <1>1, <1>2
<1> QED
  BY <1>2, <1>3 DEF TypeOK

\* What a participant says at once when it carries a command out.
ReplyTo(c) ==
    CASE c = "GenerateBudget"  -> <<"BudgetGenerated">>
      [] c = "CancelExecution" -> <<"ExecutionCancelled">>
      [] c = "CancelBudget"    -> <<"BudgetCancelled">>
      [] OTHER -> <<>>

LEMMA ReplyToType ==
    ASSUME NEW c \in SagaCommandType
    PROVE  ReplyTo(c) \in Seq(SagaReplyType)
<1>1. /\ "BudgetGenerated" \in SagaReplyType /\ "ExecutionCancelled" \in SagaReplyType
      /\ "BudgetCancelled" \in SagaReplyType
  BY DEF SagaReplyType
<1>2. \A r \in SagaReplyType : <<r>> \in Seq(SagaReplyType)
  OBVIOUS
<1>3. <<>> \in Seq(SagaReplyType)
  OBVIOUS
<1> QED
  BY <1>1, <1>2, <1>3 DEF ReplyTo, SagaCommandType

\* A command that is carried out moves one participant, and says something.
LEMMA CarryOutType ==
    ASSUME TypeOK, NEW o \in OrderId, NEW c \in SagaCommandType, CarryOut(o, c), taken' = taken
    PROVE  /\ Answer(o, ReplyTo(c))
           /\ execution' \in [OrderId -> ExecutionState]
           /\ billing' \in [OrderId -> BillingState]
           /\ answers' \in [OrderId -> Seq(SagaReplyType)]
           /\ taken' \in [OrderId -> Nat] /\ \A p \in OrderId : taken'[p] <= Len(answers'[p])
<1>1. Answer(o, ReplyTo(c))
  BY DEF CarryOut, ReplyTo
<1>2. execution' \in [OrderId -> ExecutionState]
  BY DEF CarryOut, TypeOK, ExecutionState, SagaCommandType
<1>3. billing' \in [OrderId -> BillingState]
  BY DEF CarryOut, TypeOK, BillingState, SagaCommandType
<1> QED
  BY <1>1, <1>2, <1>3, ReplyToType, AnswerType

LEMMA ReceivedType ==
    ASSUME TypeOK, NEW o \in OrderId, NEW q \in Queue, Received(o, q)
    PROVE  handed' \in [OrderId -> [Queue -> Nat]]
<1>1. handed[o] \in [Queue -> Nat]
  BY DEF TypeOK
<1>2. [handed[o] EXCEPT ![q] = @ + 1] \in [Queue -> Nat]
  BY <1>1
<1> QED
  BY <1>2 DEF TypeOK, Received

\* The tables of the saga, and the faults, keep their types in every step.
LEMMA TablesType ==
    ASSUME TypeOK, [Next /\ UNCHANGED faults]_<<vars, faults>>
    PROVE  Saga!TypeOK' /\ faults' \in Faults
<1>1. Facts!TypeOK /\ [Facts!Next]_(Facts!vars)
  BY NextIsSaga, SameType DEF TypeOK
<1>2. Facts!TypeOK'
  BY <1>1, SagaParameters, Facts!NextType
<1>3. Saga!TypeOK'
  BY <1>2 DEF Saga!TypeOK, Facts!TypeOK, Saga!OSStatus, Facts!OSStatus, Saga!Lines, Facts!Lines,
     Saga!Command, Facts!Command, Saga!SagaCommandType, Facts!SagaCommandType
<1> QED
  BY <1>3 DEF TypeOK

\* The participants, their queues and the alerts keep their types.
LEMMA NextType ==
    ASSUME TypeOK, [Next /\ UNCHANGED faults]_<<vars, faults>>
    PROVE  TypeOK'
<1>1. Saga!TypeOK' /\ faults' \in Faults
  BY TablesType
<1> USE <1>1 DEF participantVars, alertVars
<1>2. CASE UNCHANGED vars
  BY <1>2 DEF TypeOK, vars
<1>3. ASSUME NEW o \in OrderId, Open(o) \/ Deliver(o) \/ CustomerLeaves(o) \/ HandleReply(o)
      PROVE  TypeOK'
  BY <1>3 DEF TypeOK, Open, Deliver, CustomerLeaves, HandleReply
<1>4. ASSUME NEW o \in OrderId, MechanicActs(o)
      PROVE  TypeOK'
  <2>1. PICK work \in Repairs :
           /\ execution' = [execution EXCEPT ![o] = work[2]]
           /\ Answer(o, <<work[3]>>)
           /\ UNCHANGED <<serviceVars, handed, dead, billing, taken, alertVars>>
    BY <1>4 DEF MechanicActs
  <2>2. work[2] \in ExecutionState /\ work[3] \in SagaReplyType
    BY DEF Repairs, ExecutionState, SagaReplyType
  <2>3. <<work[3]>> \in Seq(SagaReplyType)
    BY <2>2
  <2>4. /\ answers' \in [OrderId -> Seq(SagaReplyType)]
        /\ taken' \in [OrderId -> Nat] /\ \A p \in OrderId : taken'[p] <= Len(answers'[p])
    BY <2>1, <2>3, AnswerType
  <2>5. execution' \in [OrderId -> ExecutionState]
    BY <2>1, <2>2 DEF TypeOK, ExecutionState
  <2> QED
    BY <2>1, <2>4, <2>5 DEF TypeOK, ExecutionState
<1>5. ASSUME NEW o \in OrderId, CustomerActs(o)
      PROVE  TypeOK'
  <2>1. PICK decision \in Decisions :
           /\ billing' = [billing EXCEPT ![o] = decision[2]]
           /\ Answer(o, <<decision[3]>>)
           /\ UNCHANGED <<serviceVars, handed, dead, execution, taken, alertVars>>
    BY <1>5 DEF CustomerActs
  <2>2. decision[2] \in BillingState /\ decision[3] \in SagaReplyType
    BY DEF Decisions, BillingState, SagaReplyType
  <2>3. <<decision[3]>> \in Seq(SagaReplyType)
    BY <2>2
  <2>4. /\ answers' \in [OrderId -> Seq(SagaReplyType)]
        /\ taken' \in [OrderId -> Nat] /\ \A p \in OrderId : taken'[p] <= Len(answers'[p])
    BY <2>1, <2>3, AnswerType
  <2>5. billing' \in [OrderId -> BillingState]
    BY <2>1, <2>2 DEF TypeOK, BillingState
  <2> QED
    BY <2>1, <2>4, <2>5 DEF TypeOK, BillingState
<1>6. ASSUME NEW o \in OrderId, DeleteReply(o) \/ ReplyDies(o)
      PROVE  TypeOK'
  <2>1. /\ HasReply(o)
        /\ taken' = [taken EXCEPT ![o] = @ + 1]
        /\ lost' = lost \/ lost' = [lost EXCEPT ![o] = @ \cup {HeadReply(o)}]
        /\ UNCHANGED <<handed, dead, participantVars, stuck>>
    BY <1>6 DEF DeleteReply, ReplyDies
  <2>2. HeadReply(o) \in SagaReplyType /\ taken[o] + 1 \in 1 .. Len(answers[o])
    BY <2>1, Heads
  <2>3. taken' \in [OrderId -> Nat] /\ \A p \in OrderId : taken'[p] <= Len(answers'[p])
    BY <2>1, <2>2 DEF TypeOK
  <2>4. lost' \in [OrderId -> SUBSET SagaReplyType]
    <3>1. lost[o] \cup {HeadReply(o)} \in SUBSET SagaReplyType
      BY <2>2 DEF TypeOK
    <3> QED
      BY <2>1, <3>1 DEF TypeOK
  <2> QED
    BY <2>1, <2>3, <2>4 DEF TypeOK
<1>7. ASSUME NEW o \in OrderId, NEW q \in Queue, TakeCommand(o, q) \/ CarriedOutAndDead(o, q)
      PROVE  TypeOK'
  <2>1. PICK k \in NextCommand(o, q) :
           /\ CarryOut(o, TypeOf(o, k))
           /\ Received(o, q)
           /\ dead' = dead \/ dead' = [dead EXCEPT ![o] = @ \cup {k}]
           /\ UNCHANGED <<serviceVars, taken, alertVars>>
    BY <1>7 DEF TakeCommand, CarriedOutAndDead
  <2>2. k \in DOMAIN outbox[o]
    BY DEF NextCommand, Addressed
  <2>3. k \in Nat /\ TypeOf(o, k) \in SagaCommandType
    BY <2>2, Places
  <2>4. dead' \in [OrderId -> SUBSET Nat]
    <3>1. dead[o] \cup {k} \in SUBSET Nat
      BY <2>3 DEF TypeOK
    <3> QED
      BY <2>1, <3>1 DEF TypeOK
  <2>5. handed' \in [OrderId -> [Queue -> Nat]]
    BY <2>1, ReceivedType
  <2>6. /\ execution' \in [OrderId -> ExecutionState]
        /\ billing' \in [OrderId -> BillingState]
        /\ answers' \in [OrderId -> Seq(SagaReplyType)]
        /\ taken' \in [OrderId -> Nat] /\ \A p \in OrderId : taken'[p] <= Len(answers'[p])
    BY <2>1, <2>3, CarryOutType
  <2> QED
    BY <2>1, <2>4, <2>5, <2>6 DEF TypeOK, ExecutionState, BillingState
<1>8. ASSUME NEW o \in OrderId, NEW q \in Queue, CommandDies(o, q)
      PROVE  TypeOK'
  <2>1. PICK k \in NextCommand(o, q) :
           /\ dead' = [dead EXCEPT ![o] = @ \cup {k}]
           /\ Received(o, q)
           /\ UNCHANGED <<serviceVars, participantVars, taken, alertVars>>
    BY <1>8 DEF CommandDies
  <2>2. k \in DOMAIN outbox[o]
    BY DEF NextCommand, Addressed
  <2>3. dead[o] \cup {k} \in SUBSET Nat
    BY <2>2, Places DEF TypeOK
  <2>4. dead' \in [OrderId -> SUBSET Nat]
    BY <2>1, <2>3 DEF TypeOK
  <2>5. handed' \in [OrderId -> [Queue -> Nat]]
    BY <2>1, ReceivedType
  <2> QED
    BY <2>1, <2>4, <2>5 DEF TypeOK
<1>9. ASSUME NEW o \in OrderId, NEW q \in Queue, HandleDeadCommand(o, q)
      PROVE  TypeOK'
  <2>1. PICK k \in HeadOfDead(o, q) :
           /\ stuck' = stuck \/ stuck' = [stuck EXCEPT ![o] = @ \cup {TypeOf(o, k)}]
           /\ UNCHANGED <<handed, dead, participantVars, taken, lost>>
    BY <1>9 DEF HandleDeadCommand
  <2>2. k \in DOMAIN outbox[o]
    BY DEF HeadOfDead, Addressed
  <2>3. TypeOf(o, k) \in SagaCommandType
    BY <2>2, Places
  <2>4. stuck[o] \cup {TypeOf(o, k)} \in SUBSET SagaCommandType
    BY <2>3 DEF TypeOK
  <2>5. stuck' \in [OrderId -> SUBSET SagaCommandType]
    BY <2>1, <2>4 DEF TypeOK
  <2> QED
    BY <2>1, <2>5 DEF TypeOK
<1>10. ASSUME NEW o \in OrderId, NEW q \in Queue, DeleteDeadCommand(o, q)
       PROVE  TypeOK'
  <2>1. PICK k : /\ dead' = [dead EXCEPT ![o] = @ \ {k}]
                 /\ UNCHANGED <<handed, participantVars, taken, alertVars>>
    BY <1>10 DEF DeleteDeadCommand
  <2>2. dead[o] \ {k} \in SUBSET Nat
    BY DEF TypeOK
  <2>3. dead' \in [OrderId -> SUBSET Nat]
    BY <2>1, <2>2 DEF TypeOK
  <2> QED
    BY <2>1, <2>3 DEF TypeOK
<1> QED
  BY <1>2, <1>3, <1>4, <1>5, <1>6, <1>7, <1>8, <1>9, <1>10 DEF Next, vars

LEMMA InitType == Init => TypeOK
<1> SUFFICES ASSUME Init PROVE TypeOK
  OBVIOUS
<1>1. Saga!TypeOK
  BY SameInit, SameType, SagaParameters, Facts!InitType DEF Init
<1>2. <<>> \in Seq(SagaReplyType) /\ Len(<<>>) = 0
  OBVIOUS
<1> QED
  BY <1>1, <1>2 DEF Init, TypeOK

\* Every variable of the conversation is well typed in every reachable state:
\* only replies and commands of the saga travel, and nobody takes a reply that
\* was not sent.
THEOREM TypeCorrect == Spec => []TypeOK
<1> QED
  BY InitType, NextType, PTL DEF Spec

-----------------------------------------------------------------------------
(* The facts about the saga alone, of the tables of this module.           *)

\* What an order asked of the participants is decided by its status.
Trails == \A o \in OrderId : Facts!TrailOf(o)

LEMMA SagaFollowed == Spec => Facts!Spec
<1>1. Init => Facts!Init
  BY SameInit DEF Init
<1>2. TypeOK /\ [Next /\ UNCHANGED faults]_<<vars, faults>> => [Facts!Next]_(Facts!vars)
  BY NextIsSaga
<1> QED
  BY <1>1, <1>2, TypeCorrect, PTL DEF Spec, Facts!Spec

\* The two instances have the same steps.
LEMMA SameNext == [Facts!Next]_(Facts!vars) <=> [Saga!Next]_(Saga!vars)
<1>1. Facts!Request <=> Saga!Request
  <2>1. Facts!RequestedLines = Saga!RequestedLines
    BY DEF Facts!RequestedLines, Saga!RequestedLines
  <2>2. \A o, lines, tasks :
           Facts!CreateServiceOrder(o, lines, tasks) <=> Saga!CreateServiceOrder(o, lines, tasks)
    BY DEF Saga!CreateServiceOrder, Facts!CreateServiceOrder, Saga!Send, Facts!Send, Saga!Cmd,
       Facts!Cmd, Saga!NoLines, Facts!NoLines
  <2> QED
    BY <2>1, <2>2, SameActions, Zenon DEF Facts!Request, Saga!Request
<1>2. \A id, o : Facts!HandleReply(id, o) <=> Saga!HandleReply(id, o)
  <2>1. Facts!SagaReplyType = Saga!SagaReplyType
    BY DEF Facts!SagaReplyType, Saga!SagaReplyType
  <2> QED
    BY <2>1, SameReplies, Zenon DEF Facts!HandleReply, Saga!HandleReply
<1>3. \A id, o : Facts!HandleFailedCommand(id, o) <=> Saga!HandleFailedCommand(id, o)
  BY SameTables, SameReplies, Zenon DEF Facts!HandleFailedCommand, Saga!HandleFailedCommand
<1>4. Facts!vars = Saga!vars
  BY DEF Facts!vars, Saga!vars
<1>5. \A id : Facts!Duplicate(id) <=> Saga!Duplicate(id)
  BY DEF Facts!Duplicate, Saga!Duplicate, Facts!vars, Saga!vars
<1>6. (UNCHANGED Facts!vars) <=> UNCHANGED Saga!vars
  BY DEF Facts!vars, Saga!vars
<1> QED
  BY <1>1, <1>2, <1>3, <1>5, <1>6, Zenon DEF Facts!Next, Saga!Next

\* The conversation implements the saga, whatever the participants answer, in
\* whatever order the queues bring it, and whatever dies: on the tables of this
\* service each of its steps is a step of ServiceOrderSaga or none at all. So all
\* that is proved of the saga under arbitrary messages holds here.
THEOREM SagaImplemented == Spec => Saga!Spec
<1>1. Init => Saga!Init
  BY DEF Init
<1>2. TypeOK /\ [Next /\ UNCHANGED faults]_<<vars, faults>> => [Saga!Next]_(Saga!vars)
  BY NextIsSaga, SameNext
<1> QED
  BY <1>1, <1>2, TypeCorrect, PTL DEF Spec, Saga!Spec

LEMMA TrailsCorrect == Spec => []Trails
<1>1. Facts!Trail => Trails
  BY DEF Facts!Trail, Trails
<1>2. Facts!Spec => []Facts!Trail
  BY SagaParameters, Facts!TrailCorrect
<1> QED
  BY <1>1, <1>2, SagaFollowed, PTL

\* Which commands an order has sent, and at which places in its outbox.
LEMMA Shapes ==
    ASSUME TypeOK, NEW o \in OrderId, Facts!TrailOf(o)
    PROVE  /\ \A k \in 1 .. Len(outbox[o]) :
                 /\ TypeOf(o, k) = "EnqueueDiagnosis" <=> k = 1
                 /\ TypeOf(o, k) = "GenerateBudget" <=> k = 2
                 /\ TypeOf(o, k) = "RequestPayment" => k = 3
                 /\ TypeOf(o, k) = "EnqueueRepair" => k = 4 /\ TypeOf(o, 3) = "RequestPayment"
                 /\ TypeOf(o, k) = "CancelExecution" =>
                       /\ k \in {3, 4} /\ status[o] \in {"REJECTED", "CANCELLED"}
                       /\ k = 4 => TypeOf(o, 3) = "RequestPayment"
                 /\ TypeOf(o, k) = "CancelBudget" =>
                       /\ k = 5 /\ status[o] = "CANCELLED" /\ Len(outbox[o]) = 5
                       /\ TypeOf(o, 3) = "RequestPayment" /\ TypeOf(o, 4) = "CancelExecution"
           /\ status[o] = "NONE" => Len(outbox[o]) = 0
           /\ status[o] \in {"RECEIVED", "DIAGNOSIS"} => Len(outbox[o]) = 1
           /\ status[o] = "WAITING_APPROVAL" => Len(outbox[o]) = 2
           /\ status[o] = "APPROVED" => Len(outbox[o]) = 3 /\ TypeOf(o, 3) = "RequestPayment"
           /\ status[o] = "CANCELLED" /\ Len(outbox[o]) # 5 =>
                 \A k \in 1 .. Len(outbox[o]) : TypeOf(o, k) # "RequestPayment"
           /\ status[o] = "REJECTED" =>
                 \A k \in 1 .. Len(outbox[o]) : TypeOf(o, k) # "RequestPayment"
<1>1. status[o] \in OSStatus \cup {"NONE"}
  BY SameType, SameTables DEF TypeOK, Facts!TypeOK
<1>2. CASE Facts!Sent0(o) \/ Facts!Sent1(o)
  <2>1. \A k \in 1 .. Len(outbox[o]) : k = 1
    <3>1. CASE Len(outbox[o]) = 0
      BY <3>1
    <3>2. CASE Len(outbox[o]) = 1
      BY <3>2
    <3> QED
      BY <1>2, <3>1, <3>2 DEF Facts!Sent0, Facts!Sent1
  <2> QED
    BY <1>1, <1>2, <2>1 DEF TypeOf, Facts!TrailOf, Facts!Paid, OSStatus,
       Facts!Sent0, Facts!Sent1, Facts!Sent2, Facts!Sent3, Facts!Sent4, Facts!Sent5
<1>3. CASE Facts!Sent2(o)
  <2>1. 1 .. Len(outbox[o]) = {1, 2}
    BY <1>3 DEF Facts!Sent2
  <2> QED
    BY <1>1, <1>3, <2>1 DEF TypeOf, Facts!TrailOf, Facts!Paid, OSStatus,
       Facts!Sent0, Facts!Sent1, Facts!Sent2, Facts!Sent3, Facts!Sent4, Facts!Sent5
<1>4. CASE Facts!Sent3(o, "RequestPayment") \/ Facts!Sent3(o, "CancelExecution")
  <2>1. 1 .. Len(outbox[o]) = {1, 2, 3}
    <3>1. Len(outbox[o]) = 3
      BY <1>4 DEF Facts!Sent3
    <3> QED
      BY <3>1
  <2> QED
    BY <1>1, <1>4, <2>1 DEF TypeOf, Facts!TrailOf, Facts!Paid, OSStatus,
       Facts!Sent0, Facts!Sent1, Facts!Sent2, Facts!Sent3, Facts!Sent4, Facts!Sent5
<1>5. CASE Facts!Sent4(o)
  <2>1. 1 .. Len(outbox[o]) = {1, 2, 3, 4}
    BY <1>5 DEF Facts!Sent4
  <2> QED
    BY <1>1, <1>5, <2>1 DEF TypeOf, Facts!TrailOf, Facts!Paid, OSStatus,
       Facts!Sent0, Facts!Sent1, Facts!Sent2, Facts!Sent3, Facts!Sent4, Facts!Sent5
<1>6. CASE Facts!Sent5(o)
  <2>1. 1 .. Len(outbox[o]) = {1, 2, 3, 4, 5}
    BY <1>6 DEF Facts!Sent5
  <2> QED
    BY <1>1, <1>6, <2>1 DEF TypeOf, Facts!TrailOf, Facts!Paid, OSStatus,
       Facts!Sent0, Facts!Sent1, Facts!Sent2, Facts!Sent3, Facts!Sent4, Facts!Sent5
<1> QED
  BY <1>1, <1>2, <1>3, <1>4, <1>5, <1>6 DEF Facts!TrailOf, Facts!Paid, OSStatus

\* Where the next command of a queue is, and how many came before it: a
\* cancellation is next only after all that it cancels was handed over.
LEMMA NextPlace ==
    ASSUME TypeOK, NEW o \in OrderId, Facts!TrailOf(o), NEW q \in Queue,
           NEW k \in NextCommand(o, q)
    PROVE  /\ k \in 1 .. Len(outbox[o])
           /\ TypeOf(o, k) \in SagaCommandType
           /\ q = Destination(TypeOf(o, k))
           /\ TypeOf(o, k) \in {"EnqueueDiagnosis", "GenerateBudget"} => handed[o][q] = 0
           /\ TypeOf(o, k) \in {"RequestPayment", "EnqueueRepair", "CancelExecution"} =>
                 handed[o][q] = 1
           /\ TypeOf(o, k) = "CancelBudget" => handed[o][q] = 2
<1> DEFINE before == {j \in Addressed(o, q) : j < k}
<1>1. /\ k \in 1 .. Len(outbox[o]) /\ TypeOf(o, k) \in SagaCommandType
      /\ DOMAIN outbox[o] = 1 .. Len(outbox[o]) /\ Len(outbox[o]) \in Nat
      /\ Destination(TypeOf(o, k)) = q /\ Cardinality(before) = handed[o][q]
  BY Places DEF NextCommand, Addressed
<1>2. \A j \in before : j \in 1 .. Len(outbox[o]) /\ j < k /\ Destination(TypeOf(o, j)) = q
  BY <1>1 DEF Addressed
<1>3. \A j \in 1 .. Len(outbox[o]) : j < k /\ Destination(TypeOf(o, j)) = q => j \in before
  BY <1>1 DEF Addressed
<1>4. Cardinality({}) = 0 /\ \A x : Cardinality({x}) = 1
  BY FS_EmptySet, FS_Singleton
<1>5. Cardinality({2, 3}) = 2
  <2>1. IsFiniteSet({2}) /\ Cardinality({2}) = 1
    BY FS_Singleton
  <2>2. Cardinality({2} \cup {3}) = 2
    BY <2>1, FS_AddElement
  <2>3. {2, 3} = {2} \cup {3}
    OBVIOUS
  <2> QED
    BY <2>2, <2>3
<1> HIDE DEF before
<1>6. /\ \A j \in 1 .. Len(outbox[o]) :
            /\ TypeOf(o, j) = "EnqueueDiagnosis" <=> j = 1
            /\ TypeOf(o, j) = "GenerateBudget" <=> j = 2
            /\ TypeOf(o, j) = "RequestPayment" => j = 3
            /\ TypeOf(o, j) = "EnqueueRepair" => j = 4 /\ TypeOf(o, 3) = "RequestPayment"
            /\ TypeOf(o, j) = "CancelExecution" =>
                  j \in {3, 4} /\ (j = 4 => TypeOf(o, 3) = "RequestPayment")
            /\ TypeOf(o, j) = "CancelBudget" =>
                  /\ j = 5 /\ TypeOf(o, 3) = "RequestPayment" /\ TypeOf(o, 4) = "CancelExecution"
  BY Shapes
<1>7. CASE TypeOf(o, k) = "EnqueueDiagnosis"
  <2>1. before = {}
    BY <1>1, <1>2, <1>6, <1>7
  <2> QED
    BY <1>1, <1>4, <1>7, <2>1
<1>8. CASE TypeOf(o, k) = "GenerateBudget"
  <2>1. before = {}
    <3>1. k = 2 /\ Destination(TypeOf(o, 1)) # q /\ \A j \in before : j = 1
      BY <1>1, <1>2, <1>6, <1>8 DEF Destination
    <3> QED
      BY <1>2, <3>1
  <2> QED
    BY <1>1, <1>4, <1>8, <2>1
<1>9. CASE TypeOf(o, k) = "RequestPayment"
  <2>1. before = {2}
    <3>1. k = 3 /\ Destination(TypeOf(o, 1)) # q /\ Destination(TypeOf(o, 2)) = q
      BY <1>1, <1>6, <1>9 DEF Destination
    <3>2. 2 \in before
      BY <1>1, <1>3, <3>1
    <3>3. \A j \in before : j = 2
      BY <1>1, <1>2, <3>1
    <3> QED
      BY <3>2, <3>3
  <2> QED
    BY <1>1, <1>4, <1>9, <2>1
<1>10. CASE TypeOf(o, k) \in {"EnqueueRepair", "CancelExecution"}
  <2>1. before = {1}
    <3>1. k \in {3, 4} /\ Destination(TypeOf(o, 1)) = q /\ Destination(TypeOf(o, 2)) # q
          /\ (k = 4 => Destination(TypeOf(o, 3)) # q)
      BY <1>1, <1>6, <1>10 DEF Destination
    <3>2. 1 \in before
      BY <1>1, <1>3, <3>1
    <3>3. \A j \in before : j = 1
      BY <1>1, <1>2, <3>1
    <3> QED
      BY <3>2, <3>3
  <2> QED
    BY <1>1, <1>4, <1>10, <2>1
<1>11. CASE TypeOf(o, k) = "CancelBudget"
  <2>1. before = {2, 3}
    <3>1. k = 5 /\ Destination(TypeOf(o, 1)) # q /\ Destination(TypeOf(o, 2)) = q
          /\ Destination(TypeOf(o, 3)) = q /\ Destination(TypeOf(o, 4)) # q
      BY <1>1, <1>6, <1>11 DEF Destination
    <3>2. 2 \in before /\ 3 \in before
      BY <1>1, <1>3, <3>1
    <3>3. \A j \in before : j = 2 \/ j = 3
      BY <1>1, <1>2, <3>1
    <3> QED
      BY <3>2, <3>3
  <2> QED
    BY <1>1, <1>5, <1>11, <2>1
<1> QED
  BY <1>1, <1>7, <1>8, <1>9, <1>10, <1>11 DEF SagaCommandType

-----------------------------------------------------------------------------
(* What each step does to an order, read off the actions of the saga.      *)

ReplyId(o, k) == <<o, "reply", k>>

\* A step that leaves everything of an order as it was.
Untouched(p) ==
    /\ status'[p] = status[p] /\ outbox'[p] = outbox[p]
    /\ handed'[p] = handed[p] /\ dead'[p] = dead[p]
    /\ execution'[p] = execution[p] /\ billing'[p] = billing[p]
    /\ answers'[p] = answers[p] /\ taken'[p] = taken[p]
    /\ \A k : ReplyId(p, k) \in processed' <=> ReplyId(p, k) \in processed

\* The tables of the saga change for one order at most.
LEMMA TablesOfOne ==
    ASSUME TypeOK, NEW o \in OrderId,
           Open(o) \/ Deliver(o) \/ CustomerLeaves(o) \/ HandleReply(o)
              \/ \E q \in Queue : HandleDeadCommand(o, q)
    PROVE  /\ UNCHANGED <<handed, dead, participantVars, taken>>
           /\ \A p \in OrderId \ {o} : status'[p] = status[p] /\ outbox'[p] = outbox[p]
<1>1. UNCHANGED <<handed, dead, participantVars, taken>>
  BY DEF Open, Deliver, CustomerLeaves, HandleReply, HandleDeadCommand
<1>2. status \in [OrderId -> OSStatus \cup {"NONE"}] /\ outbox \in [OrderId -> Seq(Facts!Command)]
  BY SameType, SameTables DEF TypeOK, Facts!TypeOK
<1>3. CASE Open(o)
  BY <1>1, <1>2, <1>3, SameActions DEF Open, Facts!CreateServiceOrder, Facts!Send
<1>4. CASE Deliver(o) \/ CustomerLeaves(o)
  BY <1>1, <1>2, <1>4, SameActions DEF Deliver, CustomerLeaves, Facts!Deliver, Facts!MoveTo,
     Facts!DeleteCustomer, Facts!orderVars
<1>5. ASSUME NEW id, Facts!HandleReply(id, o) \/ Facts!HandleFailedCommand(id, o)
      PROVE  \A p \in OrderId \ {o} : status'[p] = status[p] /\ outbox'[p] = outbox[p]
  BY <1>2, <1>5 DEF Facts!HandleReply, Facts!HandleFailedCommand, Facts!DiagnosisStarted,
     Facts!DiagnosisCompleted, Facts!BudgetGenerated, Facts!BudgetApproved, Facts!BudgetRejected,
     Facts!PaymentConfirmed, Facts!PaymentFailed, Facts!RepairStarted, Facts!RepairCompleted,
     Facts!CompensationConfirmed, Facts!IgnoredReply, Facts!Ignored, Facts!StepFailed,
     Facts!ReportStuck, Facts!IgnoredFailure, Facts!MoveTo, Facts!Send, Facts!orderVars
<1> QED
  BY <1>1, <1>3, <1>4, <1>5, ReplyIsSaga, DeadIsSaga

\* An order is opened with one command, and delivered with none.
LEMMA StaffMoves ==
    ASSUME TypeOK, NEW o \in OrderId, Open(o) \/ Deliver(o) \/ CustomerLeaves(o)
    PROVE  /\ processed' = processed
           /\ \/ status'[o] = status[o] /\ outbox'[o] = outbox[o]
              \/ status[o] = "NONE" /\ status'[o] = "RECEIVED"
              \/ status[o] = "FINISHED" /\ status'[o] = "DELIVERED" /\ outbox'[o] = outbox[o]
<1>1. status \in [OrderId -> OSStatus \cup {"NONE"}]
  BY SameType, SameTables DEF TypeOK, Facts!TypeOK
<1>2. CASE Open(o)
  BY <1>1, <1>2, SameActions DEF Open, Facts!CreateServiceOrder
<1>3. CASE Deliver(o)
  <2>1. status[o] = "FINISHED"
    BY <1>3, SameActions DEF Deliver, Facts!Deliver, Facts!MoveTo, Facts!canTransition,
       Facts!VALID_TRANSITIONS, Facts!OSStatus
  <2> QED
    BY <1>1, <1>3, <2>1, SameActions DEF Deliver, Facts!Deliver, Facts!MoveTo
<1>4. CASE CustomerLeaves(o)
  BY <1>4, SameActions DEF CustomerLeaves, Facts!DeleteCustomer, Facts!orderVars
<1> QED
  BY <1>2, <1>3, <1>4

\* The move of an order that its reply asks for.
ReplyMoves(r, from, to) ==
    \/ r = "DiagnosisStarted" /\ from = "RECEIVED" /\ to = "DIAGNOSIS"
    \/ r = "DiagnosisCompleted" /\ from = "DIAGNOSIS" /\ to = "WAITING_APPROVAL"
    \/ r = "BudgetApproved" /\ from = "WAITING_APPROVAL" /\ to = "APPROVED"
    \/ r = "BudgetRejected" /\ from = "WAITING_APPROVAL" /\ to = "REJECTED"
    \/ r = "PaymentConfirmed" /\ from = "APPROVED" /\ to = "PAID"
    \/ r = "PaymentFailed" /\ from = "APPROVED" /\ to = "CANCELLED"
    \/ r = "RepairStarted" /\ from = "PAID" /\ to = "EXECUTION"
    \/ r = "RepairCompleted" /\ from = "EXECUTION" /\ to = "FINISHED"

\* A reply is recorded once, and moves its order or leaves it alone: a reply
\* that leaves it alone moves nobody or comes in the wrong status.
LEMMA ReplyEffect ==
    ASSUME TypeOK, NEW o \in OrderId, HandleReply(o)
    PROVE  /\ HasReply(o) /\ HeadId(o) \notin processed
           /\ processed' = processed \cup {HeadId(o)}
           /\ \/ ReplyMoves(HeadReply(o), status[o], status'[o])
              \/ /\ status'[o] = status[o] /\ outbox'[o] = outbox[o]
                 /\ \/ HeadReply(o) \in {"BudgetGenerated", "ExecutionCancelled", "BudgetCancelled"}
                    \/ status[o] \notin EXPECTED_STATUS(HeadReply(o))
<1>1. status \in [OrderId -> OSStatus \cup {"NONE"}]
  BY SameType, SameTables DEF TypeOK, Facts!TypeOK
<1>2. HasReply(o) /\ Handle(HeadId(o), o, HeadReply(o))
  BY DEF HandleReply
<1> DEFINE id == HeadId(o)
           r == HeadReply(o)
<1> HIDE DEF id, r
<1>3. \/ r = "DiagnosisStarted" /\ Facts!DiagnosisStarted(id, o)
      \/ r = "DiagnosisCompleted" /\ Facts!DiagnosisCompleted(id, o)
      \/ r = "BudgetGenerated" /\ Facts!BudgetGenerated(id, o)
      \/ r = "BudgetApproved" /\ Facts!BudgetApproved(id, o)
      \/ r = "BudgetRejected" /\ Facts!BudgetRejected(id, o)
      \/ r = "PaymentConfirmed" /\ Facts!PaymentConfirmed(id, o)
      \/ r = "PaymentFailed" /\ Facts!PaymentFailed(id, o)
      \/ r = "RepairStarted" /\ Facts!RepairStarted(id, o)
      \/ r = "RepairCompleted" /\ Facts!RepairCompleted(id, o)
      \/ Facts!CompensationConfirmed(id, o, r)
      \/ Facts!IgnoredReply(id, o, r)
  BY <1>2, SameReplies DEF Handle, id, r
<1>4. id \notin processed /\ processed' = processed \cup {id}
  BY <1>3 DEF Facts!DiagnosisStarted, Facts!DiagnosisCompleted, Facts!BudgetGenerated,
     Facts!BudgetApproved, Facts!BudgetRejected, Facts!PaymentConfirmed, Facts!PaymentFailed,
     Facts!RepairStarted, Facts!RepairCompleted, Facts!CompensationConfirmed,
     Facts!IgnoredReply, Facts!Ignored, Facts!Accepted, Facts!Record
<1>5. \/ ReplyMoves(r, status[o], status'[o])
      \/ /\ status'[o] = status[o] /\ outbox'[o] = outbox[o]
         /\ \/ r \in {"BudgetGenerated", "ExecutionCancelled", "BudgetCancelled"}
            \/ status[o] \notin EXPECTED_STATUS(r)
  <2>1. CASE Facts!CompensationConfirmed(id, o, r) \/ (r = "BudgetGenerated" /\ Facts!BudgetGenerated(id, o))
    BY <2>1 DEF Facts!CompensationConfirmed, Facts!BudgetGenerated, Facts!orderVars
  <2>2. CASE Facts!IgnoredReply(id, o, r)
    BY <2>2, SameTables DEF Facts!IgnoredReply, Facts!Ignored, Facts!orderVars
  <2>3. CASE r = "DiagnosisStarted" /\ Facts!DiagnosisStarted(id, o)
    BY <1>1, <2>3 DEF ReplyMoves, Facts!DiagnosisStarted, Facts!Accepted, Facts!EXPECTED_STATUS, Facts!MoveTo
  <2>4. CASE r = "DiagnosisCompleted" /\ Facts!DiagnosisCompleted(id, o)
    BY <1>1, <2>4 DEF ReplyMoves, Facts!DiagnosisCompleted, Facts!Accepted, Facts!EXPECTED_STATUS, Facts!MoveTo
  <2>5. CASE r = "BudgetApproved" /\ Facts!BudgetApproved(id, o)
    BY <1>1, <2>5 DEF ReplyMoves, Facts!BudgetApproved, Facts!Accepted, Facts!EXPECTED_STATUS, Facts!MoveTo
  <2>6. CASE r = "BudgetRejected" /\ Facts!BudgetRejected(id, o)
    BY <1>1, <2>6 DEF ReplyMoves, Facts!BudgetRejected, Facts!Accepted, Facts!EXPECTED_STATUS, Facts!MoveTo
  <2>7. CASE r = "PaymentConfirmed" /\ Facts!PaymentConfirmed(id, o)
    BY <1>1, <2>7 DEF ReplyMoves, Facts!PaymentConfirmed, Facts!Accepted, Facts!EXPECTED_STATUS, Facts!MoveTo
  <2>8. CASE r = "PaymentFailed" /\ Facts!PaymentFailed(id, o)
    BY <1>1, <2>8 DEF ReplyMoves, Facts!PaymentFailed, Facts!Accepted, Facts!EXPECTED_STATUS, Facts!MoveTo
  <2>9. CASE r = "RepairStarted" /\ Facts!RepairStarted(id, o)
    BY <1>1, <2>9 DEF ReplyMoves, Facts!RepairStarted, Facts!Accepted, Facts!EXPECTED_STATUS, Facts!MoveTo
  <2>10. CASE r = "RepairCompleted" /\ Facts!RepairCompleted(id, o)
    BY <1>1, <2>10 DEF ReplyMoves, Facts!RepairCompleted, Facts!Accepted, Facts!EXPECTED_STATUS, Facts!MoveTo
  <2> QED
    BY <1>3, <2>1, <2>2, <2>3, <2>4, <2>5, <2>6, <2>7, <2>8, <2>9, <2>10
<1> QED
  BY <1>2, <1>4, <1>5 DEF id, r

\* A dead command is recorded once; it cancels an order that still waits for
\* it, or leaves it alone.
LEMMA DeadEffect ==
    ASSUME TypeOK, Trails, NEW o \in OrderId, NEW q \in Queue, HandleDeadCommand(o, q)
    PROVE  /\ \E k : processed' = processed \cup {CommandId(o, k)}
           /\ \/ status'[o] = status[o] /\ outbox'[o] = outbox[o]
              \/ /\ status'[o] = "CANCELLED"
                 /\ \/ status[o] = "RECEIVED" /\ 1 \in dead[o] /\ Len(outbox'[o]) = 1
                    \/ status[o] = "WAITING_APPROVAL" /\ 2 \in dead[o] /\ Len(outbox'[o]) = 3
                    \/ status[o] = "APPROVED" /\ 3 \in dead[o]
<1>1. status \in [OrderId -> OSStatus \cup {"NONE"}] /\ Facts!TypeOK
  BY SameType, SameTables DEF TypeOK, Facts!TypeOK
<1>2. PICK k \in HeadOfDead(o, q) :
         \/ Facts!StepFailed(CommandId(o, k), o, TypeOf(o, k))
         \/ Facts!ReportStuck(CommandId(o, k), o, TypeOf(o, k))
         \/ Facts!IgnoredFailure(CommandId(o, k), o, TypeOf(o, k))
  BY SameReplies DEF HandleDeadCommand
<1>3. k \in dead[o] /\ k \in 1 .. Len(outbox[o])
  BY Places DEF HeadOfDead, Addressed
<1>4. Facts!TrailOf(o)
  BY DEF Trails
<1>5. /\ TypeOf(o, k) = "EnqueueDiagnosis" => k = 1
      /\ TypeOf(o, k) = "GenerateBudget" => k = 2
      /\ TypeOf(o, k) = "RequestPayment" => k = 3
      /\ status[o] = "RECEIVED" => Len(outbox[o]) = 1
      /\ status[o] = "WAITING_APPROVAL" => Len(outbox[o]) = 2
  BY <1>3, <1>4, Shapes
<1> DEFINE id == CommandId(o, k)
           c == TypeOf(o, k)
<1> HIDE DEF id, c
<1>6. \/ Facts!StepFailed(id, o, c) \/ Facts!ReportStuck(id, o, c) \/ Facts!IgnoredFailure(id, o, c)
  BY <1>2 DEF id, c
<1>7. \E j : processed' = processed \cup {CommandId(o, j)}
  BY <1>6 DEF id, Facts!StepFailed, Facts!ReportStuck, Facts!IgnoredFailure, Facts!Ignored,
     Facts!Accepted, Facts!Record
<1>8. CASE Facts!ReportStuck(id, o, c) \/ Facts!IgnoredFailure(id, o, c)
  <2>1. status'[o] = status[o] /\ outbox'[o] = outbox[o]
    BY <1>8 DEF Facts!ReportStuck, Facts!IgnoredFailure, Facts!Ignored, Facts!orderVars
  <2> QED
    BY <1>7, <2>1
<1>9. CASE Facts!StepFailed(id, o, c)
  <2>1. /\ c \in Compensable /\ status[o] \in ExpectedOfFailed(c)
        /\ status'[o] = "CANCELLED" /\ Facts!Send(o, Facts!CancelCommands(c))
    BY <1>1, <1>9, SameTables DEF Facts!StepFailed, Facts!Accepted, Facts!MoveTo
  <2>2. CASE c = "EnqueueDiagnosis"
    <3>1. status[o] = "RECEIVED" /\ Facts!CancelCommands(c) = <<>>
      BY <2>1, <2>2 DEF ExpectedOfFailed, Facts!CancelCommands
    <3>2. Len(outbox'[o]) = Len(outbox[o])
      <4>1. outbox[o] \in Seq(Facts!Command) /\ outbox'[o] = outbox[o] \o <<>>
        BY <1>1, <2>1, <3>1 DEF Facts!TypeOK, Facts!Send
      <4> QED
        BY <4>1
    <3> QED
      BY <1>3, <1>5, <1>7, <2>1, <2>2, <3>1, <3>2 DEF c
  <2>3. CASE c = "GenerateBudget"
    <3>1. status[o] = "WAITING_APPROVAL"
          /\ Facts!CancelCommands(c) = <<Facts!Cmd("CancelExecution")>>
      BY <2>1, <2>3 DEF ExpectedOfFailed, Facts!CancelCommands
    <3>2. Facts!Cmd("CancelExecution") \in Facts!Command
      BY SagaParameters, Facts!CmdType DEF Facts!SagaCommandType
    <3>3. Len(outbox'[o]) = Len(outbox[o]) + 1
      BY <1>1, <2>1, <3>1, <3>2, SagaParameters, Facts!SendOne
    <3>4. 2 \in dead[o]
      BY <1>3, <1>5, <2>3 DEF c
    <3>5. Len(outbox[o]) = 2
      BY <1>5, <3>1
    <3>6. Len(outbox'[o]) = 3
      BY <3>3, <3>5
    <3> QED
      BY <1>7, <2>1, <3>1, <3>4, <3>6
  <2>4. CASE c = "RequestPayment"
    <3>1. status[o] = "APPROVED"
      BY <2>1, <2>4 DEF ExpectedOfFailed
    <3> QED
      BY <1>3, <1>5, <1>7, <2>1, <2>4, <3>1 DEF c
  <2> QED
    BY <2>1, <2>2, <2>3, <2>4 DEF Compensable
<1> QED
  BY <1>6, <1>8, <1>9

\* One reply more about an order.
LEMMA OneMore ==
    ASSUME TypeOK, NEW o \in OrderId, NEW r \in SagaReplyType, Answer(o, <<r>>)
    PROVE  /\ Len(answers[o]) \in Nat /\ Len(answers'[o]) = Len(answers[o]) + 1
           /\ answers'[o][Len(answers[o]) + 1] = r
           /\ \A k \in 1 .. Len(answers[o]) : answers'[o][k] = answers[o][k]
           /\ \A p \in OrderId \ {o} : answers'[p] = answers[p]
<1> DEFINE s == <<r>>
<1>1. s \in Seq(SagaReplyType) /\ Len(s) = 1 /\ s[1] = r /\ 1 \in 1 .. Len(s)
  OBVIOUS
<1> HIDE DEF s
<1>2. Answer(o, s)
  BY DEF s
<1> QED
  BY <1>1, <1>2, AnswerAppends

LEMMA NoneMore ==
    ASSUME TypeOK, NEW o \in OrderId, Answer(o, <<>>)
    PROVE  answers' = answers
<1>1. answers[o] \in Seq(SagaReplyType) /\ answers[o] \o <<>> = answers[o]
  BY DEF TypeOK
<1> QED
  BY <1>1 DEF Answer, TypeOK

\* What a participant becomes by carrying out the next command of its queue,
\* and what it says.
LEMMA CarryOutEffect ==
    ASSUME TypeOK, Trails, NEW o \in OrderId, NEW q \in Queue, NEW k \in NextCommand(o, q),
           CarryOut(o, TypeOf(o, k))
    PROVE  LET n == handed[o][q] IN
           \/ /\ q = "execution-commands" /\ n = 0 /\ k = 1
              /\ execution'[o] = "diagnosis" /\ billing'[o] = billing[o] /\ answers' = answers
           \/ /\ q = "execution-commands" /\ n = 1 /\ k = 4 /\ status[o] \in Facts!Paid
              /\ execution'[o] = "repair" /\ billing'[o] = billing[o] /\ answers' = answers
           \/ /\ q = "execution-commands" /\ n = 1 /\ k \in {3, 4}
              /\ status[o] \in {"REJECTED", "CANCELLED"}
              /\ execution'[o] = "cancelled" /\ billing'[o] = billing[o]
              /\ Answer(o, <<"ExecutionCancelled">>)
           \/ /\ q = "billing-commands" /\ n = 0 /\ k = 2
              /\ billing'[o] = "budget" /\ execution'[o] = execution[o]
              /\ Answer(o, <<"BudgetGenerated">>)
           \/ /\ q = "billing-commands" /\ n = 1 /\ k = 3
              /\ \/ status[o] \in {"APPROVED"} \cup Facts!Paid
                 \/ status[o] = "CANCELLED" /\ Len(outbox[o]) = 5
              /\ billing'[o] = "charged" /\ execution'[o] = execution[o] /\ answers' = answers
           \/ /\ q = "billing-commands" /\ n = 2 /\ k = 5
              /\ status[o] = "CANCELLED" /\ Len(outbox[o]) = 5
              /\ billing'[o] = "cancelled" /\ execution'[o] = execution[o]
              /\ Answer(o, <<"BudgetCancelled">>)
<1> DEFINE c == TypeOf(o, k)
<1>1. Facts!TrailOf(o) /\ status[o] \in OSStatus \cup {"NONE"}
  BY SameType, SameTables DEF Trails, TypeOK, Facts!TypeOK
<1>2. /\ k \in 1 .. Len(outbox[o]) /\ c \in SagaCommandType /\ q = Destination(c)
      /\ c \in {"EnqueueDiagnosis", "GenerateBudget"} => handed[o][q] = 0
      /\ c \in {"RequestPayment", "EnqueueRepair", "CancelExecution"} => handed[o][q] = 1
      /\ c = "CancelBudget" => handed[o][q] = 2
  BY <1>1, NextPlace
<1>3. /\ c = "EnqueueDiagnosis" => k = 1
      /\ c = "GenerateBudget" => k = 2
      /\ c = "RequestPayment" => k = 3
      /\ c = "EnqueueRepair" => k = 4
      /\ c = "CancelExecution" => k \in {3, 4} /\ status[o] \in {"REJECTED", "CANCELLED"}
      /\ c = "CancelBudget" => k = 5 /\ status[o] = "CANCELLED" /\ Len(outbox[o]) = 5
      /\ status[o] = "NONE" => Len(outbox[o]) = 0
      /\ status[o] \in {"RECEIVED", "DIAGNOSIS"} => Len(outbox[o]) = 1
      /\ status[o] = "WAITING_APPROVAL" => Len(outbox[o]) = 2
      /\ status[o] = "APPROVED" => Len(outbox[o]) = 3
      /\ status[o] = "CANCELLED" /\ Len(outbox[o]) # 5 => c # "RequestPayment"
      /\ status[o] = "REJECTED" => c # "RequestPayment"
  BY <1>1, <1>2, Shapes
<1>4. /\ c = "RequestPayment" => \/ status[o] \in {"APPROVED"} \cup Facts!Paid
                                 \/ status[o] = "CANCELLED" /\ Len(outbox[o]) = 5
      /\ c = "EnqueueRepair" => status[o] \in Facts!Paid
  <2>1. c = "RequestPayment" => \/ status[o] \in {"APPROVED"} \cup Facts!Paid
                                \/ status[o] = "CANCELLED" /\ Len(outbox[o]) = 5
    <3>1. SUFFICES ASSUME c = "RequestPayment"
                   PROVE  status[o] \notin {"NONE", "RECEIVED", "DIAGNOSIS", "WAITING_APPROVAL"}
      BY <1>1, <1>3 DEF OSStatus, Facts!Paid
    <3>2. k = 3 /\ ~ (3 \in 1 .. 0) /\ ~ (3 \in 1 .. 1) /\ ~ (3 \in 1 .. 2)
      BY <1>3, <3>1
    <3> QED
      BY <1>2, <1>3, <3>2
  <2>2. c = "EnqueueRepair" => status[o] \in Facts!Paid
    <3>1. SUFFICES ASSUME c = "EnqueueRepair", status[o] \in {"REJECTED", "CANCELLED"}
                   PROVE  FALSE
      <4>1. c = "EnqueueRepair" => k = 4 /\ ~ (4 \in 1 .. 0) /\ ~ (4 \in 1 .. 1)
                                    /\ ~ (4 \in 1 .. 2) /\ ~ (4 \in 1 .. 3)
        BY <1>3
      <4>2. c = "EnqueueRepair" =>
               status[o] \notin {"NONE", "RECEIVED", "DIAGNOSIS", "WAITING_APPROVAL", "APPROVED"}
        BY <1>2, <1>3, <4>1
      <4> QED
        BY <1>1, <4>2 DEF OSStatus, Facts!Paid
    <3>2. k = 4 /\ k <= Len(outbox[o])
      BY <1>2, <1>3, <3>1
    <3>3. outbox[o][4].type = "CancelExecution"
      BY <1>1, <3>1, <3>2 DEF Facts!TrailOf, Facts!Sent1, Facts!Sent3, Facts!Sent5
    <3> QED
      BY <3>1, <3>2, <3>3 DEF TypeOf
  <2> QED
    BY <2>1, <2>2
<1>5. /\ Answer(o, ReplyTo(c))
      /\ execution'[o] = CASE c = "EnqueueDiagnosis" -> "diagnosis"
                           [] c = "EnqueueRepair" -> "repair"
                           [] c = "CancelExecution" -> "cancelled"
                           [] OTHER -> execution[o]
      /\ billing'[o] = CASE c = "GenerateBudget" -> "budget"
                         [] c = "RequestPayment" -> "charged"
                         [] c = "CancelBudget" -> "cancelled"
                         [] OTHER -> billing[o]
  BY DEF CarryOut, ReplyTo, TypeOK
<1> HIDE DEF c
<1>6. CASE c = "EnqueueDiagnosis"
  BY <1>2, <1>3, <1>5, <1>6, NoneMore DEF ReplyTo, Destination
<1>7. CASE c = "EnqueueRepair"
  BY <1>2, <1>3, <1>4, <1>5, <1>7, NoneMore DEF ReplyTo, Destination
<1>8. CASE c = "CancelExecution"
  BY <1>2, <1>3, <1>5, <1>8 DEF ReplyTo, Destination
<1>9. CASE c = "GenerateBudget"
  BY <1>2, <1>3, <1>5, <1>9 DEF ReplyTo, Destination
<1>10. CASE c = "RequestPayment"
  BY <1>2, <1>3, <1>4, <1>5, <1>10, NoneMore DEF ReplyTo, Destination
<1>11. CASE c = "CancelBudget"
  BY <1>2, <1>3, <1>5, <1>11 DEF ReplyTo, Destination
<1> QED
  BY <1>2, <1>6, <1>7, <1>8, <1>9, <1>10, <1>11 DEF SagaCommandType

-----------------------------------------------------------------------------
(* The status of an order and the state of its participants. A status is   *)
(* reached because a participant said something, and a participant that    *)
(* said something has done it, whatever else goes wrong: it carries a      *)
(* command out once, and its commands in the order they were sent.         *)

Told(o, r) == \E k \in 1 .. Len(answers[o]) : answers[o][k] = r

\* A participant has done nothing that it was not asked for.
HandedOver(o) ==
    LET repairs == handed[o]["execution-commands"]
        bills   == handed[o]["billing-commands"] IN
    /\ repairs = 0 => execution[o] = "none"
    /\ repairs = 1 => execution[o] \in {"none", "diagnosis", "diagnosing", "diagnosed"}
    /\ bills = 0 => billing[o] = "none"
    /\ bills = 1 => billing[o] \in {"none", "budget", "approved", "rejected"}

ToldIsDone(o) ==
    /\ Told(o, "BudgetApproved") =>
          billing[o] \in {"approved", "charged", "paid", "refused", "cancelled"}
    /\ Told(o, "BudgetRejected") => billing[o] = "rejected"
    /\ Told(o, "PaymentConfirmed") => billing[o] \in {"paid", "cancelled"}
    /\ Told(o, "RepairStarted") => execution[o] \in {"repairing", "repaired", "cancelled"}
    /\ Told(o, "RepairCompleted") => execution[o] \in {"repaired", "cancelled"}

CancelledForGood(o) ==
    /\ billing[o] = "cancelled" => status[o] = "CANCELLED"
    /\ execution[o] = "cancelled" => status[o] \in {"REJECTED", "CANCELLED"}

StatusIsTold(o) ==
    /\ status[o] \in {"APPROVED"} \cup Facts!Paid => Told(o, "BudgetApproved")
    /\ status[o] = "CANCELLED" /\ Len(outbox[o]) = 5 => Told(o, "BudgetApproved")
    /\ status[o] = "REJECTED" => Told(o, "BudgetRejected")
    /\ status[o] \in Facts!Paid => Told(o, "PaymentConfirmed")
    /\ status[o] \in {"EXECUTION", "FINISHED", "DELIVERED"} => Told(o, "RepairStarted")
    /\ status[o] \in {"FINISHED", "DELIVERED"} => Told(o, "RepairCompleted")

AgreedOn(o) == HandedOver(o) /\ ToldIsDone(o) /\ CancelledForGood(o) /\ StatusIsTold(o)

Agreed == \A o \in OrderId : AgreedOn(o)

LEMMA AgreedKept ==
    ASSUME NEW p \in OrderId, AgreedOn(p),
           status'[p] = status[p], outbox'[p] = outbox[p], handed'[p] = handed[p],
           execution'[p] = execution[p], billing'[p] = billing[p], answers'[p] = answers[p]
    PROVE  AgreedOn(p)'
BY DEF AgreedOn, HandedOver, ToldIsDone, CancelledForGood, StatusIsTold, Told

\* The head of the queue of replies was told.
LEMMA HeadIsTold ==
    ASSUME TypeOK, NEW o \in OrderId, HasReply(o)
    PROVE  Told(o, HeadReply(o))
BY Heads DEF Told, HeadReply

\* The tables move for a reply that was told, or to be cancelled.
LEMMA TablesAgree ==
    ASSUME TypeOK, Trails, Agreed, NEW o \in OrderId,
           Open(o) \/ Deliver(o) \/ CustomerLeaves(o) \/ HandleReply(o)
              \/ \E q \in Queue : HandleDeadCommand(o, q)
    PROVE  AgreedOn(o)'
<1>1. /\ handed'[o] = handed[o] /\ execution'[o] = execution[o]
      /\ billing'[o] = billing[o] /\ answers'[o] = answers[o]
  BY TablesOfOne DEF participantVars
<1>2. AgreedOn(o) /\ \A r : Told(o, r)' <=> Told(o, r)
  BY <1>1 DEF Agreed, Told
<1>3. CASE status'[o] = status[o] /\ outbox'[o] = outbox[o]
  BY <1>1, <1>2, <1>3, AgreedKept
<1>4. ASSUME ToldIsDone(o), HandedOver(o)
      PROVE  ToldIsDone(o)' /\ HandedOver(o)'
  BY <1>1, <1>2, <1>4 DEF ToldIsDone, HandedOver
<1> SUFFICES ASSUME ~ (status'[o] = status[o] /\ outbox'[o] = outbox[o])
             PROVE  CancelledForGood(o)' /\ StatusIsTold(o)'
  BY <1>2, <1>3, <1>4 DEF AgreedOn
<1>5. CASE Open(o) \/ Deliver(o) \/ CustomerLeaves(o)
  <2>1. \/ status[o] = "NONE" /\ status'[o] = "RECEIVED"
        \/ status[o] = "FINISHED" /\ status'[o] = "DELIVERED" /\ outbox'[o] = outbox[o]
    BY <1>5, StaffMoves
  <2> QED
    BY <1>1, <1>2, <2>1 DEF AgreedOn, CancelledForGood, StatusIsTold, Facts!Paid
<1>6. CASE HandleReply(o)
  <2>1. ReplyMoves(HeadReply(o), status[o], status'[o]) /\ Told(o, HeadReply(o))
    BY <1>6, ReplyEffect, HeadIsTold
  <2> QED
    BY <1>1, <1>2, <2>1 DEF AgreedOn, CancelledForGood, StatusIsTold, ReplyMoves, Facts!Paid
<1>7. CASE \E q \in Queue : HandleDeadCommand(o, q)
  <2>1. /\ status'[o] = "CANCELLED"
        /\ \/ status[o] = "RECEIVED" /\ Len(outbox'[o]) = 1
           \/ status[o] = "WAITING_APPROVAL" /\ Len(outbox'[o]) = 3
           \/ status[o] = "APPROVED"
    BY <1>7, DeadEffect
  <2> QED
    BY <1>1, <1>2, <2>1 DEF AgreedOn, CancelledForGood, StatusIsTold, Facts!Paid
<1> QED
  BY <1>5, <1>6, <1>7

\* One reply more was told.
LEMMA ToldOneMore ==
    ASSUME TypeOK, NEW o \in OrderId, NEW s \in SagaReplyType, Answer(o, <<s>>)
    PROVE  \A r : Told(o, r)' <=> Told(o, r) \/ r = s
<1>1. /\ Len(answers[o]) \in Nat /\ Len(answers'[o]) = Len(answers[o]) + 1
      /\ answers'[o][Len(answers[o]) + 1] = s
      /\ \A k \in 1 .. Len(answers[o]) : answers'[o][k] = answers[o][k]
  BY OneMore
<1> TAKE r
<1>2. ASSUME Told(o, r) PROVE Told(o, r)'
  BY <1>1, <1>2 DEF Told
<1>3. ASSUME r = s PROVE Told(o, r)'
  <2>1. Len(answers[o]) + 1 \in 1 .. Len(answers'[o])
    BY <1>1
  <2> QED
    BY <1>1, <1>3, <2>1 DEF Told
<1>4. ASSUME Told(o, r)', r # s PROVE Told(o, r)
  <2>1. PICK k \in 1 .. Len(answers'[o]) : answers'[o][k] = r
    BY <1>4 DEF Told
  <2>2. k \in 1 .. Len(answers[o])
    BY <1>1, <1>4, <2>1
  <2> QED
    BY <1>1, <2>1, <2>2 DEF Told
<1> QED
  BY <1>2, <1>3, <1>4

\* A command that is received counts for its queue alone.
LEMMA ReceivedEffect ==
    ASSUME TypeOK, NEW o \in OrderId, NEW q \in Queue, Received(o, q)
    PROVE  /\ handed[o][q] \in Nat /\ handed'[o][q] = handed[o][q] + 1
           /\ \A r \in Queue \ {q} : handed'[o][r] = handed[o][r] /\ handed[o][r] \in Nat
           /\ \A p \in OrderId \ {o} : handed'[p] = handed[p]
BY DEF TypeOK, Received

\* A participant that takes a command over does not undo what it told, and one
\* whose command dies has done nothing new.
LEMMA CommandsAgree ==
    ASSUME TypeOK, Trails, Agreed, NEW o \in OrderId, NEW q \in Queue,
           TakeCommand(o, q) \/ CommandDies(o, q) \/ CarriedOutAndDead(o, q)
    PROVE  AgreedOn(o)'
<1>1. /\ AgreedOn(o) /\ status'[o] = status[o] /\ outbox'[o] = outbox[o]
      /\ Received(o, q) /\ "execution-commands" \in Queue /\ "billing-commands" \in Queue
  BY DEF TakeCommand, CommandDies, CarriedOutAndDead, serviceVars, Agreed, Queue
<1>2. /\ handed[o]["execution-commands"] \in Nat /\ handed[o]["billing-commands"] \in Nat
      /\ q = "execution-commands" =>
            /\ handed'[o]["execution-commands"] = handed[o]["execution-commands"] + 1
            /\ handed'[o]["billing-commands"] = handed[o]["billing-commands"]
      /\ q = "billing-commands" =>
            /\ handed'[o]["execution-commands"] = handed[o]["execution-commands"]
            /\ handed'[o]["billing-commands"] = handed[o]["billing-commands"] + 1
      /\ q = "execution-commands" \/ q = "billing-commands"
  BY <1>1, ReceivedEffect DEF Queue
<1>3. CASE CommandDies(o, q)
  <2>1. execution' = execution /\ billing' = billing /\ answers' = answers
    BY <1>3 DEF CommandDies, participantVars
  <2>2. HandedOver(o)'
    BY <1>1, <1>2, <2>1 DEF AgreedOn, HandedOver
  <2>3. ToldIsDone(o)' /\ CancelledForGood(o)' /\ StatusIsTold(o)'
    BY <1>1, <2>1 DEF AgreedOn, ToldIsDone, CancelledForGood, StatusIsTold, Told
  <2> QED
    BY <2>2, <2>3 DEF AgreedOn
<1>4. CASE TakeCommand(o, q) \/ CarriedOutAndDead(o, q)
  <2> DEFINE n == handed[o][q]
  <2>1. PICK k \in NextCommand(o, q) : CarryOut(o, TypeOf(o, k))
    BY <1>4 DEF TakeCommand, CarriedOutAndDead
  <2>2. \/ /\ q = "execution-commands" /\ n = 0
           /\ execution'[o] = "diagnosis" /\ billing'[o] = billing[o] /\ answers' = answers
        \/ /\ q = "execution-commands" /\ n = 1 /\ status[o] \in Facts!Paid
           /\ execution'[o] = "repair" /\ billing'[o] = billing[o] /\ answers' = answers
        \/ /\ q = "execution-commands" /\ n = 1 /\ status[o] \in {"REJECTED", "CANCELLED"}
           /\ execution'[o] = "cancelled" /\ billing'[o] = billing[o]
           /\ Answer(o, <<"ExecutionCancelled">>)
        \/ /\ q = "billing-commands" /\ n = 0
           /\ billing'[o] = "budget" /\ execution'[o] = execution[o]
           /\ Answer(o, <<"BudgetGenerated">>)
        \/ /\ q = "billing-commands" /\ n = 1
           /\ \/ status[o] \in {"APPROVED"} \cup Facts!Paid
              \/ status[o] = "CANCELLED" /\ Len(outbox[o]) = 5
           /\ billing'[o] = "charged" /\ execution'[o] = execution[o] /\ answers' = answers
        \/ /\ q = "billing-commands" /\ n = 2 /\ status[o] = "CANCELLED" /\ Len(outbox[o]) = 5
           /\ billing'[o] = "cancelled" /\ execution'[o] = execution[o]
           /\ Answer(o, <<"BudgetCancelled">>)
    BY <2>1, CarryOutEffect
  <2>3. \/ answers' = answers /\ \A r : Told(o, r)' <=> Told(o, r)
        \/ \E s \in {"ExecutionCancelled", "BudgetGenerated", "BudgetCancelled"} :
              \A r : Told(o, r)' <=> Told(o, r) \/ r = s
    <3>1. \A s \in {"ExecutionCancelled", "BudgetGenerated", "BudgetCancelled"} :
             s \in SagaReplyType
      BY DEF SagaReplyType
    <3>2. answers' = answers => \A r : Told(o, r)' <=> Told(o, r)
      BY DEF Told
    <3> QED
      BY <2>2, <3>1, <3>2, ToldOneMore
  <2>4. \A r \in {"BudgetApproved", "BudgetRejected", "PaymentConfirmed", "RepairStarted",
                  "RepairCompleted"} : Told(o, r)' <=> Told(o, r)
    BY <2>3
  <2>5. HandedOver(o)'
    BY <1>1, <1>2, <2>2 DEF AgreedOn, HandedOver
  <2>6. ToldIsDone(o)'
    BY <1>1, <1>2, <2>2, <2>4 DEF AgreedOn, HandedOver, ToldIsDone, StatusIsTold
  <2>7. CancelledForGood(o)'
    BY <1>1, <2>2 DEF AgreedOn, CancelledForGood
  <2>8. StatusIsTold(o)'
    BY <1>1, <2>4 DEF AgreedOn, StatusIsTold
  <2> QED
    BY <2>5, <2>6, <2>7, <2>8 DEF AgreedOn
<1> QED
  BY <1>3, <1>4

\* The mechanic, the customer and the provider say what they did.
LEMMA PeopleAgree ==
    ASSUME TypeOK, Agreed, NEW o \in OrderId, MechanicActs(o) \/ CustomerActs(o)
    PROVE  AgreedOn(o)'
<1>1. AgreedOn(o) /\ status'[o] = status[o] /\ outbox'[o] = outbox[o] /\ handed' = handed
  BY DEF MechanicActs, CustomerActs, serviceVars, Agreed
<1>2. CASE MechanicActs(o)
  <2>1. PICK work \in Repairs :
           /\ execution[o] = work[1] /\ execution'[o] = work[2] /\ billing' = billing
           /\ Answer(o, <<work[3]>>)
    BY <1>2 DEF MechanicActs, TypeOK
  <2>2. work[3] \in SagaReplyType
    BY DEF Repairs, SagaReplyType
  <2>3. \A r : Told(o, r)' <=> Told(o, r) \/ r = work[3]
    BY <2>1, <2>2, ToldOneMore
  <2> QED
    BY <1>1, <2>1, <2>3
    DEF Repairs, AgreedOn, HandedOver, ToldIsDone, CancelledForGood, StatusIsTold
<1>3. CASE CustomerActs(o)
  <2>1. PICK decision \in Decisions :
           /\ billing[o] = decision[1] /\ billing'[o] = decision[2] /\ execution' = execution
           /\ Answer(o, <<decision[3]>>)
    BY <1>3 DEF CustomerActs, TypeOK
  <2>2. decision[3] \in SagaReplyType
    BY DEF Decisions, SagaReplyType
  <2>3. \A r : Told(o, r)' <=> Told(o, r) \/ r = decision[3]
    BY <2>1, <2>2, ToldOneMore
  <2> QED
    BY <1>1, <2>1, <2>3
    DEF Decisions, AgreedOn, HandedOver, ToldIsDone, CancelledForGood, StatusIsTold
<1> QED
  BY <1>2, <1>3

\* Every step leaves all orders but one as they were.
LEMMA OthersUntouched ==
    ASSUME TypeOK, Trails, NEW o \in OrderId, NEW p \in OrderId, p # o,
           \/ Open(o) \/ Deliver(o) \/ CustomerLeaves(o)
           \/ MechanicActs(o) \/ CustomerActs(o)
           \/ HandleReply(o) \/ DeleteReply(o) \/ ReplyDies(o)
           \/ \E q \in Queue :
                 \/ TakeCommand(o, q) \/ CommandDies(o, q) \/ CarriedOutAndDead(o, q)
                 \/ HandleDeadCommand(o, q) \/ DeleteDeadCommand(o, q)
    PROVE  Untouched(p)
<1>1. CASE Open(o) \/ Deliver(o) \/ CustomerLeaves(o) \/ HandleReply(o)
              \/ \E q \in Queue : HandleDeadCommand(o, q)
  <2>1. /\ UNCHANGED <<handed, dead, participantVars, taken>>
        /\ status'[p] = status[p] /\ outbox'[p] = outbox[p]
    BY <1>1, TablesOfOne
  <2>2. \/ processed' = processed
        \/ processed' = processed \cup {HeadId(o)}
        \/ \E k : processed' = processed \cup {CommandId(o, k)}
    BY <1>1, StaffMoves, ReplyEffect, DeadEffect
  <2>3. \A k : ReplyId(p, k) # HeadId(o) /\ \A j : ReplyId(p, k) # CommandId(o, j)
    BY DEF ReplyId, HeadId, CommandId
  <2>4. \A k : ReplyId(p, k) \in processed' <=> ReplyId(p, k) \in processed
    BY <2>2, <2>3
  <2> QED
    BY <2>1, <2>4 DEF Untouched, participantVars
<1>2. CASE MechanicActs(o) \/ CustomerActs(o)
  BY <1>2 DEF Untouched, MechanicActs, CustomerActs, Answer, TypeOK, serviceVars
<1>3. CASE DeleteReply(o) \/ ReplyDies(o)
  BY <1>3 DEF Untouched, DeleteReply, ReplyDies, TypeOK, serviceVars, participantVars
<1>4. ASSUME NEW q \in Queue, DeleteDeadCommand(o, q)
      PROVE  Untouched(p)
  BY <1>4 DEF Untouched, DeleteDeadCommand, TypeOK, serviceVars, participantVars
<1>5. ASSUME NEW q \in Queue,
             TakeCommand(o, q) \/ CommandDies(o, q) \/ CarriedOutAndDead(o, q)
      PROVE  Untouched(p)
  BY <1>5 DEF Untouched, TakeCommand, CommandDies, CarriedOutAndDead, CarryOut, Answer, Received,
     TypeOK, serviceVars, participantVars
<1> QED
  BY <1>1, <1>2, <1>3, <1>4, <1>5

LEMMA NextAgreed ==
    ASSUME TypeOK, Trails, Agreed, [Next /\ UNCHANGED faults]_<<vars, faults>>
    PROVE  Agreed'
<1>1. CASE UNCHANGED vars
  BY <1>1, AgreedKept DEF vars, serviceVars, participantVars, Agreed
<1>2. ASSUME NEW o \in OrderId, NEW p \in OrderId,
             \/ Open(o) \/ Deliver(o) \/ CustomerLeaves(o)
             \/ MechanicActs(o) \/ CustomerActs(o)
             \/ HandleReply(o) \/ DeleteReply(o) \/ ReplyDies(o)
             \/ \E q \in Queue :
                   \/ TakeCommand(o, q) \/ CommandDies(o, q) \/ CarriedOutAndDead(o, q)
                   \/ HandleDeadCommand(o, q) \/ DeleteDeadCommand(o, q)
      PROVE  AgreedOn(p)'
  <2>1. CASE p # o
    <3>1. Untouched(p)
      BY <1>2, <2>1, OthersUntouched
    <3> QED
      BY <3>1, AgreedKept DEF Untouched, Agreed
  <2>2. CASE DeleteReply(o) \/ ReplyDies(o) \/ \E q \in Queue : DeleteDeadCommand(o, q)
    BY <2>2, AgreedKept DEF Agreed, DeleteReply, ReplyDies, DeleteDeadCommand, serviceVars,
       participantVars
  <2> QED
    BY <1>2, <2>1, <2>2, TablesAgree, CommandsAgree, PeopleAgree DEF Agreed
<1> QED
  BY <1>1, <1>2 DEF Next, Agreed, vars

LEMMA AgreedInitially == Init => Agreed
<1> SUFFICES ASSUME Init, NEW o \in OrderId PROVE AgreedOn(o)
  BY DEF Agreed
<1>1. /\ status[o] = "NONE" /\ answers[o] = <<>> /\ execution[o] = "none" /\ billing[o] = "none"
  BY SameInit DEF Init, Facts!Init
<1>2. \A r : ~ Told(o, r)
  BY <1>1 DEF Told
<1> QED
  BY <1>1, <1>2 DEF AgreedOn, HandedOver, ToldIsDone, CancelledForGood, StatusIsTold, Facts!Paid

LEMMA AgreedCorrect == Spec => []Agreed
<1> QED
  BY AgreedInitially, NextAgreed, TypeCorrect, TrailsCorrect, PTL DEF Spec

\* The order never claims what the participants did not do: approved, paid,
\* rejected, in execution or finished is what its customer and its mechanic
\* have said and nobody has taken back, although replies die, replies are
\* dropped and commands that were carried out come back dead.
THEOREM StatusCorrect == Spec => []StatusAgreesWithParticipants
<1>1. Agreed => StatusAgreesWithParticipants
  <2> SUFFICES ASSUME Agreed, NEW o \in OrderId
               PROVE  /\ status[o] = "APPROVED" => billing[o] \in {"approved", "charged", "paid", "refused"}
                      /\ status[o] \in {"PAID", "EXECUTION", "FINISHED", "DELIVERED"} => billing[o] = "paid"
                      /\ status[o] = "REJECTED" => billing[o] = "rejected"
                      /\ status[o] = "EXECUTION" => execution[o] \in {"repairing", "repaired"}
                      /\ status[o] \in {"FINISHED", "DELIVERED"} => execution[o] = "repaired"
    BY DEF StatusAgreesWithParticipants
  <2> QED
    BY DEF Agreed, AgreedOn, ToldIsDone, CancelledForGood, StatusIsTold, Facts!Paid
<1> QED
  BY <1>1, AgreedCorrect, PTL

-----------------------------------------------------------------------------
(* The replies that are still to be handled. With no further fault, the    *)
(* status of an order and the states of its two participants leave room    *)
(* for the replies that fit them and for no others: this is the inductive  *)
(* invariant under OnlyRepeatsAreDropped.                                  *)

\* How many replies about an order have been handled, or have died.
Done(o) == IF HeadId(o) \in processed THEN taken[o] + 1 ELSE taken[o]

Left0(o) == Len(answers[o]) = Done(o)
Left1(o, r) == Len(answers[o]) = Done(o) + 1 /\ answers[o][Done(o) + 1] = r
Left2(o, r, s) == /\ Len(answers[o]) = Done(o) + 2
                  /\ answers[o][Done(o) + 1] = r /\ answers[o][Done(o) + 2] = s

Cancellations == {"ExecutionCancelled", "BudgetCancelled"}

LeftOf(o, replies) ==
    \A k \in 1 .. Len(answers[o]) : k > Done(o) => answers[o][k] \in replies

\* The replies are handled in the order of the queue, and none before it came.
HandledInOrder(o) ==
    /\ Done(o) <= Len(answers[o])
    /\ \A k \in Nat : ReplyId(o, k) \in processed => k <= taken[o] + 1

\* A command that died was not carried out, and the status still waits for it.
DeadInTurn(o) ==
    /\ status[o] = "NONE" => dead[o] \cap {1, 2, 3} = {}
    /\ status[o] \in {"RECEIVED", "DIAGNOSIS"} => dead[o] \cap {2, 3} = {}
    /\ status[o] = "RECEIVED" /\ 1 \in dead[o] =>
          execution[o] = "none" /\ handed[o]["execution-commands"] >= 1
    /\ status[o] = "WAITING_APPROVAL" =>
          /\ 3 \notin dead[o]
          /\ 2 \in dead[o] => billing[o] = "none" /\ handed[o]["billing-commands"] >= 1
    /\ status[o] = "APPROVED" /\ 3 \in dead[o] =>
          billing[o] = "approved" /\ handed[o]["billing-commands"] >= 2

Diagnosing(o) ==
    /\ status[o] = "NONE" => Left0(o) /\ execution[o] = "none" /\ billing[o] = "none"
    /\ status[o] = "RECEIVED" =>
          /\ billing[o] = "none"
          /\ \/ execution[o] \in {"none", "diagnosis"} /\ Left0(o)
             \/ execution[o] = "diagnosing" /\ Left1(o, "DiagnosisStarted")
             \/ execution[o] = "diagnosed" /\ Left2(o, "DiagnosisStarted", "DiagnosisCompleted")
    /\ status[o] = "DIAGNOSIS" =>
          /\ billing[o] = "none"
          /\ \/ execution[o] \in {"diagnosing", "diagnosed"} /\ Left0(o)
             \/ execution[o] = "diagnosed" /\ Left1(o, "DiagnosisCompleted")

Deciding(o) ==
    /\ status[o] = "WAITING_APPROVAL" =>
          /\ execution[o] = "diagnosed"
          /\ \/ billing[o] \in {"none", "budget"} /\ Left0(o)
             \/ billing[o] = "budget" /\ Left1(o, "BudgetGenerated")
             \/ billing[o] = "approved" /\ Left1(o, "BudgetApproved")
             \/ billing[o] = "approved" /\ Left2(o, "BudgetGenerated", "BudgetApproved")
             \/ billing[o] = "rejected" /\ Left1(o, "BudgetRejected")
             \/ billing[o] = "rejected" /\ Left2(o, "BudgetGenerated", "BudgetRejected")
    /\ status[o] = "APPROVED" =>
          /\ execution[o] = "diagnosed"
          /\ \/ billing[o] \in {"approved", "charged"} /\ Left0(o)
             \/ billing[o] = "paid" /\ Left1(o, "PaymentConfirmed")
             \/ billing[o] = "refused" /\ Left1(o, "PaymentFailed")

Repairing(o) ==
    /\ status[o] \in Facts!Paid => billing[o] = "paid"
    /\ status[o] = "PAID" =>
          \/ execution[o] \in {"diagnosed", "repair"} /\ Left0(o)
          \/ execution[o] = "repairing" /\ Left1(o, "RepairStarted")
          \/ execution[o] = "repaired" /\ Left2(o, "RepairStarted", "RepairCompleted")
    /\ status[o] = "EXECUTION" =>
          \/ execution[o] = "repairing" /\ Left0(o)
          \/ execution[o] = "repaired" /\ Left1(o, "RepairCompleted")
    /\ status[o] \in {"FINISHED", "DELIVERED"} => execution[o] = "repaired" /\ Left0(o)

\* Nobody acts on an order that was given up: what it asked for was handed over
\* before, so that only the cancellations are still to come.
GivenUp(o) ==
    /\ status[o] = "REJECTED" =>
          /\ billing[o] = "rejected" /\ execution[o] \in {"diagnosed", "cancelled"}
          /\ LeftOf(o, {"ExecutionCancelled"})
    /\ status[o] = "CANCELLED" =>
          /\ LeftOf(o, Cancellations)
          /\ execution[o] \in {"none", "diagnosed", "cancelled"}
          /\ billing[o] \in {"none", "approved", "refused", "cancelled"}
          /\ handed[o]["execution-commands"] >= 1
          /\ Len(outbox[o]) # 1 => handed[o]["billing-commands"] >= 1
          /\ Len(outbox[o]) = 5 => handed[o]["billing-commands"] >= 2

InTurnOn(o) == /\ HandledInOrder(o) /\ DeadInTurn(o)
               /\ Diagnosing(o) /\ Deciding(o) /\ Repairing(o) /\ GivenUp(o)

InTurn == faults = {} => \A o \in OrderId : InTurnOn(o)

\* The replies left are the same when nothing of the queue changes.
LEMMA DoneKept ==
    ASSUME NEW p \in OrderId, taken'[p] = taken[p], taken[p] \in Nat,
           \A k : ReplyId(p, k) \in processed' <=> ReplyId(p, k) \in processed
    PROVE  Done(p)' = Done(p)
BY DEF Done, HeadId, ReplyId

LEMMA InTurnKept ==
    ASSUME TypeOK, NEW p \in OrderId, InTurnOn(p), Untouched(p)
    PROVE  InTurnOn(p)'
<1>1. Done(p)' = Done(p)
  BY DoneKept DEF Untouched, TypeOK
<1>2. HandledInOrder(p)' /\ DeadInTurn(p)'
  BY <1>1 DEF InTurnOn, Untouched, HandledInOrder, DeadInTurn
<1>3. Diagnosing(p)' /\ Deciding(p)' /\ Repairing(p)' /\ GivenUp(p)'
  BY <1>1 DEF InTurnOn, Untouched, Diagnosing, Deciding, Repairing, GivenUp, Left0, Left1, Left2,
     LeftOf
<1> QED
  BY <1>2, <1>3 DEF InTurnOn

\* A reply more is left.
LEMMA LeftMore ==
    ASSUME TypeOK, NEW o \in OrderId, NEW r \in SagaReplyType, Answer(o, <<r>>), HandledInOrder(o),
           taken' = taken, processed' = processed
    PROVE  /\ HandledInOrder(o)'
           /\ Left0(o) => Left1(o, r)'
           /\ \A s : Left1(o, s) => Left2(o, s, r)'
           /\ \A R : r \in R /\ LeftOf(o, R) => LeftOf(o, R)'
<1>1. /\ Len(answers[o]) \in Nat /\ Len(answers'[o]) = Len(answers[o]) + 1
      /\ answers'[o][Len(answers[o]) + 1] = r
      /\ \A k \in 1 .. Len(answers[o]) : answers'[o][k] = answers[o][k]
  BY OneMore
<1>2. Done(o)' = Done(o) /\ taken[o] \in Nat /\ Done(o) \in Nat
  BY DoneKept DEF TypeOK, Done
<1>3. HandledInOrder(o)'
  BY <1>1, <1>2 DEF HandledInOrder
<1>4. Left0(o) => Left1(o, r)'
  BY <1>1, <1>2 DEF Left0, Left1
<1>5. ASSUME NEW s, Left1(o, s) PROVE Left2(o, s, r)'
  <2>1. Len(answers[o]) = Done(o) + 1 /\ Done(o) + 1 \in 1 .. Len(answers[o])
    BY <1>1, <1>2, <1>5 DEF Left1
  <2> QED
    BY <1>1, <1>2, <1>5, <2>1 DEF Left1, Left2
<1>6. ASSUME NEW R, r \in R, LeftOf(o, R) PROVE LeftOf(o, R)'
  BY <1>1, <1>2, <1>6 DEF LeftOf
<1> QED
  BY <1>3, <1>4, <1>5, <1>6

\* The first reply left is the head of the queue, and its handling or its death
\* leaves the others.
LEMMA LeftLess ==
    ASSUME TypeOK, NEW o \in OrderId, HandledInOrder(o), HasReply(o), HeadId(o) \notin processed,
           answers' = answers,
           \/ taken' = taken /\ processed' = processed \cup {HeadId(o)}
           \/ taken' = [taken EXCEPT ![o] = @ + 1] /\ processed' = processed
    PROVE  /\ HandledInOrder(o)'
           /\ ~ Left0(o)
           /\ \A r : Left1(o, r) => HeadReply(o) = r /\ Left0(o)'
           /\ \A r, s : Left2(o, r, s) => HeadReply(o) = r /\ Left1(o, s)'
           /\ \A R : LeftOf(o, R) => HeadReply(o) \in R /\ LeftOf(o, R)'
<1>1. /\ taken[o] \in Nat /\ Len(answers[o]) \in Nat /\ taken[o] + 1 \in 1 .. Len(answers[o])
      /\ Done(o) = taken[o]
  BY Heads DEF Done
<1>2. Done(o)' = Done(o) + 1 /\ HandledInOrder(o)'
  <2>1. CASE taken' = taken /\ processed' = processed \cup {HeadId(o)}
    <3>1. Done(o)' = taken[o] + 1
      BY <2>1 DEF Done, HeadId
    <3>2. \A k \in Nat : ReplyId(o, k) \in processed' => k <= taken[o] + 1
      BY <1>1, <2>1 DEF HandledInOrder, ReplyId, HeadId
    <3> QED
      BY <1>1, <2>1, <3>1, <3>2 DEF HandledInOrder
  <2>2. CASE taken' = [taken EXCEPT ![o] = @ + 1] /\ processed' = processed
    <3>1. taken'[o] = taken[o] + 1
      BY <2>2 DEF TypeOK
    <3>2. ReplyId(o, taken[o] + 2) \notin processed
      BY <1>1 DEF HandledInOrder
    <3>3. HeadId(o)' = ReplyId(o, taken[o] + 2)
      BY <1>1, <3>1 DEF HeadId, ReplyId
    <3>4. Done(o)' = taken[o] + 1
      BY <2>2, <3>1, <3>2, <3>3 DEF Done
    <3> QED
      BY <1>1, <2>2, <3>1, <3>4 DEF HandledInOrder
  <2> QED
    BY <2>1, <2>2
<1>3. HeadReply(o) = answers[o][Done(o) + 1]
  BY <1>1 DEF HeadReply
<1>4. ~ Left0(o)
  BY <1>1 DEF Left0
<1>5. \A r : Left1(o, r) => HeadReply(o) = r /\ Left0(o)'
  BY <1>1, <1>2, <1>3 DEF Left0, Left1
<1>6. \A r, s : Left2(o, r, s) => HeadReply(o) = r /\ Left1(o, s)'
  BY <1>1, <1>2, <1>3 DEF Left1, Left2
<1>7. \A R : LeftOf(o, R) => HeadReply(o) \in R /\ LeftOf(o, R)'
  BY <1>1, <1>2, <1>3 DEF LeftOf
<1> QED
  BY <1>2, <1>4, <1>5, <1>6, <1>7

\* Taking a reply off the queue once it was handled leaves the same replies.
LEMMA LeftDeleted ==
    ASSUME TypeOK, NEW o \in OrderId, HandledInOrder(o), DeleteReply(o)
    PROVE  Done(o)' = Done(o) /\ HandledInOrder(o)' /\ answers' = answers
<1>1. /\ taken[o] \in Nat /\ Len(answers[o]) \in Nat /\ HeadId(o) \in processed
      /\ taken'[o] = taken[o] + 1 /\ processed' = processed /\ answers' = answers
  BY Heads DEF DeleteReply, serviceVars, participantVars, TypeOK
<1>2. ReplyId(o, taken[o] + 2) \notin processed
  BY <1>1 DEF HandledInOrder
<1>3. HeadId(o)' = ReplyId(o, taken[o] + 2)
  BY <1>1 DEF HeadId, ReplyId
<1>4. Done(o) = taken[o] + 1 /\ Done(o)' = taken[o] + 1
  BY <1>1, <1>2, <1>3 DEF Done
<1> QED
  BY <1>1, <1>4 DEF HandledInOrder

\* The staff opens an order with nothing left over, and delivers a finished one.
LEMMA StaffInTurn ==
    ASSUME TypeOK, NEW o \in OrderId, InTurnOn(o),
           Open(o) \/ Deliver(o) \/ CustomerLeaves(o)
    PROVE  InTurnOn(o)'
<1>1. /\ handed' = handed /\ dead' = dead /\ execution' = execution /\ billing' = billing
      /\ answers' = answers /\ taken' = taken /\ processed' = processed
      /\ \/ status'[o] = status[o] /\ outbox'[o] = outbox[o]
         \/ status[o] = "NONE" /\ status'[o] = "RECEIVED"
         \/ status[o] = "FINISHED" /\ status'[o] = "DELIVERED"
  BY StaffMoves, TablesOfOne DEF participantVars
<1>2. CASE status'[o] = status[o] /\ outbox'[o] = outbox[o]
  <2>1. Untouched(o)
    BY <1>1, <1>2 DEF Untouched
  <2> QED
    BY <2>1, InTurnKept
<1>3. Done(o)' = Done(o) /\ HandledInOrder(o)'
  BY <1>1, DoneKept DEF TypeOK, InTurnOn, HandledInOrder
<1>4. Left0(o)' <=> Left0(o)
  BY <1>1, <1>3 DEF Left0
<1>5. CASE status[o] = "NONE" /\ status'[o] = "RECEIVED"
  BY <1>1, <1>3, <1>4, <1>5
  DEF InTurnOn, DeadInTurn, Diagnosing, Deciding, Repairing, GivenUp, Facts!Paid
<1>6. CASE status[o] = "FINISHED" /\ status'[o] = "DELIVERED"
  BY <1>1, <1>3, <1>4, <1>6
  DEF InTurnOn, DeadInTurn, Diagnosing, Deciding, Repairing, GivenUp, Facts!Paid
<1> QED
  BY <1>1, <1>2, <1>5, <1>6

\* With replies in turn, the one at the head of the queue is expected.
LEMMA HeadIsExpected ==
    ASSUME TypeOK, NEW o \in OrderId, InTurnOn(o), HasReply(o), HeadId(o) \notin processed
    PROVE  status[o] \in EXPECTED_STATUS(HeadReply(o))
<1>1. /\ taken[o] \in Nat /\ Len(answers[o]) \in Nat /\ taken[o] + 1 \in 1 .. Len(answers[o])
      /\ Done(o) = taken[o] /\ HeadReply(o) = answers[o][Done(o) + 1]
  BY Heads DEF Done, HeadReply
<1>2. /\ ~ Left0(o)
      /\ \A r : Left1(o, r) => HeadReply(o) = r
      /\ \A r, s : Left2(o, r, s) => HeadReply(o) = r
      /\ \A R : LeftOf(o, R) => HeadReply(o) \in R
  BY <1>1 DEF Left0, Left1, Left2, LeftOf
<1>3. status[o] \in OSStatus \cup {"NONE"}
  BY SameType, SameTables DEF TypeOK, Facts!TypeOK
<1>4. CASE status[o] \in {"NONE", "RECEIVED", "DIAGNOSIS"}
  BY <1>2, <1>4 DEF InTurnOn, Diagnosing, EXPECTED_STATUS
<1>5. CASE status[o] \in {"WAITING_APPROVAL", "APPROVED"}
  BY <1>2, <1>5 DEF InTurnOn, Deciding, EXPECTED_STATUS
<1>6. CASE status[o] \in {"PAID", "EXECUTION", "FINISHED", "DELIVERED"}
  BY <1>2, <1>6 DEF InTurnOn, Repairing, EXPECTED_STATUS
<1>7. CASE status[o] \in {"REJECTED", "CANCELLED"}
  BY <1>2, <1>7 DEF InTurnOn, GivenUp, EXPECTED_STATUS, Cancellations
<1> QED
  BY <1>3, <1>4, <1>5, <1>6, <1>7 DEF OSStatus

\* The saga handles the reply that its status waits for, and waits for the next.
LEMMA RepliesInTurn ==
    ASSUME TypeOK, Agreed, NEW o \in OrderId, InTurnOn(o), HandleReply(o)
    PROVE  InTurnOn(o)'
<1> DEFINE r == HeadReply(o)
<1>1. /\ handed' = handed /\ dead' = dead /\ execution' = execution /\ billing' = billing
      /\ answers' = answers /\ taken' = taken
  BY TablesOfOne DEF participantVars
<1>2. /\ HasReply(o) /\ HeadId(o) \notin processed /\ processed' = processed \cup {HeadId(o)}
      /\ \/ ReplyMoves(r, status[o], status'[o])
         \/ /\ status'[o] = status[o] /\ outbox'[o] = outbox[o]
            /\ r \in {"BudgetGenerated", "ExecutionCancelled", "BudgetCancelled"}
  BY ReplyEffect, HeadIsExpected
<1>3. /\ HandledInOrder(o)'
      /\ ~ Left0(o)
      /\ \A s : Left1(o, s) => r = s /\ Left0(o)'
      /\ \A s, u : Left2(o, s, u) => r = s /\ Left1(o, u)'
      /\ \A R : LeftOf(o, R) => r \in R /\ LeftOf(o, R)'
      /\ Left0(o)' => \A R : LeftOf(o, R)'
  <2>1. /\ HandledInOrder(o)'
        /\ ~ Left0(o)
        /\ \A s : Left1(o, s) => r = s /\ Left0(o)'
        /\ \A s, u : Left2(o, s, u) => r = s /\ Left1(o, u)'
        /\ \A R : LeftOf(o, R) => r \in R /\ LeftOf(o, R)'
    BY <1>1, <1>2, LeftLess DEF InTurnOn
  <2>2. Len(answers[o]) \in Nat
    BY DEF TypeOK
  <2>3. Left0(o)' => \A R : LeftOf(o, R)'
    BY <1>1, <2>2 DEF Left0, LeftOf
  <2> QED
    BY <2>1, <2>3
<1>4. /\ handed[o]["execution-commands"] \in Nat /\ handed[o]["billing-commands"] \in Nat
      /\ HandedOver(o)
  BY DEF TypeOK, Queue, Agreed, AgreedOn
<1> HIDE DEF r
<1>5. CASE status'[o] = status[o] /\ outbox'[o] = outbox[o]
           /\ r \in {"BudgetGenerated", "ExecutionCancelled", "BudgetCancelled"}
  <2>1. DeadInTurn(o)'
    BY <1>1, <1>5 DEF InTurnOn, DeadInTurn
  <2>2. Diagnosing(o)' /\ Repairing(o)'
    BY <1>1, <1>3, <1>5 DEF InTurnOn, Diagnosing, Repairing, Facts!Paid
  <2>3. Deciding(o)'
    BY <1>1, <1>3, <1>5 DEF InTurnOn, Deciding
  <2>4. GivenUp(o)'
    BY <1>1, <1>3, <1>5 DEF InTurnOn, GivenUp
  <2> QED
    BY <1>3, <2>1, <2>2, <2>3, <2>4 DEF InTurnOn
<1>6. CASE ReplyMoves(r, status[o], status'[o])
  <2>1. DeadInTurn(o)'
    BY <1>1, <1>6 DEF InTurnOn, DeadInTurn, ReplyMoves
  <2>2. Diagnosing(o)'
    BY <1>1, <1>3, <1>6 DEF InTurnOn, Diagnosing, ReplyMoves
  <2>3. Deciding(o)'
    BY <1>1, <1>3, <1>6 DEF InTurnOn, Diagnosing, Deciding, ReplyMoves
  <2>4. Repairing(o)'
    BY <1>1, <1>3, <1>6 DEF InTurnOn, Deciding, Repairing, ReplyMoves, Facts!Paid
  <2>5. GivenUp(o)'
    BY <1>1, <1>3, <1>4, <1>6 DEF InTurnOn, Deciding, GivenUp, ReplyMoves, HandedOver
  <2> QED
    BY <1>3, <2>1, <2>2, <2>3, <2>4, <2>5 DEF InTurnOn
<1> QED
  BY <1>2, <1>5, <1>6

\* An order is cancelled for a command that nobody has carried out, and so
\* nothing that was told is still to be handled.
LEMMA DeadCommandsInTurn ==
    ASSUME TypeOK, Trails, Agreed, NEW o \in OrderId, InTurnOn(o),
           NEW q \in Queue, HandleDeadCommand(o, q)
    PROVE  InTurnOn(o)'
<1>1. /\ handed' = handed /\ dead' = dead /\ execution' = execution /\ billing' = billing
      /\ answers' = answers /\ taken' = taken
  BY TablesOfOne DEF participantVars
<1>2. /\ \E k : processed' = processed \cup {CommandId(o, k)}
      /\ \/ status'[o] = status[o] /\ outbox'[o] = outbox[o]
         \/ /\ status'[o] = "CANCELLED"
            /\ \/ status[o] = "RECEIVED" /\ 1 \in dead[o] /\ Len(outbox'[o]) = 1
               \/ status[o] = "WAITING_APPROVAL" /\ 2 \in dead[o] /\ Len(outbox'[o]) = 3
               \/ status[o] = "APPROVED" /\ 3 \in dead[o]
  BY DeadEffect
<1>3. \A k : ReplyId(o, k) \in processed' <=> ReplyId(o, k) \in processed
  BY <1>2 DEF ReplyId, CommandId
<1>4. CASE status'[o] = status[o] /\ outbox'[o] = outbox[o]
  <2>1. Untouched(o)
    BY <1>1, <1>3, <1>4 DEF Untouched
  <2> QED
    BY <2>1, InTurnKept
<1>5. Done(o)' = Done(o) /\ HandledInOrder(o)'
  BY <1>1, <1>3, DoneKept DEF TypeOK, InTurnOn, HandledInOrder
<1>6. Left0(o) => \A R : LeftOf(o, R)'
  <2>1. Len(answers[o]) \in Nat
    BY DEF TypeOK
  <2> QED
    BY <1>1, <1>5, <2>1 DEF Left0, LeftOf
<1>7. /\ handed[o]["execution-commands"] \in Nat /\ handed[o]["billing-commands"] \in Nat
      /\ HandedOver(o)
  BY DEF TypeOK, Queue, Agreed, AgreedOn
<1>8. CASE status'[o] = "CANCELLED" /\ status[o] = "RECEIVED" /\ 1 \in dead[o] /\ Len(outbox'[o]) = 1
  <2>1. /\ execution[o] = "none" /\ billing[o] = "none" /\ Left0(o)
        /\ handed[o]["execution-commands"] >= 1
    BY <1>8 DEF InTurnOn, DeadInTurn, Diagnosing
  <2> QED
    BY <1>1, <1>5, <1>6, <1>8, <2>1
    DEF InTurnOn, DeadInTurn, Diagnosing, Deciding, Repairing, GivenUp, Facts!Paid
<1>9. CASE status'[o] = "CANCELLED" /\ status[o] = "WAITING_APPROVAL" /\ 2 \in dead[o]
           /\ Len(outbox'[o]) = 3
  <2>1. /\ execution[o] = "diagnosed" /\ billing[o] = "none" /\ Left0(o)
        /\ handed[o]["execution-commands"] >= 1 /\ handed[o]["billing-commands"] >= 1
    BY <1>7, <1>9 DEF InTurnOn, DeadInTurn, Deciding, HandedOver
  <2> QED
    BY <1>1, <1>5, <1>6, <1>9, <2>1
    DEF InTurnOn, DeadInTurn, Diagnosing, Deciding, Repairing, GivenUp, Facts!Paid
<1>10. CASE status'[o] = "CANCELLED" /\ status[o] = "APPROVED" /\ 3 \in dead[o]
  <2>1. /\ execution[o] = "diagnosed" /\ billing[o] = "approved" /\ Left0(o)
        /\ handed[o]["execution-commands"] >= 1 /\ handed[o]["billing-commands"] >= 2
    BY <1>7, <1>10 DEF InTurnOn, DeadInTurn, Deciding, HandedOver
  <2> QED
    BY <1>1, <1>5, <1>6, <1>7, <1>10, <2>1
    DEF InTurnOn, DeadInTurn, Diagnosing, Deciding, Repairing, GivenUp, Facts!Paid
<1> QED
  BY <1>2, <1>4, <1>8, <1>9, <1>10

\* A participant is given the next command when its entry is ready for it, and
\* has nothing else to answer for.
LEMMA TakenInTurn ==
    ASSUME TypeOK, Trails, Agreed, NEW o \in OrderId, InTurnOn(o),
           NEW q \in Queue, TakeCommand(o, q)
    PROVE  InTurnOn(o)'
<1> DEFINE n == handed[o][q]
<1>1. /\ status' = status /\ outbox' = outbox /\ processed' = processed /\ taken' = taken
      /\ dead' = dead /\ Received(o, q)
      /\ "execution-commands" \in Queue /\ "billing-commands" \in Queue
  BY DEF TakeCommand, serviceVars, Queue
<1>2. PICK k \in NextCommand(o, q) : CarryOut(o, TypeOf(o, k))
  BY DEF TakeCommand
<1>3. \/ /\ q = "execution-commands" /\ n = 0 /\ k = 1
         /\ execution'[o] = "diagnosis" /\ billing'[o] = billing[o] /\ answers' = answers
      \/ /\ q = "execution-commands" /\ n = 1 /\ status[o] \in Facts!Paid
         /\ execution'[o] = "repair" /\ billing'[o] = billing[o] /\ answers' = answers
      \/ /\ q = "execution-commands" /\ n = 1 /\ status[o] \in {"REJECTED", "CANCELLED"}
         /\ execution'[o] = "cancelled" /\ billing'[o] = billing[o]
         /\ Answer(o, <<"ExecutionCancelled">>)
      \/ /\ q = "billing-commands" /\ n = 0 /\ k = 2
         /\ billing'[o] = "budget" /\ execution'[o] = execution[o]
         /\ Answer(o, <<"BudgetGenerated">>)
      \/ /\ q = "billing-commands" /\ n = 1
         /\ \/ status[o] \in {"APPROVED"} \cup Facts!Paid
            \/ status[o] = "CANCELLED" /\ Len(outbox[o]) = 5
         /\ billing'[o] = "charged" /\ execution'[o] = execution[o] /\ answers' = answers
      \/ /\ q = "billing-commands" /\ n = 2 /\ status[o] = "CANCELLED" /\ Len(outbox[o]) = 5
         /\ billing'[o] = "cancelled" /\ execution'[o] = execution[o]
         /\ Answer(o, <<"BudgetCancelled">>)
  BY <1>2, CarryOutEffect
<1>4. /\ handed[o]["execution-commands"] \in Nat /\ handed[o]["billing-commands"] \in Nat
      /\ handed'[o]["execution-commands"] \in Nat /\ handed'[o]["billing-commands"] \in Nat
      /\ handed'[o]["execution-commands"] >= handed[o]["execution-commands"]
      /\ handed'[o]["billing-commands"] >= handed[o]["billing-commands"]
  BY <1>1, ReceivedEffect DEF Queue
<1>5. /\ k \in 1 .. Len(outbox[o]) /\ HandedOver(o)
      /\ status[o] = "NONE" => Len(outbox[o]) = 0
      /\ status[o] \in {"RECEIVED", "DIAGNOSIS"} => Len(outbox[o]) = 1
      /\ status[o] \in OSStatus \cup {"NONE"}
  BY <1>2, NextPlace, Shapes, SameType, SameTables DEF Trails, Agreed, AgreedOn, TypeOK, Facts!TypeOK
<1>6. answers' = answers =>
         /\ HandledInOrder(o)' /\ Done(o)' = Done(o) /\ (Left0(o)' <=> Left0(o))
  BY <1>1, DoneKept DEF TypeOK, InTurnOn, HandledInOrder, Left0
<1>7. \A r \in SagaReplyType : Answer(o, <<r>>) =>
         /\ HandledInOrder(o)'
         /\ Left0(o) => Left1(o, r)'
         /\ \A R : r \in R /\ LeftOf(o, R) => LeftOf(o, R)'
  BY <1>1, LeftMore DEF InTurnOn
<1>8. CASE q = "execution-commands" /\ n = 0 /\ k = 1 /\ execution'[o] = "diagnosis"
           /\ billing'[o] = billing[o] /\ answers' = answers
  <2>1. execution[o] = "none"
    BY <1>5, <1>8 DEF HandedOver
  <2>2. status[o] = "RECEIVED" /\ Left0(o) /\ 1 \notin dead[o] /\ billing[o] = "none"
    <3>1. status[o] # "NONE"
      BY <1>5, <1>8
    <3> QED
      BY <1>4, <1>5, <1>8, <2>1, <3>1
      DEF InTurnOn, DeadInTurn, Diagnosing, Deciding, Repairing, GivenUp, OSStatus, Facts!Paid
  <2> QED
    BY <1>1, <1>6, <1>8, <2>2
    DEF InTurnOn, DeadInTurn, Diagnosing, Deciding, Repairing, GivenUp, Facts!Paid
<1>9. CASE q = "execution-commands" /\ n = 1 /\ status[o] \in Facts!Paid
           /\ execution'[o] = "repair" /\ billing'[o] = billing[o] /\ answers' = answers
  <2>1. execution[o] \in {"none", "diagnosis", "diagnosing", "diagnosed"}
    BY <1>5, <1>9 DEF HandedOver
  <2>2. status[o] = "PAID" /\ Left0(o) /\ billing[o] = "paid"
    BY <1>9, <2>1 DEF InTurnOn, Repairing, Facts!Paid
  <2> QED
    BY <1>1, <1>6, <1>9, <2>2
    DEF InTurnOn, DeadInTurn, Diagnosing, Deciding, Repairing, GivenUp, Facts!Paid
<1>10. CASE q = "execution-commands" /\ n = 1 /\ status[o] \in {"REJECTED", "CANCELLED"}
            /\ execution'[o] = "cancelled" /\ billing'[o] = billing[o]
            /\ Answer(o, <<"ExecutionCancelled">>)
  <2>1. "ExecutionCancelled" \in SagaReplyType /\ "ExecutionCancelled" \in Cancellations
    BY DEF SagaReplyType, Cancellations
  <2>2. /\ HandledInOrder(o)'
        /\ \A R : "ExecutionCancelled" \in R /\ LeftOf(o, R) => LeftOf(o, R)'
    BY <1>7, <1>10, <2>1
  <2>3. GivenUp(o)'
    BY <1>1, <1>4, <1>10, <2>1, <2>2 DEF InTurnOn, GivenUp
  <2> QED
    BY <1>1, <1>10, <2>2, <2>3
    DEF InTurnOn, DeadInTurn, Diagnosing, Deciding, Repairing, Facts!Paid
<1>11. CASE q = "billing-commands" /\ n = 0 /\ k = 2 /\ billing'[o] = "budget"
            /\ execution'[o] = execution[o] /\ Answer(o, <<"BudgetGenerated">>)
  <2>1. billing[o] = "none" /\ handed[o]["billing-commands"] = 0
    BY <1>5, <1>11 DEF HandedOver
  <2>2. status[o] \notin {"NONE", "RECEIVED", "DIAGNOSIS"} /\ Len(outbox[o]) # 1
    <3> DEFINE len == Len(outbox[o])
    <3>1. /\ len \in Nat /\ 2 \in 1 .. len
          /\ status[o] = "NONE" => len = 0
          /\ status[o] \in {"RECEIVED", "DIAGNOSIS"} => len = 1
      BY <1>5, <1>11, Places
    <3> HIDE DEF len
    <3>2. len \notin {0, 1}
      BY <3>1
    <3>3. status[o] \notin {"NONE", "RECEIVED", "DIAGNOSIS"} /\ len # 1
      BY <3>1, <3>2
    <3> QED
      BY <3>3 DEF len
  <2>3. /\ status[o] = "WAITING_APPROVAL" /\ Left0(o) /\ execution[o] = "diagnosed"
        /\ 2 \notin dead[o]
    BY <1>4, <1>5, <2>1, <2>2
    DEF InTurnOn, DeadInTurn, Deciding, Repairing, GivenUp, OSStatus, Facts!Paid
  <2>4. HandledInOrder(o)' /\ Left1(o, "BudgetGenerated")'
    BY <1>7, <1>11, <2>3 DEF SagaReplyType
  <2> QED
    BY <1>1, <1>11, <2>3, <2>4
    DEF InTurnOn, DeadInTurn, Diagnosing, Deciding, Repairing, GivenUp, Facts!Paid
<1>12. CASE /\ q = "billing-commands" /\ n = 1
            /\ \/ status[o] \in {"APPROVED"} \cup Facts!Paid
               \/ status[o] = "CANCELLED" /\ Len(outbox[o]) = 5
            /\ billing'[o] = "charged" /\ execution'[o] = execution[o] /\ answers' = answers
  <2>1. billing[o] \in {"none", "budget", "approved", "rejected"}
        /\ handed[o]["billing-commands"] = 1
    BY <1>5, <1>12 DEF HandedOver
  <2>2. /\ status[o] = "APPROVED" /\ Left0(o) /\ execution[o] = "diagnosed"
        /\ 3 \notin dead[o]
    BY <1>12, <2>1 DEF InTurnOn, DeadInTurn, Deciding, Repairing, GivenUp, Facts!Paid
  <2> QED
    BY <1>1, <1>6, <1>12, <2>2
    DEF InTurnOn, DeadInTurn, Diagnosing, Deciding, Repairing, GivenUp, Facts!Paid
<1>13. CASE q = "billing-commands" /\ n = 2 /\ status[o] = "CANCELLED" /\ Len(outbox[o]) = 5
            /\ billing'[o] = "cancelled" /\ execution'[o] = execution[o]
            /\ Answer(o, <<"BudgetCancelled">>)
  <2>1. "BudgetCancelled" \in SagaReplyType /\ "BudgetCancelled" \in Cancellations
    BY DEF SagaReplyType, Cancellations
  <2>2. /\ HandledInOrder(o)'
        /\ \A R : "BudgetCancelled" \in R /\ LeftOf(o, R) => LeftOf(o, R)'
    BY <1>7, <1>13, <2>1
  <2>3. GivenUp(o)'
    BY <1>1, <1>4, <1>13, <2>1, <2>2 DEF InTurnOn, GivenUp
  <2> QED
    BY <1>1, <1>13, <2>2, <2>3
    DEF InTurnOn, DeadInTurn, Diagnosing, Deciding, Repairing, Facts!Paid
<1> QED
  BY <1>3, <1>8, <1>9, <1>10, <1>11, <1>12, <1>13

\* A command that dies was the next of its queue: its participant is as it was
\* when the command before it was done.
LEMMA DeathsInTurn ==
    ASSUME TypeOK, Trails, Agreed, NEW o \in OrderId, InTurnOn(o),
           NEW q \in Queue, CommandDies(o, q)
    PROVE  InTurnOn(o)'
<1>1. /\ status' = status /\ outbox' = outbox /\ processed' = processed /\ taken' = taken
      /\ execution' = execution /\ billing' = billing /\ answers' = answers /\ Received(o, q)
      /\ "execution-commands" \in Queue /\ "billing-commands" \in Queue
  BY DEF CommandDies, serviceVars, participantVars, Queue
<1>2. PICK k \in NextCommand(o, q) : dead'[o] = dead[o] \cup {k}
  BY DEF CommandDies, TypeOK
<1>3. /\ k \in 1 .. Len(outbox[o]) /\ TypeOf(o, k) \in SagaCommandType
      /\ q = Destination(TypeOf(o, k))
      /\ TypeOf(o, k) \in {"EnqueueDiagnosis", "GenerateBudget"} => handed[o][q] = 0
      /\ TypeOf(o, k) = "RequestPayment" => handed[o][q] = 1
  BY <1>2, NextPlace DEF Trails
<1>4. /\ k = 1 => TypeOf(o, k) = "EnqueueDiagnosis"
      /\ k = 2 => TypeOf(o, k) = "GenerateBudget"
      /\ status[o] = "NONE" => Len(outbox[o]) = 0
      /\ status[o] \in {"RECEIVED", "DIAGNOSIS"} => Len(outbox[o]) = 1
      /\ status[o] = "WAITING_APPROVAL" => Len(outbox[o]) = 2
      /\ status[o] = "APPROVED" /\ k = 3 => TypeOf(o, k) = "RequestPayment"
  BY <1>3, Shapes DEF Trails
<1>5. /\ k = 1 => q = "execution-commands" /\ handed[o][q] = 0
      /\ k = 2 => q = "billing-commands" /\ handed[o][q] = 0
      /\ status[o] = "APPROVED" /\ k = 3 => q = "billing-commands" /\ handed[o][q] = 1
      /\ status[o] # "NONE"
      /\ status[o] \in {"RECEIVED", "DIAGNOSIS"} => k = 1
      /\ status[o] = "WAITING_APPROVAL" => k # 3
  <2> DEFINE len == Len(outbox[o])
  <2>1. /\ len \in Nat /\ k \in 1 .. len
        /\ status[o] = "NONE" => len = 0
        /\ status[o] \in {"RECEIVED", "DIAGNOSIS"} => len = 1
        /\ status[o] = "WAITING_APPROVAL" => len = 2
    BY <1>3, <1>4, Places
  <2> HIDE DEF len
  <2>2. /\ status[o] # "NONE"
        /\ status[o] \in {"RECEIVED", "DIAGNOSIS"} => k = 1
        /\ status[o] = "WAITING_APPROVAL" => k # 3
    BY <2>1
  <2> QED
    BY <1>3, <1>4, <2>2 DEF Destination
<1>6. /\ handed[o]["execution-commands"] \in Nat /\ handed[o]["billing-commands"] \in Nat
      /\ handed'[o]["execution-commands"] \in Nat /\ handed'[o]["billing-commands"] \in Nat
      /\ handed'[o]["execution-commands"] >= handed[o]["execution-commands"]
      /\ handed'[o]["billing-commands"] >= handed[o]["billing-commands"]
      /\ handed'[o][q] = handed[o][q] + 1
      /\ HandedOver(o)
  BY <1>1, ReceivedEffect DEF Queue, Agreed, AgreedOn
<1>7. Done(o)' = Done(o) /\ HandledInOrder(o)'
  BY <1>1, DoneKept DEF TypeOK, InTurnOn, HandledInOrder
<1>8. DeadInTurn(o)'
  <2>1. CASE status[o] = "RECEIVED"
    <3>1. execution[o] = "none" /\ handed'[o]["execution-commands"] >= 1 /\ k = 1
      BY <1>5, <1>6, <2>1 DEF HandedOver
    <3> QED
      BY <1>1, <1>2, <2>1, <3>1 DEF InTurnOn, DeadInTurn
  <2>2. CASE status[o] = "DIAGNOSIS"
    BY <1>1, <1>2, <1>5, <2>2 DEF InTurnOn, DeadInTurn
  <2>3. CASE status[o] = "WAITING_APPROVAL"
    <3>1. k = 2 => billing[o] = "none" /\ handed'[o]["billing-commands"] >= 1
      BY <1>5, <1>6 DEF HandedOver
    <3> QED
      BY <1>1, <1>2, <1>5, <1>6, <2>3, <3>1 DEF InTurnOn, DeadInTurn
  <2>4. CASE status[o] = "APPROVED"
    <3>1. k = 3 => billing[o] = "approved" /\ handed'[o]["billing-commands"] >= 2
      <4>1. k = 3 => billing[o] \in {"none", "budget", "approved", "rejected"}
        BY <1>5, <1>6, <2>4 DEF HandedOver
      <4> QED
        BY <1>5, <1>6, <2>4, <4>1 DEF InTurnOn, Deciding
    <3> QED
      BY <1>1, <1>2, <1>6, <2>4, <3>1 DEF InTurnOn, DeadInTurn
  <2> QED
    BY <1>1, <1>5, <2>1, <2>2, <2>3, <2>4 DEF DeadInTurn
<1>9. Diagnosing(o)' /\ Deciding(o)' /\ Repairing(o)'
  BY <1>1, <1>7 DEF InTurnOn, Diagnosing, Deciding, Repairing, Left0, Left1, Left2
<1>10. GivenUp(o)'
  BY <1>1, <1>6, <1>7 DEF InTurnOn, GivenUp, LeftOf
<1> QED
  BY <1>7, <1>8, <1>9, <1>10 DEF InTurnOn

\* The mechanic and the customer act while the order waits for what they say.
LEMMA PeopleInTurn ==
    ASSUME TypeOK, NEW o \in OrderId, InTurnOn(o), MechanicActs(o) \/ CustomerActs(o)
    PROVE  InTurnOn(o)'
<1>1. /\ status' = status /\ outbox' = outbox /\ processed' = processed /\ taken' = taken
      /\ handed' = handed /\ dead' = dead
      /\ status[o] \in OSStatus \cup {"NONE"}
  BY SameType, SameTables DEF MechanicActs, CustomerActs, serviceVars, TypeOK, Facts!TypeOK
<1>2. \A r \in SagaReplyType : Answer(o, <<r>>) =>
         /\ HandledInOrder(o)'
         /\ Left0(o) => Left1(o, r)'
         /\ \A s : Left1(o, s) => Left2(o, s, r)'
  BY <1>1, LeftMore DEF InTurnOn
<1>3. CASE MechanicActs(o)
  <2>1. PICK work \in Repairs :
           /\ execution[o] = work[1] /\ execution'[o] = work[2] /\ billing' = billing
           /\ Answer(o, <<work[3]>>)
    BY <1>3 DEF MechanicActs, TypeOK
  <2>2. /\ HandledInOrder(o)'
        /\ Left0(o) => Left1(o, work[3])'
        /\ \A s : Left1(o, s) => Left2(o, s, work[3])'
    <3>1. work[3] \in SagaReplyType
      BY DEF Repairs, SagaReplyType
    <3> QED
      BY <1>2, <2>1, <3>1
  <2>3. status[o] \in {"RECEIVED", "DIAGNOSIS", "PAID", "EXECUTION"}
    BY <1>1, <2>1 DEF InTurnOn, Diagnosing, Deciding, Repairing, GivenUp, Repairs, OSStatus
  <2>4. DeadInTurn(o)' /\ Deciding(o)' /\ GivenUp(o)'
    BY <1>1, <2>1, <2>3 DEF InTurnOn, DeadInTurn, Deciding, GivenUp, Repairs
  <2>5. Diagnosing(o)'
    BY <1>1, <2>1, <2>2, <2>3 DEF InTurnOn, Diagnosing, Repairs
  <2>6. Repairing(o)'
    BY <1>1, <2>1, <2>2, <2>3 DEF InTurnOn, Repairing, Repairs, Facts!Paid
  <2> QED
    BY <2>2, <2>4, <2>5, <2>6 DEF InTurnOn
<1>4. CASE CustomerActs(o)
  <2>1. PICK decision \in Decisions :
           /\ billing[o] = decision[1] /\ billing'[o] = decision[2] /\ execution' = execution
           /\ Answer(o, <<decision[3]>>)
    BY <1>4 DEF CustomerActs, TypeOK
  <2>2. /\ HandledInOrder(o)'
        /\ Left0(o) => Left1(o, decision[3])'
        /\ \A s : Left1(o, s) => Left2(o, s, decision[3])'
    <3>1. decision[3] \in SagaReplyType
      BY DEF Decisions, SagaReplyType
    <3> QED
      BY <1>2, <2>1, <3>1
  <2>3. status[o] \in {"WAITING_APPROVAL", "APPROVED"}
    BY <1>1, <2>1
    DEF InTurnOn, Diagnosing, Deciding, Repairing, GivenUp, Decisions, OSStatus, Facts!Paid
  <2>4. DeadInTurn(o)'
    BY <1>1, <2>1, <2>3 DEF InTurnOn, DeadInTurn, Decisions
  <2>5. Diagnosing(o)' /\ Repairing(o)' /\ GivenUp(o)'
    BY <1>1, <2>1, <2>3 DEF InTurnOn, Diagnosing, Repairing, GivenUp, Facts!Paid
  <2>6. Deciding(o)'
    BY <1>1, <2>1, <2>2, <2>3 DEF InTurnOn, Deciding, Decisions
  <2> QED
    BY <2>2, <2>4, <2>5, <2>6 DEF InTurnOn
<1> QED
  BY <1>3, <1>4

\* Emptying the queues leaves what is still to be handled; without a fault only
\* a diagnosis dies, of an order whose customer has left.
LEMMA QueuesInTurn ==
    ASSUME TypeOK, faults = {}, NEW o \in OrderId, InTurnOn(o),
           DeleteReply(o) \/ ReplyDies(o) \/ \E q \in Queue : DeleteDeadCommand(o, q)
    PROVE  InTurnOn(o)'
<1>1. /\ status' = status /\ outbox' = outbox /\ processed' = processed /\ handed' = handed
      /\ execution' = execution /\ billing' = billing /\ answers' = answers
  BY DEF DeleteReply, ReplyDies, DeleteDeadCommand, serviceVars, participantVars
<1>2. DeadInTurn(o)'
  <2>1. dead'[o] \subseteq dead[o]
    BY DEF DeleteReply, ReplyDies, DeleteDeadCommand, TypeOK
  <2> QED
    BY <1>1, <2>1 DEF InTurnOn, DeadInTurn
<1>3. CASE DeleteReply(o) \/ \E q \in Queue : DeleteDeadCommand(o, q)
  <2>1. Done(o)' = Done(o) /\ HandledInOrder(o)'
    <3>1. CASE DeleteReply(o)
      BY <3>1, LeftDeleted DEF InTurnOn
    <3>2. CASE \E q \in Queue : DeleteDeadCommand(o, q)
      <4>1. taken' = taken
        BY <3>2 DEF DeleteDeadCommand
      <4> QED
        BY <1>1, <4>1, DoneKept DEF TypeOK, InTurnOn, HandledInOrder
    <3> QED
      BY <1>3, <3>1, <3>2
  <2>2. Diagnosing(o)' /\ Deciding(o)' /\ Repairing(o)' /\ GivenUp(o)'
    BY <1>1, <2>1 DEF InTurnOn, Diagnosing, Deciding, Repairing, GivenUp, Left0, Left1, Left2,
       LeftOf
  <2> QED
    BY <1>2, <2>1, <2>2 DEF InTurnOn
<1>4. CASE ReplyDies(o)
  <2>1. /\ HasReply(o) /\ HeadId(o) \notin processed
        /\ taken' = [taken EXCEPT ![o] = @ + 1]
        /\ status[o] = "DIAGNOSIS"
    BY <1>4 DEF ReplyDies, CannotBeHandled, EXPECTED_STATUS
  <2>2. /\ HandledInOrder(o)' /\ ~ Left0(o)
        /\ \A r : Left1(o, r) => HeadReply(o) = r /\ Left0(o)'
    BY <1>1, <2>1, LeftLess DEF InTurnOn
  <2>3. Diagnosing(o)'
    BY <1>1, <2>1, <2>2 DEF InTurnOn, Diagnosing
  <2>4. Deciding(o)' /\ Repairing(o)' /\ GivenUp(o)'
    BY <1>1, <2>1 DEF Deciding, Repairing, GivenUp, Facts!Paid
  <2> QED
    BY <1>2, <2>2, <2>3, <2>4 DEF InTurnOn
<1> QED
  BY <1>3, <1>4

LEMMA NextInTurn ==
    ASSUME TypeOK, Trails, Agreed, InTurn, [Next /\ UNCHANGED faults]_<<vars, faults>>
    PROVE  InTurn'
<1> SUFFICES ASSUME faults = {}, NEW p \in OrderId PROVE InTurnOn(p)'
  BY DEF InTurn
<1>1. \A o \in OrderId : InTurnOn(o)
  BY DEF InTurn
<1>2. CASE UNCHANGED vars
  <2>1. Untouched(p)
    BY <1>2 DEF vars, serviceVars, participantVars, Untouched
  <2> QED
    BY <1>1, <2>1, InTurnKept
<1>3. ASSUME NEW o \in OrderId,
             \/ Open(o) \/ Deliver(o) \/ CustomerLeaves(o)
             \/ MechanicActs(o) \/ CustomerActs(o)
             \/ HandleReply(o) \/ DeleteReply(o) \/ ReplyDies(o)
             \/ \E q \in Queue :
                   \/ TakeCommand(o, q) \/ CommandDies(o, q) \/ CarriedOutAndDead(o, q)
                   \/ HandleDeadCommand(o, q) \/ DeleteDeadCommand(o, q)
      PROVE  InTurnOn(p)'
  <2>1. CASE p # o
    <3>1. Untouched(p)
      BY <1>3, <2>1, OthersUntouched
    <3> QED
      BY <1>1, <3>1, InTurnKept
  <2>2. \A q \in Queue : ~ CarriedOutAndDead(o, q)
    BY DEF CarriedOutAndDead
  <2> QED
    BY <1>1, <1>3, <2>1, <2>2, StaffInTurn, PeopleInTurn, RepliesInTurn, QueuesInTurn,
       TakenInTurn, DeathsInTurn, DeadCommandsInTurn
<1> QED
  BY <1>2, <1>3 DEF Next, vars

LEMMA InTurnInitially == Init => InTurn
<1> SUFFICES ASSUME Init, NEW o \in OrderId PROVE InTurnOn(o)
  BY DEF InTurn
<1>1. /\ status[o] = "NONE" /\ processed = {} /\ answers[o] = <<>> /\ taken[o] = 0
      /\ dead[o] = {} /\ execution[o] = "none" /\ billing[o] = "none"
  BY SameInit DEF Init, Facts!Init
<1>2. Done(o) = 0 /\ Len(answers[o]) = 0
  BY <1>1 DEF Done
<1> QED
  BY <1>1, <1>2
  DEF InTurnOn, HandledInOrder, DeadInTurn, Diagnosing, Deciding, Repairing, GivenUp, Left0,
      Facts!Paid

\* A reply that was not handled before finds its order in the status it waits
\* for: the two participants, the two dead-letter queues and the staff all move
\* the order, and none of them moves it past a reply that is still to come.
THEOREM RepeatsCorrect == Spec => []OnlyRepeatsAreDropped
<1>1. TypeOK /\ InTurn => OnlyRepeatsAreDropped
  BY HeadIsExpected DEF InTurn, OnlyRepeatsAreDropped
<1> QED
  BY <1>1, InTurnInitially, NextInTurn, TypeCorrect, TrailsCorrect, AgreedCorrect, PTL DEF Spec
=============================================================================
