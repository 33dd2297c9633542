----------------------- MODULE ServiceOrderSagaProofs -----------------------
(***************************************************************************)
(* What ServiceOrderSaga guarantees for any number of orders, parts,       *)
(* services, customers and messages.                                       *)
(***************************************************************************)
EXTENDS ServiceOrderSaga, FiniteSetTheorems, WellFoundedInduction, TLAPS

-----------------------------------------------------------------------------
(* Lemmas about the building blocks of the actions.                        *)

\* Appending well-formed commands keeps the outbox well formed.
LEMMA SendType ==
    ASSUME TypeOK, NEW o \in OrderId, NEW commands \in Seq(Command), Send(o, commands)
    PROVE  outbox' \in [OrderId -> Seq(Command)]
<1>1. outbox[o] \o commands \in Seq(Command)
  BY DEF TypeOK
<1> QED
  BY <1>1 DEF TypeOK, Send

\* A command without a payload is a well-formed outbox row.
LEMMA CmdType ==
    ASSUME NEW type \in SagaCommandType
    PROVE  Cmd(type) \in Command
BY DEF Cmd, Command, Lines, NoLines

\* Compensation commands are well formed.
LEMMA CancelCommandsType ==
    ASSUME NEW c \in Compensable
    PROVE  CancelCommands(c) \in Seq(Command)
<1>1. Cmd("CancelExecution") \in Command /\ Cmd("CancelBudget") \in Command
  BY CmdType DEF SagaCommandType
<1> QED
  BY <1>1 DEF CancelCommands, Compensable

\* A legal move keeps the statuses and the histories well typed.
LEMMA MoveToType ==
    ASSUME TypeOK, NEW o \in OrderId, NEW to \in OSStatus, MoveTo(o, to)
    PROVE  /\ status' \in [OrderId -> OSStatus \cup {"NONE"}]
           /\ history' \in [OrderId -> Seq(OSStatus)]
<1>1. Append(history[o], to) \in Seq(OSStatus)
  BY DEF TypeOK
<1> QED
  BY <1>1 DEF TypeOK, MoveTo

\* Releasing and consuming never take a counter below zero.
LEMMA ReleaseType ==
    ASSUME TypeOK, NEW o \in OrderId, ReleaseReservations(o)
    PROVE  reserved' \in [ItemId -> Nat] /\ stock' \in [ItemId -> Nat]
BY DEF TypeOK, Lines, ReleaseReservations, CanRelease

\* The parts of a paid order leave the shelf and the reservation.
LEMMA ConsumeType ==
    ASSUME TypeOK, NEW o \in OrderId, Consume(o)
    PROVE  reserved' \in [ItemId -> Nat] /\ stock' \in [ItemId -> Nat]
BY DEF TypeOK, Lines, Consume, CanConsume

-----------------------------------------------------------------------------
(* Type correctness.                                                       *)

\* Every table is well typed before the first request.
LEMMA InitType == Init => TypeOK
<1> SUFFICES ASSUME Init PROVE TypeOK
  OBVIOUS
<1>1. NoLines \in Lines
  BY DEF Lines, NoLines
<1>2. history \in [OrderId -> Seq(OSStatus)] /\ outbox \in [OrderId -> Seq(Command)]
  <2>1. <<>> \in Seq(OSStatus) /\ <<>> \in Seq(Command)
    OBVIOUS
  <2> QED
    BY <2>1 DEF Init
<1>3. stock \in [ItemId -> Nat]
  BY SagaAssumption DEF SagaAssumption, Init
<1> QED
  BY <1>1, <1>2, <1>3 DEF Init, TypeOK

\* The requests of staff and customers keep every table well typed.
LEMMA RequestType ==
    ASSUME TypeOK, Request
    PROVE  TypeOK'
<1> USE DEF orderVars, lineVars, stockVars
<1>1. ASSUME NEW o \in OrderId, NEW lines \in RequestedLines, NEW tasks \in SUBSET ServiceId,
             CreateServiceOrder(o, lines, tasks)
      PROVE  TypeOK'
  <2>1. lines \in Lines
    BY <1>1 DEF RequestedLines, Lines
  <2>2. reserved' \in [ItemId -> Nat]
    BY <1>1, <2>1 DEF CreateServiceOrder, TypeOK, Lines
  <2>3. <<Cmd("EnqueueDiagnosis")>> \in Seq(Command)
    BY CmdType DEF SagaCommandType
  <2>4. outbox' \in [OrderId -> Seq(Command)]
    BY <1>1, <2>3, SendType DEF CreateServiceOrder
  <2>5. <<"RECEIVED">> \in Seq(OSStatus) /\ "RECEIVED" \in OSStatus
    BY DEF OSStatus
  <2> QED
    BY <1>1, <2>1, <2>2, <2>4, <2>5 DEF CreateServiceOrder, TypeOK
<1>2. ASSUME NEW o \in OrderId, NEW i \in ItemId, NEW q \in Quantity, AddItem(o, i, q)
      PROVE  TypeOK'
  <2>1. q \in Int
    BY SagaAssumption DEF SagaAssumption
  <2>2. reserved' \in [ItemId -> Int] /\ \A j \in ItemId : 0 <= reserved'[j]
    BY <1>2, <2>1 DEF AddItem, StockCheck, TypeOK
  <2>3. reserved' \in [ItemId -> Nat]
    BY <2>2
  <2>4. items[o][i] + q \in Nat
    BY <1>2, <2>1 DEF AddItem, TypeOK, Lines
  <2>5. items' \in [OrderId -> Lines]
    BY <1>2, <2>4 DEF AddItem, TypeOK, Lines
  <2> QED
    BY <1>2, <2>3, <2>5 DEF AddItem, TypeOK
<1>3. ASSUME NEW o \in OrderId, NEW i \in ItemId, RemoveItem(o, i)
      PROVE  TypeOK'
  <2>1. reserved' \in [ItemId -> Int] /\ \A j \in ItemId : 0 <= reserved'[j]
    BY <1>3 DEF RemoveItem, StockCheck, TypeOK, Lines
  <2>2. reserved' \in [ItemId -> Nat]
    BY <2>1
  <2>3. items' \in [OrderId -> Lines]
    BY <1>3 DEF RemoveItem, TypeOK, Lines
  <2> QED
    BY <1>3, <2>2, <2>3 DEF RemoveItem, TypeOK
<1>4. ASSUME NEW o \in OrderId, NEW s \in ServiceId, AddService(o, s) \/ RemoveService(o, s)
      PROVE  TypeOK'
  <2>1. services' \in [OrderId -> SUBSET ServiceId]
    <3>1. services[o] \cup {s} \in SUBSET ServiceId /\ services[o] \ {s} \in SUBSET ServiceId
      BY DEF TypeOK
    <3> QED
      BY <1>4, <3>1 DEF AddService, RemoveService, TypeOK
  <2> QED
    BY <1>4, <2>1 DEF AddService, RemoveService, TypeOK
<1>5. ASSUME NEW o \in OrderId, Deliver(o)
      PROVE  TypeOK'
  <2>1. "DELIVERED" \in OSStatus
    BY DEF OSStatus
  <2>2. status' \in [OrderId -> OSStatus \cup {"NONE"}] /\ history' \in [OrderId -> Seq(OSStatus)]
    BY <1>5, <2>1, MoveToType DEF Deliver
  <2> QED
    BY <1>5, <2>2 DEF Deliver, TypeOK
<1>6. ASSUME NEW i \in ItemId, NEW n \in StockLevel, UpdateStock(i, n)
      PROVE  TypeOK'
  <2>1. n \in Nat
    BY SagaAssumption DEF SagaAssumption
  <2> QED
    BY <1>6, <2>1 DEF UpdateStock, TypeOK
<1>7. ASSUME NEW c \in CustomerId, DeleteCustomer(c)
      PROVE  TypeOK'
  BY <1>7 DEF DeleteCustomer, TypeOK
<1> QED
  BY <1>1, <1>2, <1>3, <1>4, <1>5, <1>6, <1>7 DEF Request

\* Handling a message, a reply or a dead command, keeps every table well typed.
LEMMA HandleType ==
    ASSUME TypeOK, NEW id \in MessageId, NEW o \in OrderId,
           HandleReply(id, o) \/ HandleFailedCommand(id, o)
    PROVE  TypeOK'
<1> USE DEF orderVars, lineVars, stockVars
<1>0. Record(id) => processed' \subseteq MessageId
  BY DEF Record, TypeOK
<1>s. /\ "DIAGNOSIS" \in OSStatus /\ "WAITING_APPROVAL" \in OSStatus /\ "APPROVED" \in OSStatus
      /\ "REJECTED" \in OSStatus /\ "PAID" \in OSStatus /\ "CANCELLED" \in OSStatus
      /\ "EXECUTION" \in OSStatus /\ "FINISHED" \in OSStatus
  BY DEF OSStatus
<1>c. /\ <<Cmd("RequestPayment")>> \in Seq(Command)
      /\ <<Cmd("CancelExecution")>> \in Seq(Command)
      /\ <<Cmd("CancelExecution"), Cmd("CancelBudget")>> \in Seq(Command)
  <2>1. /\ Cmd("RequestPayment") \in Command /\ Cmd("CancelExecution") \in Command
        /\ Cmd("CancelBudget") \in Command
    BY CmdType DEF SagaCommandType
  <2> QED
    BY <2>1
<1>1. CASE DiagnosisStarted(id, o)
  <2>1. status' \in [OrderId -> OSStatus \cup {"NONE"}] /\ history' \in [OrderId -> Seq(OSStatus)]
    BY <1>1, <1>s, MoveToType DEF DiagnosisStarted
  <2> QED
    BY <1>0, <1>1, <2>1 DEF DiagnosisStarted, Accepted, TypeOK
<1>2. CASE DiagnosisCompleted(id, o)
  <2>1. status' \in [OrderId -> OSStatus \cup {"NONE"}] /\ history' \in [OrderId -> Seq(OSStatus)]
    BY <1>2, <1>s, MoveToType DEF DiagnosisCompleted
  <2>2. <<[type |-> "GenerateBudget", items |-> items[o], services |-> services[o]]>> \in Seq(Command)
    BY DEF Command, TypeOK, SagaCommandType
  <2>3. outbox' \in [OrderId -> Seq(Command)]
    BY <1>2, <2>2, SendType DEF DiagnosisCompleted
  <2> QED
    BY <1>0, <1>2, <2>1, <2>3 DEF DiagnosisCompleted, Accepted, TypeOK
<1>3. CASE BudgetGenerated(id, o)
  BY <1>0, <1>3 DEF BudgetGenerated, Accepted, TypeOK
<1>4. CASE BudgetApproved(id, o)
  <2>1. status' \in [OrderId -> OSStatus \cup {"NONE"}] /\ history' \in [OrderId -> Seq(OSStatus)]
    BY <1>4, <1>s, MoveToType DEF BudgetApproved
  <2>2. outbox' \in [OrderId -> Seq(Command)]
    BY <1>4, <1>c, SendType DEF BudgetApproved
  <2> QED
    BY <1>0, <1>4, <2>1, <2>2 DEF BudgetApproved, Accepted, TypeOK
<1>5. CASE BudgetRejected(id, o)
  <2>1. status' \in [OrderId -> OSStatus \cup {"NONE"}] /\ history' \in [OrderId -> Seq(OSStatus)]
    BY <1>5, <1>s, MoveToType DEF BudgetRejected
  <2>2. outbox' \in [OrderId -> Seq(Command)]
    BY <1>5, <1>c, SendType DEF BudgetRejected
  <2> QED
    BY <1>0, <1>5, <2>1, <2>2, ReleaseType DEF BudgetRejected, Accepted, TypeOK
<1>6. CASE PaymentConfirmed(id, o)
  <2>1. status' \in [OrderId -> OSStatus \cup {"NONE"}] /\ history' \in [OrderId -> Seq(OSStatus)]
    BY <1>6, <1>s, MoveToType DEF PaymentConfirmed
  <2>2. <<[type |-> "EnqueueRepair", items |-> NoLines, services |-> services[o]]>> \in Seq(Command)
    BY DEF Command, TypeOK, SagaCommandType, Lines, NoLines
  <2>3. outbox' \in [OrderId -> Seq(Command)]
    BY <1>6, <2>2, SendType DEF PaymentConfirmed
  <2> QED
    BY <1>0, <1>6, <2>1, <2>3, ConsumeType DEF PaymentConfirmed, Accepted, TypeOK
<1>7. CASE PaymentFailed(id, o)
  <2>1. status' \in [OrderId -> OSStatus \cup {"NONE"}] /\ history' \in [OrderId -> Seq(OSStatus)]
    BY <1>7, <1>s, MoveToType DEF PaymentFailed
  <2>2. outbox' \in [OrderId -> Seq(Command)]
    BY <1>7, <1>c, SendType DEF PaymentFailed
  <2> QED
    BY <1>0, <1>7, <2>1, <2>2, ReleaseType DEF PaymentFailed, Accepted, TypeOK
<1>8. CASE RepairStarted(id, o)
  <2>1. status' \in [OrderId -> OSStatus \cup {"NONE"}] /\ history' \in [OrderId -> Seq(OSStatus)]
    BY <1>8, <1>s, MoveToType DEF RepairStarted
  <2> QED
    BY <1>0, <1>8, <2>1 DEF RepairStarted, Accepted, TypeOK
<1>9. CASE RepairCompleted(id, o)
  <2>1. status' \in [OrderId -> OSStatus \cup {"NONE"}] /\ history' \in [OrderId -> Seq(OSStatus)]
    BY <1>9, <1>s, MoveToType DEF RepairCompleted
  <2> QED
    BY <1>0, <1>9, <2>1 DEF RepairCompleted, Accepted, TypeOK
<1>10. ASSUME NEW r, CompensationConfirmed(id, o, r) \/ IgnoredReply(id, o, r)
       PROVE  TypeOK'
  BY <1>0, <1>10 DEF CompensationConfirmed, IgnoredReply, Ignored, Accepted, TypeOK
<1>11. ASSUME NEW c, StepFailed(id, o, c)
       PROVE  TypeOK'
  <2>1. status' \in [OrderId -> OSStatus \cup {"NONE"}] /\ history' \in [OrderId -> Seq(OSStatus)]
    BY <1>11, <1>s, MoveToType DEF StepFailed
  <2>2. outbox' \in [OrderId -> Seq(Command)]
    BY <1>11, CancelCommandsType, SendType DEF StepFailed
  <2> QED
    BY <1>0, <1>11, <2>1, <2>2, ReleaseType DEF StepFailed, Accepted, TypeOK
<1>12. ASSUME NEW c, ReportStuck(id, o, c) \/ IgnoredFailure(id, o, c)
       PROVE  TypeOK'
  BY <1>0, <1>12 DEF ReportStuck, IgnoredFailure, Ignored, Accepted, TypeOK
<1> QED
  BY <1>1, <1>2, <1>3, <1>4, <1>5, <1>6, <1>7, <1>8, <1>9, <1>10, <1>11, <1>12
  DEF HandleReply, HandleFailedCommand

\* Every step keeps every table well typed.
LEMMA NextType == TypeOK /\ [Next]_vars => TypeOK'
<1> SUFFICES ASSUME TypeOK, [Next]_vars PROVE TypeOK'
  OBVIOUS
<1>1. CASE UNCHANGED vars
  BY <1>1 DEF vars, TypeOK
<1>2. CASE Request
  BY <1>2, RequestType
<1>3. CASE \E id \in MessageId, o \in OrderId : HandleReply(id, o) \/ HandleFailedCommand(id, o)
  BY <1>3, HandleType
<1>4. CASE \E id \in MessageId : Duplicate(id)
  BY <1>1, <1>4 DEF Duplicate
<1> QED
  BY <1>1, <1>2, <1>3, <1>4 DEF Next

\* Every table keeps its type: in particular no counter of parts goes negative
\* and no line of an order does, whatever quantity a caller sends.
THEOREM TypeCorrect == Spec => []TypeOK
BY InitType, NextType, PTL DEF Spec

-----------------------------------------------------------------------------
(* The history of an order is a path of the state machine.                 *)

\* HistoryIsALegalPath for one order.
PathOK(o) ==
    IF status[o] = "NONE" THEN history[o] = <<>>
    ELSE /\ history[o] # <<>>
         /\ history[o][1] = "RECEIVED"
         /\ history[o][Len(history[o])] = status[o]
         /\ \A k \in 1 .. Len(history[o]) - 1 :
               canTransition(history[o][k], history[o][k + 1])

\* A move adds one legal step at the end of the path.
LEMMA MoveToPath ==
    ASSUME TypeOK, NEW o \in OrderId, NEW to \in OSStatus, MoveTo(o, to), PathOK(o)
    PROVE  PathOK(o)'
<1>1. status[o] # "NONE" /\ to # "NONE"
  BY DEF MoveTo, canTransition, OSStatus
<1>2. /\ history[o] \in Seq(OSStatus) /\ history[o] # <<>>
      /\ history[o][Len(history[o])] = status[o] /\ history[o][1] = "RECEIVED"
  BY <1>1 DEF PathOK, TypeOK
<1>3. history'[o] = Append(history[o], to) /\ status'[o] = to
  BY DEF MoveTo, TypeOK
<1>4. /\ Len(history'[o]) = Len(history[o]) + 1 /\ Len(history[o]) \in Nat \ {0}
      /\ \A k \in 1 .. Len(history[o]) : history'[o][k] = history[o][k]
      /\ history'[o][Len(history[o]) + 1] = to
  BY <1>2, <1>3
<1>5. canTransition(status[o], to)
  BY DEF MoveTo
<1>6. ASSUME NEW k \in 1 .. Len(history'[o]) - 1
      PROVE  canTransition(history'[o][k], history'[o][k + 1])
  <2>1. CASE k = Len(history[o])
    BY <1>2, <1>4, <1>5, <2>1
  <2>2. CASE k # Len(history[o])
    <3>1. k \in 1 .. Len(history[o]) - 1 /\ k + 1 \in 1 .. Len(history[o])
      BY <1>4, <2>2
    <3> QED
      BY <1>1, <1>4, <3>1 DEF PathOK
  <2> QED
    BY <2>1, <2>2
<1> QED
  BY <1>1, <1>2, <1>3, <1>4, <1>6 DEF PathOK

\* How one step changes the status and the history of the orders: not at all,
\* by opening one of them, or by one legal move of one of them.
LEMMA StatusStep ==
    ASSUME TypeOK, [Next]_vars
    PROVE  \/ UNCHANGED orderVars
           \/ \E o \in OrderId : /\ status[o] = "NONE"
                                 /\ status' = [status EXCEPT ![o] = "RECEIVED"]
                                 /\ history' = [history EXCEPT ![o] = <<"RECEIVED">>]
           \/ \E o \in OrderId, to \in OSStatus : MoveTo(o, to)
<1>s. /\ "DIAGNOSIS" \in OSStatus /\ "WAITING_APPROVAL" \in OSStatus /\ "APPROVED" \in OSStatus
      /\ "REJECTED" \in OSStatus /\ "PAID" \in OSStatus /\ "CANCELLED" \in OSStatus
      /\ "EXECUTION" \in OSStatus /\ "FINISHED" \in OSStatus /\ "DELIVERED" \in OSStatus
  BY DEF OSStatus
<1>1. CASE Request
  BY <1>s, <1>1 DEF Request, CreateServiceOrder, AddItem, RemoveItem, AddService, RemoveService,
       Deliver, UpdateStock, DeleteCustomer, orderVars
<1>2. ASSUME NEW id \in MessageId, NEW o \in OrderId, HandleReply(id, o)
      PROVE  UNCHANGED orderVars \/ \E to \in OSStatus : MoveTo(o, to)
  BY <1>s, <1>2 DEF HandleReply, DiagnosisStarted, DiagnosisCompleted, BudgetGenerated,
       BudgetApproved, BudgetRejected, PaymentConfirmed, PaymentFailed, RepairStarted,
       RepairCompleted, CompensationConfirmed, IgnoredReply, Ignored, orderVars
<1>3. ASSUME NEW id \in MessageId, NEW o \in OrderId, HandleFailedCommand(id, o)
      PROVE  UNCHANGED orderVars \/ \E to \in OSStatus : MoveTo(o, to)
  BY <1>s, <1>3 DEF HandleFailedCommand, StepFailed, ReportStuck, IgnoredFailure, Ignored, orderVars
<1>4. CASE UNCHANGED vars
  BY <1>4 DEF vars, orderVars
<1> QED
  BY <1>1, <1>2, <1>3, <1>4 DEF Next, Duplicate

\* A step that opens an order or moves one legally keeps the histories paths.
LEMMA PathStep ==
    ASSUME TypeOK, HistoryIsALegalPath, [Next]_vars
    PROVE  HistoryIsALegalPath'
<1>0. HistoryIsALegalPath <=> \A o \in OrderId : PathOK(o)
  BY DEF HistoryIsALegalPath, PathOK
<1>1. SUFFICES ASSUME NEW p \in OrderId PROVE PathOK(p)'
  BY DEF HistoryIsALegalPath, PathOK
<1>2. PathOK(p)
  BY <1>0
<1>3. ASSUME status'[p] = status[p], history'[p] = history[p] PROVE PathOK(p)'
  BY <1>2, <1>3 DEF PathOK
<1>4. CASE UNCHANGED orderVars
  BY <1>3, <1>4 DEF orderVars
<1>5. ASSUME NEW o \in OrderId, status[o] = "NONE",
             status' = [status EXCEPT ![o] = "RECEIVED"],
             history' = [history EXCEPT ![o] = <<"RECEIVED">>]
      PROVE  PathOK(p)'
  <2>1. CASE p = o
    <3>1. status'[p] = "RECEIVED" /\ history'[p] = <<"RECEIVED">>
      BY <1>5, <2>1 DEF TypeOK
    <3> QED
      BY <3>1 DEF PathOK
  <2>2. CASE p # o
    BY <1>3, <1>5, <2>2 DEF TypeOK
  <2> QED
    BY <2>1, <2>2
<1>6. ASSUME NEW o \in OrderId, NEW to \in OSStatus, MoveTo(o, to)
      PROVE  PathOK(p)'
  <2>1. CASE p = o
    BY <1>2, <1>6, <2>1, MoveToPath
  <2>2. CASE p # o
    BY <1>3, <1>6, <2>2 DEF MoveTo, TypeOK
  <2> QED
    BY <2>1, <2>2
<1> QED
  BY <1>4, <1>5, <1>6, StatusStep

\* The recorded history of every order starts at its opening, follows the state
\* machine and ends in the present status.
THEOREM HistoryCorrect == Spec => []HistoryIsALegalPath
<1>1. Init => HistoryIsALegalPath
  BY DEF Init, HistoryIsALegalPath
<1>2. TypeOK /\ HistoryIsALegalPath /\ [Next]_vars => HistoryIsALegalPath'
  BY PathStep
<1> QED
  BY <1>1, <1>2, TypeCorrect, PTL DEF Spec
-----------------------------------------------------------------------------
(* What an order asked of the participants is decided by its status. This  *)
(* is the inductive invariant behind the three theorems below: each of     *)
(* those alone says too little about the other commands to be inductive.   *)

Sent0(o) == Len(outbox[o]) = 0
Sent1(o) == Len(outbox[o]) = 1 /\ outbox[o][1].type = "EnqueueDiagnosis"
Sent2(o) == /\ Len(outbox[o]) = 2 /\ outbox[o][1].type = "EnqueueDiagnosis"
            /\ outbox[o][2].type = "GenerateBudget"
Sent3(o, last) == /\ Len(outbox[o]) = 3 /\ outbox[o][1].type = "EnqueueDiagnosis"
                  /\ outbox[o][2].type = "GenerateBudget" /\ outbox[o][3].type = last
Sent4(o) == /\ Len(outbox[o]) = 4 /\ outbox[o][1].type = "EnqueueDiagnosis"
            /\ outbox[o][2].type = "GenerateBudget" /\ outbox[o][3].type = "RequestPayment"
            /\ outbox[o][4].type = "EnqueueRepair"
Sent5(o) == /\ Len(outbox[o]) = 5 /\ outbox[o][1].type = "EnqueueDiagnosis"
            /\ outbox[o][2].type = "GenerateBudget" /\ outbox[o][3].type = "RequestPayment"
            /\ outbox[o][4].type = "CancelExecution" /\ outbox[o][5].type = "CancelBudget"

\* The commands of an order, by its status.
TrailOf(o) ==
    /\ status[o] = "NONE" => Sent0(o)
    /\ status[o] \in {"RECEIVED", "DIAGNOSIS"} => Sent1(o)
    /\ status[o] = "WAITING_APPROVAL" => Sent2(o)
    /\ status[o] = "APPROVED" => Sent3(o, "RequestPayment")
    /\ status[o] \in Paid => Sent4(o)
    /\ status[o] = "REJECTED" => Sent3(o, "CancelExecution")
    /\ status[o] = "CANCELLED" => Sent1(o) \/ Sent3(o, "CancelExecution") \/ Sent5(o)

\* The lines priced, and the tasks handed to the mechanic, are the order's.
PayloadOf(o) ==
    \A k \in 1 .. Len(outbox[o]) :
        /\ outbox[o][k].type = "GenerateBudget" =>
              outbox[o][k].items = items[o] /\ outbox[o][k].services = services[o]
        /\ outbox[o][k].type = "EnqueueRepair" => outbox[o][k].services = services[o]

Trail == \A o \in OrderId : TrailOf(o) /\ PayloadOf(o)

\* Sending appends to the outbox of one order.
LEMMA SendAppends ==
    ASSUME TypeOK, NEW o \in OrderId, NEW commands \in Seq(Command), Send(o, commands)
    PROVE  /\ outbox'[o] = outbox[o] \o commands
           /\ Len(outbox[o]) \in Nat /\ Len(commands) \in Nat
           /\ Len(outbox'[o]) = Len(outbox[o]) + Len(commands)
           /\ \A k \in 1 .. Len(outbox[o]) : outbox'[o][k] = outbox[o][k]
           /\ \A k \in 1 .. Len(commands) : outbox'[o][Len(outbox[o]) + k] = commands[k]
           /\ \A p \in OrderId \ {o} : outbox'[p] = outbox[p]
<1>1. outbox[o] \in Seq(Command)
  BY DEF TypeOK
<1>2. outbox'[o] = outbox[o] \o commands /\ \A p \in OrderId \ {o} : outbox'[p] = outbox[p]
  BY DEF TypeOK, Send
<1> QED
  BY <1>1, <1>2

\* One command more at the end of what an order had sent.
LEMMA SendOne ==
    ASSUME TypeOK, NEW o \in OrderId, NEW command \in Command, Send(o, <<command>>)
    PROVE  /\ Len(outbox'[o]) = Len(outbox[o]) + 1
           /\ \A k \in 1 .. Len(outbox[o]) : outbox'[o][k] = outbox[o][k]
           /\ outbox'[o][Len(outbox[o]) + 1] = command
           /\ \A p \in OrderId \ {o} : outbox'[p] = outbox[p]
<1> DEFINE s == <<command>>
<1>1. s \in Seq(Command) /\ Len(s) = 1 /\ s[1] = command
  OBVIOUS
<1>2. 1 \in 1 .. Len(s)
  BY <1>1
<1> HIDE DEF s
<1>3. Send(o, s)
  BY DEF s
<1> QED
  BY <1>1, <1>2, <1>3, SendAppends

\* Two commands more at the end of what an order had sent.
LEMMA SendTwo ==
    ASSUME TypeOK, NEW o \in OrderId, NEW c1 \in Command, NEW c2 \in Command, Send(o, <<c1, c2>>)
    PROVE  /\ Len(outbox'[o]) = Len(outbox[o]) + 2
           /\ \A k \in 1 .. Len(outbox[o]) : outbox'[o][k] = outbox[o][k]
           /\ outbox'[o][Len(outbox[o]) + 1] = c1
           /\ outbox'[o][Len(outbox[o]) + 2] = c2
           /\ \A p \in OrderId \ {o} : outbox'[p] = outbox[p]
<1> DEFINE s == <<c1, c2>>
<1>1. s \in Seq(Command) /\ Len(s) = 2 /\ s[1] = c1 /\ s[2] = c2
  OBVIOUS
<1>2. 1 \in 1 .. Len(s) /\ 2 \in 1 .. Len(s)
  BY <1>1
<1> HIDE DEF s
<1>3. Send(o, s)
  BY DEF s
<1>4. /\ Len(outbox[o]) \in Nat
      /\ Len(outbox'[o]) = Len(outbox[o]) + Len(s)
      /\ \A k \in 1 .. Len(outbox[o]) : outbox'[o][k] = outbox[o][k]
      /\ \A k \in 1 .. Len(s) : outbox'[o][Len(outbox[o]) + k] = s[k]
      /\ \A p \in OrderId \ {o} : outbox'[p] = outbox[p]
  BY <1>1, <1>3, SendAppends
<1>5. outbox'[o][Len(outbox[o]) + 1] = s[1]
  BY <1>2, <1>4
<1>6. outbox'[o][Len(outbox[o]) + 2] = s[2]
  BY <1>2, <1>4
<1> QED
  BY <1>1, <1>4, <1>5, <1>6

\* A move within the statuses of the same trail sends nothing.
LEMMA TrailOfKept ==
    ASSUME NEW p \in OrderId, TrailOf(p), outbox'[p] = outbox[p],
           \/ status'[p] = status[p]
           \/ status[p] = "RECEIVED" /\ status'[p] = "DIAGNOSIS"
           \/ status[p] = "RECEIVED" /\ status'[p] = "CANCELLED"
           \/ status[p] \in Paid /\ status'[p] \in Paid
    PROVE  TrailOf(p)'
  BY DEF TrailOf, Sent0, Sent1, Sent2, Sent3, Sent4, Sent5, Paid

\* An order whose commands, lines and tasks a step leaves alone keeps its trail,
\* if its status moves at most within the statuses of the same trail.
LEMMA TrailKept ==
    ASSUME Trail, NEW p \in OrderId,
           outbox'[p] = outbox[p], items'[p] = items[p], services'[p] = services[p],
           \/ status'[p] = status[p]
           \/ status[p] = "RECEIVED" /\ status'[p] = "DIAGNOSIS"
           \/ status[p] = "RECEIVED" /\ status'[p] = "CANCELLED"
           \/ status[p] \in Paid /\ status'[p] \in Paid
    PROVE  TrailOf(p)' /\ PayloadOf(p)'
<1>1. TrailOf(p) /\ PayloadOf(p)
  BY DEF Trail
<1>2. PayloadOf(p)'
  BY <1>1 DEF PayloadOf
<1> QED
  BY <1>1, <1>2, TrailOfKept

\* One command more, whose type is the next of the new trail.
LEMMA TrailOfExtended ==
    ASSUME TypeOK, NEW o \in OrderId, TrailOf(o), NEW command \in Command, Send(o, <<command>>),
           \/ /\ status[o] = "DIAGNOSIS" /\ status'[o] = "WAITING_APPROVAL"
              /\ command.type = "GenerateBudget"
           \/ /\ status[o] = "WAITING_APPROVAL" /\ status'[o] = "APPROVED"
              /\ command.type = "RequestPayment"
           \/ /\ status[o] = "WAITING_APPROVAL" /\ status'[o] \in {"REJECTED", "CANCELLED"}
              /\ command.type = "CancelExecution"
           \/ /\ status[o] = "APPROVED" /\ status'[o] = "PAID"
              /\ command.type = "EnqueueRepair"
    PROVE  TrailOf(o)'
<1>1. /\ Len(outbox'[o]) = Len(outbox[o]) + 1
      /\ \A k \in 1 .. Len(outbox[o]) : outbox'[o][k] = outbox[o][k]
      /\ outbox'[o][Len(outbox[o]) + 1] = command
      /\ Len(outbox[o]) \in Nat
  BY SendOne DEF TypeOK
<1>2. CASE status[o] = "DIAGNOSIS"
  <2>1. Len(outbox[o]) = 1 /\ outbox[o][1].type = "EnqueueDiagnosis"
    BY <1>2 DEF TrailOf, Sent1
  <2>2. Len(outbox'[o]) = 2 /\ outbox'[o][1] = outbox[o][1] /\ outbox'[o][2] = command
    BY <1>1, <2>1
  <2> QED
    BY <1>2, <2>1, <2>2 DEF TrailOf, Sent0, Sent1, Sent2, Sent3, Sent4, Sent5, Paid
<1>3. CASE status[o] = "WAITING_APPROVAL"
  <2>1. /\ Len(outbox[o]) = 2 /\ outbox[o][1].type = "EnqueueDiagnosis"
        /\ outbox[o][2].type = "GenerateBudget"
    BY <1>3 DEF TrailOf, Sent2
  <2>2. /\ Len(outbox'[o]) = 3 /\ outbox'[o][3] = command
        /\ outbox'[o][1] = outbox[o][1] /\ outbox'[o][2] = outbox[o][2]
    BY <1>1, <2>1
  <2> QED
    BY <1>3, <2>1, <2>2 DEF TrailOf, Sent0, Sent1, Sent2, Sent3, Sent4, Sent5, Paid
<1>4. CASE status[o] = "APPROVED"
  <2>1. /\ Len(outbox[o]) = 3 /\ outbox[o][1].type = "EnqueueDiagnosis"
        /\ outbox[o][2].type = "GenerateBudget" /\ outbox[o][3].type = "RequestPayment"
    BY <1>4 DEF TrailOf, Sent3
  <2>2. /\ Len(outbox'[o]) = 4 /\ outbox'[o][4] = command /\ outbox'[o][1] = outbox[o][1]
        /\ outbox'[o][2] = outbox[o][2] /\ outbox'[o][3] = outbox[o][3]
    BY <1>1, <2>1
  <2> QED
    BY <1>4, <2>1, <2>2 DEF TrailOf, Sent0, Sent1, Sent2, Sent3, Sent4, Sent5, Paid
<1> QED
  BY <1>2, <1>3, <1>4

\* An order that adds one command whose type is the next of its new trail.
LEMMA TrailExtended ==
    ASSUME TypeOK, Trail, NEW o \in OrderId, NEW command \in Command,
           Send(o, <<command>>), UNCHANGED lineVars,
           \/ /\ status[o] = "DIAGNOSIS" /\ status'[o] = "WAITING_APPROVAL"
              /\ command.type = "GenerateBudget"
           \/ /\ status[o] = "WAITING_APPROVAL" /\ status'[o] = "APPROVED"
              /\ command.type = "RequestPayment"
           \/ /\ status[o] = "WAITING_APPROVAL" /\ status'[o] \in {"REJECTED", "CANCELLED"}
              /\ command.type = "CancelExecution"
           \/ /\ status[o] = "APPROVED" /\ status'[o] = "PAID"
              /\ command.type = "EnqueueRepair",
           command.type = "GenerateBudget" =>
              command.items = items[o] /\ command.services = services[o],
           command.type = "EnqueueRepair" => command.services = services[o]
    PROVE  TrailOf(o)' /\ PayloadOf(o)'
<1>1. TrailOf(o) /\ PayloadOf(o)
  BY DEF Trail
<1>2. /\ Len(outbox'[o]) = Len(outbox[o]) + 1
      /\ \A k \in 1 .. Len(outbox[o]) : outbox'[o][k] = outbox[o][k]
      /\ outbox'[o][Len(outbox[o]) + 1] = command
      /\ Len(outbox[o]) \in Nat
  BY SendOne DEF TypeOK
<1>3. PayloadOf(o)'
  <2>1. ASSUME NEW k \in 1 .. Len(outbox'[o])
        PROVE  /\ outbox'[o][k].type = "GenerateBudget" =>
                     outbox'[o][k].items = items[o] /\ outbox'[o][k].services = services[o]
               /\ outbox'[o][k].type = "EnqueueRepair" => outbox'[o][k].services = services[o]
    <3>1. CASE k = Len(outbox[o]) + 1
      BY <1>2, <3>1
    <3>2. CASE k # Len(outbox[o]) + 1
      <4>1. k \in 1 .. Len(outbox[o])
        BY <1>2, <3>2
      <4> QED
        BY <1>1, <1>2, <4>1 DEF PayloadOf
    <3> QED
      BY <3>1, <3>2
  <2> QED
    BY <2>1 DEF PayloadOf, lineVars
<1> QED
  BY <1>1, <1>3, TrailOfExtended

\* The two compensations of an order whose payment failed.
LEMMA TrailOfCompensated ==
    ASSUME TypeOK, NEW o \in OrderId, TrailOf(o),
           Send(o, <<Cmd("CancelExecution"), Cmd("CancelBudget")>>),
           status[o] = "APPROVED", status'[o] = "CANCELLED"
    PROVE  TrailOf(o)'
<1> DEFINE c1 == Cmd("CancelExecution")
           c2 == Cmd("CancelBudget")
<1>1. /\ c1 \in Command /\ c1.type = "CancelExecution"
      /\ c2 \in Command /\ c2.type = "CancelBudget"
  BY CmdType DEF Cmd, SagaCommandType
<1>2. /\ Len(outbox'[o]) = Len(outbox[o]) + 2
      /\ \A k \in 1 .. Len(outbox[o]) : outbox'[o][k] = outbox[o][k]
      /\ outbox'[o][Len(outbox[o]) + 1] = c1
      /\ outbox'[o][Len(outbox[o]) + 2] = c2
      /\ Len(outbox[o]) = 3
  BY <1>1, SendTwo DEF TypeOK, TrailOf, Sent0, Sent1, Sent2, Sent3, Sent4, Sent5
<1> HIDE DEF c1, c2
<1> QED
  BY <1>1, <1>2 DEF TrailOf, Sent0, Sent1, Sent2, Sent3, Sent4, Sent5, Paid

\* They carry no payload.
LEMMA TrailCompensated ==
    ASSUME TypeOK, Trail, NEW o \in OrderId,
           Send(o, <<Cmd("CancelExecution"), Cmd("CancelBudget")>>), UNCHANGED lineVars,
           status[o] = "APPROVED", status'[o] = "CANCELLED"
    PROVE  TrailOf(o)' /\ PayloadOf(o)'
<1> DEFINE c1 == Cmd("CancelExecution")
           c2 == Cmd("CancelBudget")
<1>1. TrailOf(o) /\ PayloadOf(o)
  BY DEF Trail
<1>2. /\ c1 \in Command /\ c1.type = "CancelExecution"
      /\ c2 \in Command /\ c2.type = "CancelBudget"
  BY CmdType DEF Cmd, SagaCommandType
<1>3. /\ Len(outbox'[o]) = Len(outbox[o]) + 2
      /\ \A k \in 1 .. Len(outbox[o]) : outbox'[o][k] = outbox[o][k]
      /\ outbox'[o][Len(outbox[o]) + 1] = c1
      /\ outbox'[o][Len(outbox[o]) + 2] = c2
      /\ Len(outbox[o]) = 3
  BY <1>1, <1>2, SendTwo DEF TypeOK, TrailOf, Sent0, Sent1, Sent2, Sent3, Sent4, Sent5
<1>4. PayloadOf(o)'
  <2> HIDE DEF c1, c2
  <2> QED
    BY <1>1, <1>2, <1>3 DEF PayloadOf, lineVars
<1> QED
  BY <1>1, <1>4, TrailOfCompensated

\* Edits happen before anything was priced.
LEMMA TrailEdited ==
    ASSUME Trail, NEW p \in OrderId,
           status[p] = "DIAGNOSIS", status'[p] = status[p], outbox'[p] = outbox[p]
    PROVE  TrailOf(p)' /\ PayloadOf(p)'
<1>1. Len(outbox[p]) = 1 /\ outbox[p][1].type = "EnqueueDiagnosis"
  BY DEF Trail, TrailOf, Sent1
<1>2. TrailOf(p)'
  BY <1>1 DEF TrailOf, Sent1, Paid
<1>3. PayloadOf(p)'
  BY <1>1 DEF PayloadOf
<1> QED
  BY <1>2, <1>3

\* The requests keep what every order has sent on the trail of its status.
LEMMA RequestTrail ==
    ASSUME TypeOK, Trail, Request, NEW p \in OrderId
    PROVE  TrailOf(p)' /\ PayloadOf(p)'
<1> USE DEF orderVars, lineVars, stockVars
<1>1. ASSUME NEW o \in OrderId, NEW lines \in RequestedLines, NEW tasks \in SUBSET ServiceId,
             CreateServiceOrder(o, lines, tasks)
      PROVE  TrailOf(p)' /\ PayloadOf(p)'
  <2> DEFINE command == Cmd("EnqueueDiagnosis")
  <2>1. command \in Command /\ command.type = "EnqueueDiagnosis"
    BY CmdType DEF Cmd, SagaCommandType
  <2>2. Send(o, <<command>>)
    BY <1>1 DEF CreateServiceOrder
  <2> HIDE DEF command
  <2>3. /\ Len(outbox'[o]) = Len(outbox[o]) + 1
        /\ outbox'[o][Len(outbox[o]) + 1] = command
        /\ \A q \in OrderId \ {o} : outbox'[q] = outbox[q]
    BY <2>1, <2>2, SendOne
  <2>4. CASE p = o
    <3>1. Len(outbox[o]) = 0
      BY <1>1 DEF CreateServiceOrder, Trail, TrailOf, Sent0
    <3>2. Len(outbox'[o]) = 1 /\ outbox'[o][1].type = "EnqueueDiagnosis"
      BY <2>1, <2>3, <3>1
    <3>3. status'[o] = "RECEIVED"
      BY <1>1 DEF CreateServiceOrder, TypeOK
    <3>4. TrailOf(o)'
      BY <3>2, <3>3 DEF TrailOf, Sent1, Paid
    <3>5. PayloadOf(o)'
      BY <3>2 DEF PayloadOf
    <3> QED
      BY <2>4, <3>4, <3>5
  <2>5. CASE p # o
    <3>1. /\ status'[p] = status[p] /\ outbox'[p] = outbox[p]
          /\ items'[p] = items[p] /\ services'[p] = services[p]
      BY <1>1, <2>3, <2>5 DEF CreateServiceOrder, TypeOK
    <3> QED
      BY <3>1, TrailKept
  <2> QED
    BY <2>4, <2>5
<1>2. ASSUME NEW o \in OrderId, NEW i, NEW q, NEW s,
             AddItem(o, i, q) \/ RemoveItem(o, i) \/ AddService(o, s) \/ RemoveService(o, s)
      PROVE  TrailOf(p)' /\ PayloadOf(p)'
  <2>1. status'[p] = status[p] /\ outbox'[p] = outbox[p]
    BY <1>2 DEF AddItem, RemoveItem, AddService, RemoveService
  <2>2. CASE p = o
    <3>1. status[p] = "DIAGNOSIS"
      BY <1>2, <2>2 DEF AddItem, RemoveItem, AddService, RemoveService, Editable
    <3> QED
      BY <2>1, <3>1, TrailEdited
  <2>3. CASE p # o
    <3>1. items'[p] = items[p] /\ services'[p] = services[p]
      BY <1>2, <2>3 DEF AddItem, RemoveItem, AddService, RemoveService, TypeOK
    <3> QED
      BY <2>1, <3>1, TrailKept
  <2> QED
    BY <2>2, <2>3
<1>3. ASSUME NEW o \in OrderId, Deliver(o)
      PROVE  TrailOf(p)' /\ PayloadOf(p)'
  <2>1. /\ outbox'[p] = outbox[p] /\ items'[p] = items[p] /\ services'[p] = services[p]
        /\ \/ status'[p] = status[p]
           \/ status[p] = "FINISHED" /\ status'[p] = "DELIVERED"
    BY <1>3 DEF Deliver, MoveTo, canTransition, VALID_TRANSITIONS, OSStatus, TypeOK
  <2> QED
    BY <2>1, TrailKept DEF Paid
<1>4. ASSUME NEW i, NEW n, NEW c, UpdateStock(i, n) \/ DeleteCustomer(c)
      PROVE  TrailOf(p)' /\ PayloadOf(p)'
  BY <1>4, TrailKept DEF UpdateStock, DeleteCustomer
<1> QED
  BY <1>1, <1>2, <1>3, <1>4 DEF Request

\* So does handling a message: each sends the next command of the trail.
LEMMA HandleTrail ==
    ASSUME TypeOK, Trail, NEW id \in MessageId, NEW o \in OrderId,
           HandleReply(id, o) \/ HandleFailedCommand(id, o), NEW p \in OrderId
    PROVE  TrailOf(p)' /\ PayloadOf(p)'
<1> USE DEF orderVars, lineVars, stockVars
<1>c. /\ Cmd("RequestPayment") \in Command /\ Cmd("RequestPayment").type = "RequestPayment"
      /\ Cmd("CancelExecution") \in Command /\ Cmd("CancelExecution").type = "CancelExecution"
      /\ Cmd("CancelBudget") \in Command /\ Cmd("CancelBudget").type = "CancelBudget"
  BY CmdType DEF Cmd, SagaCommandType
<1>m. ASSUME NEW to, MoveTo(o, to)
      PROVE  /\ status'[o] = to
             /\ \A q \in OrderId \ {o} : status'[q] = status[q]
  BY <1>m DEF MoveTo, TypeOK
<1>k. ASSUME p # o, status'[p] = status[p], outbox'[p] = outbox[p], UNCHANGED lineVars
      PROVE  TrailOf(p)' /\ PayloadOf(p)'
  BY <1>k, TrailKept
\* A move that sends nothing and stays within one trail.
<1>1. ASSUME NEW to, MoveTo(o, to), UNCHANGED <<outbox, lineVars>>,
             \/ status[o] = "RECEIVED" /\ to \in {"DIAGNOSIS", "CANCELLED"}
             \/ status[o] \in Paid /\ to \in Paid
      PROVE  TrailOf(p)' /\ PayloadOf(p)'
  BY <1>1, <1>m, <1>k, TrailKept
\* A move that sends one command.
<1>2. ASSUME NEW to, NEW command \in Command, MoveTo(o, to),
             Send(o, <<command>>), UNCHANGED lineVars,
             \/ status[o] = "DIAGNOSIS" /\ to = "WAITING_APPROVAL" /\ command.type = "GenerateBudget"
             \/ status[o] = "WAITING_APPROVAL" /\ to = "APPROVED" /\ command.type = "RequestPayment"
             \/ /\ status[o] = "WAITING_APPROVAL" /\ to \in {"REJECTED", "CANCELLED"}
                /\ command.type = "CancelExecution"
             \/ status[o] = "APPROVED" /\ to = "PAID" /\ command.type = "EnqueueRepair",
             command.type = "GenerateBudget" =>
                command.items = items[o] /\ command.services = services[o],
             command.type = "EnqueueRepair" => command.services = services[o]
      PROVE  TrailOf(p)' /\ PayloadOf(p)'
  <2>1. CASE p = o
    BY <1>2, <1>m, <2>1, TrailExtended
  <2>2. CASE p # o
    BY <1>2, <1>m, <1>k, <2>2, SendOne
  <2> QED
    BY <2>1, <2>2
\* A move that sends both compensations.
<1>3. ASSUME MoveTo(o, "CANCELLED"), status[o] = "APPROVED", UNCHANGED lineVars,
             Send(o, <<Cmd("CancelExecution"), Cmd("CancelBudget")>>)
      PROVE  TrailOf(p)' /\ PayloadOf(p)'
  <2>1. CASE p = o
    BY <1>3, <1>m, <2>1, TrailCompensated
  <2>2. CASE p # o
    BY <1>c, <1>3, <1>m, <1>k, <2>2, SendTwo
  <2> QED
    BY <2>1, <2>2
\* A message that leaves the order, its lines and its commands alone.
<1>4. ASSUME UNCHANGED <<status, lineVars, outbox>>
      PROVE  TrailOf(p)' /\ PayloadOf(p)'
  BY <1>4, TrailKept
<1>5. CASE DiagnosisStarted(id, o)
  BY <1>1, <1>5 DEF DiagnosisStarted, Accepted, EXPECTED_STATUS
<1>6. CASE DiagnosisCompleted(id, o)
  <2> DEFINE command == [type |-> "GenerateBudget", items |-> items[o], services |-> services[o]]
  <2>1. command \in Command
    BY DEF Command, TypeOK, SagaCommandType
  <2>2. /\ command.type = "GenerateBudget" /\ command.items = items[o]
        /\ command.services = services[o]
    OBVIOUS
  <2>3. Send(o, <<command>>) /\ MoveTo(o, "WAITING_APPROVAL") /\ UNCHANGED lineVars
    BY <1>6 DEF DiagnosisCompleted
  <2>4. status[o] = "DIAGNOSIS"
    BY <1>6 DEF DiagnosisCompleted, Accepted, EXPECTED_STATUS
  <2> HIDE DEF command
  <2> QED
    BY <1>2, <2>1, <2>2, <2>3, <2>4
<1>7. CASE BudgetGenerated(id, o)
  BY <1>4, <1>7 DEF BudgetGenerated
<1>8. CASE BudgetApproved(id, o)
  <2>1. status[o] = "WAITING_APPROVAL"
    BY <1>8 DEF BudgetApproved, Accepted, EXPECTED_STATUS
  <2> QED
    BY <1>c, <1>2, <1>8, <2>1 DEF BudgetApproved
<1>9. CASE BudgetRejected(id, o)
  <2>1. status[o] = "WAITING_APPROVAL"
    BY <1>9 DEF BudgetRejected, Accepted, EXPECTED_STATUS
  <2> QED
    BY <1>c, <1>2, <1>9, <2>1 DEF BudgetRejected
<1>10. CASE PaymentConfirmed(id, o)
  <2> DEFINE command == [type |-> "EnqueueRepair", items |-> NoLines, services |-> services[o]]
  <2>1. command \in Command
    BY DEF Command, TypeOK, SagaCommandType, Lines, NoLines
  <2>2. command.type = "EnqueueRepair" /\ command.services = services[o]
    OBVIOUS
  <2>3. Send(o, <<command>>) /\ MoveTo(o, "PAID") /\ UNCHANGED lineVars
    BY <1>10 DEF PaymentConfirmed
  <2>4. status[o] = "APPROVED"
    BY <1>10 DEF PaymentConfirmed, Accepted, EXPECTED_STATUS
  <2> HIDE DEF command
  <2> QED
    BY <1>2, <2>1, <2>2, <2>3, <2>4
<1>11. CASE PaymentFailed(id, o)
  BY <1>3, <1>11 DEF PaymentFailed, Accepted, EXPECTED_STATUS
<1>12. CASE RepairStarted(id, o)
  BY <1>1, <1>12 DEF RepairStarted, Accepted, EXPECTED_STATUS, Paid
<1>13. CASE RepairCompleted(id, o)
  BY <1>1, <1>13 DEF RepairCompleted, Accepted, EXPECTED_STATUS, Paid
<1>14. ASSUME NEW r, CompensationConfirmed(id, o, r) \/ IgnoredReply(id, o, r)
       PROVE  TrailOf(p)' /\ PayloadOf(p)'
  BY <1>4, <1>14 DEF CompensationConfirmed, IgnoredReply, Ignored
<1>15. ASSUME NEW c, ReportStuck(id, o, c) \/ IgnoredFailure(id, o, c)
       PROVE  TrailOf(p)' /\ PayloadOf(p)'
  BY <1>4, <1>15 DEF ReportStuck, IgnoredFailure, Ignored
<1>16. ASSUME NEW c, StepFailed(id, o, c)
       PROVE  TrailOf(p)' /\ PayloadOf(p)'
  <2>1. MoveTo(o, "CANCELLED") /\ UNCHANGED lineVars /\ Send(o, CancelCommands(c))
    BY <1>16 DEF StepFailed
  <2>2. CASE c = "EnqueueDiagnosis"
    <3>1. status[o] = "RECEIVED"
      BY <1>16, <2>2 DEF StepFailed, Accepted, ExpectedOfFailed
    <3>2. CancelCommands(c) = <<>>
      BY <2>2 DEF CancelCommands
    <3>3. outbox' = outbox
      <4>1. outbox[o] \o <<>> = outbox[o]
        BY DEF TypeOK
      <4> QED
        BY <2>1, <3>2, <4>1 DEF Send, TypeOK
    <3> QED
      BY <1>1, <2>1, <3>1, <3>3
  <2>3. CASE c = "GenerateBudget"
    <3>1. status[o] = "WAITING_APPROVAL"
      BY <1>16, <2>3 DEF StepFailed, Accepted, ExpectedOfFailed
    <3>2. CancelCommands(c) = <<Cmd("CancelExecution")>>
      BY <2>3 DEF CancelCommands
    <3> QED
      BY <1>c, <1>2, <2>1, <3>1, <3>2
  <2>4. CASE c = "RequestPayment"
    <3>1. status[o] = "APPROVED"
      BY <1>16, <2>4 DEF StepFailed, Accepted, ExpectedOfFailed
    <3>2. CancelCommands(c) = <<Cmd("CancelExecution"), Cmd("CancelBudget")>>
      BY <2>4 DEF CancelCommands
    <3> QED
      BY <1>3, <2>1, <3>1, <3>2
  <2> QED
    BY <1>16, <2>2, <2>3, <2>4 DEF StepFailed, Compensable
<1> QED
  BY <1>5, <1>6, <1>7, <1>8, <1>9, <1>10, <1>11, <1>12, <1>13, <1>14, <1>15, <1>16
  DEF HandleReply, HandleFailedCommand

\* The trail is an invariant.
LEMMA TrailCorrect == Spec => []Trail
<1>1. Init => Trail
  <2> SUFFICES ASSUME Init, NEW o \in OrderId PROVE TrailOf(o) /\ PayloadOf(o)
    BY DEF Trail
  <2>1. status[o] = "NONE" /\ outbox[o] = <<>>
    BY DEF Init
  <2>2. Len(outbox[o]) = 0
    BY <2>1
  <2> QED
    BY <2>1, <2>2 DEF TrailOf, PayloadOf, Sent0, Paid
<1>2. TypeOK /\ Trail /\ [Next]_vars => Trail'
  <2> SUFFICES ASSUME TypeOK, Trail, [Next]_vars, NEW p \in OrderId
               PROVE  TrailOf(p)' /\ PayloadOf(p)'
    BY DEF Trail
  <2>1. CASE UNCHANGED vars
    BY <2>1, TrailKept DEF vars
  <2>2. CASE Request
    BY <2>2, RequestTrail
  <2>3. CASE \E id \in MessageId, o \in OrderId : HandleReply(id, o) \/ HandleFailedCommand(id, o)
    BY <2>3, HandleTrail
  <2>4. CASE \E id \in MessageId : Duplicate(id)
    BY <2>1, <2>4 DEF Duplicate
  <2> QED
    BY <2>1, <2>2, <2>3, <2>4 DEF Next
<1> QED
  BY <1>1, <1>2, TypeCorrect, PTL DEF Spec
\* Positions in the outbox of an order.
LEMMA Positions ==
    ASSUME TypeOK, NEW o \in OrderId
    PROVE  DOMAIN outbox[o] = 1 .. Len(outbox[o])
<1>1. outbox[o] \in Seq(Command)
  BY DEF TypeOK
<1> QED
  BY <1>1

\* No trail has the same command twice.
LEMMA TrailOnce == TypeOK /\ Trail => EachCommandAtMostOnce
<1> SUFFICES ASSUME TypeOK, Trail, NEW o \in OrderId,
                    NEW j \in DOMAIN outbox[o], NEW k \in DOMAIN outbox[o],
                    outbox[o][j].type = outbox[o][k].type
             PROVE  j = k
  BY DEF EachCommandAtMostOnce
<1>1. j \in 1 .. Len(outbox[o]) /\ k \in 1 .. Len(outbox[o])
  BY Positions
<1>2. Sent0(o) \/ Sent1(o) \/ Sent2(o) \/ Sent3(o, "RequestPayment")
      \/ Sent3(o, "CancelExecution") \/ Sent4(o) \/ Sent5(o)
  <2>1. status[o] \in OSStatus \cup {"NONE"}
    BY DEF TypeOK
  <2> QED
    BY <2>1 DEF Trail, TrailOf, OSStatus, Paid
<1>3. CASE Sent0(o) \/ Sent1(o)
  BY <1>1, <1>3 DEF Sent0, Sent1
<1>4. CASE Sent2(o)
  <2>1. j \in {1, 2} /\ k \in {1, 2}
    BY <1>1, <1>4 DEF Sent2
  <2> QED
    BY <1>4, <2>1 DEF Sent2
<1>5. CASE Sent3(o, "RequestPayment") \/ Sent3(o, "CancelExecution")
  <2>1. j \in {1, 2, 3} /\ k \in {1, 2, 3}
    BY <1>1, <1>5 DEF Sent3
  <2> QED
    BY <1>5, <2>1 DEF Sent3
<1>6. CASE Sent4(o)
  <2>1. j \in {1, 2, 3, 4} /\ k \in {1, 2, 3, 4}
    BY <1>1, <1>6 DEF Sent4
  <2> QED
    BY <1>6, <2>1 DEF Sent4
<1>7. CASE Sent5(o)
  <2>1. j \in {1, 2, 3, 4, 5} /\ k \in {1, 2, 3, 4, 5}
    BY <1>1, <1>7 DEF Sent5
  <2> QED
    BY <1>7, <2>1 DEF Sent5
<1> QED
  BY <1>2, <1>3, <1>4, <1>5, <1>6, <1>7

\* The types of the commands of each trail.
LEMMA TrailTypes ==
    ASSUME TypeOK, NEW o \in OrderId
    PROVE  /\ Sent0(o) => Sent(o) = {}
           /\ Sent1(o) => Sent(o) = {"EnqueueDiagnosis"}
           /\ Sent2(o) => Sent(o) = {"EnqueueDiagnosis", "GenerateBudget"}
           /\ \A last : Sent3(o, last) => Sent(o) = {"EnqueueDiagnosis", "GenerateBudget", last}
           /\ Sent4(o) => Sent(o) = {"EnqueueDiagnosis", "GenerateBudget", "RequestPayment",
                                     "EnqueueRepair"}
           /\ Sent5(o) => Sent(o) = {"EnqueueDiagnosis", "GenerateBudget", "RequestPayment",
                                     "CancelExecution", "CancelBudget"}
<1>1. DOMAIN outbox[o] = 1 .. Len(outbox[o])
  BY Positions
<1>2. ASSUME Len(outbox[o]) = 0 PROVE DOMAIN outbox[o] = {}
  BY <1>1, <1>2
<1>3. ASSUME Len(outbox[o]) = 1 PROVE DOMAIN outbox[o] = {1}
  BY <1>1, <1>3
<1>4. ASSUME Len(outbox[o]) = 2 PROVE DOMAIN outbox[o] = {1, 2}
  BY <1>1, <1>4
<1>5. ASSUME Len(outbox[o]) = 3 PROVE DOMAIN outbox[o] = {1, 2, 3}
  BY <1>1, <1>5
<1>6. ASSUME Len(outbox[o]) = 4 PROVE DOMAIN outbox[o] = {1, 2, 3, 4}
  BY <1>1, <1>6
<1>7. ASSUME Len(outbox[o]) = 5 PROVE DOMAIN outbox[o] = {1, 2, 3, 4, 5}
  BY <1>1, <1>7
<1>8. Sent0(o) => Sent(o) = {}
  BY <1>2 DEF Sent, Sent0
<1>9. Sent1(o) => Sent(o) = {"EnqueueDiagnosis"}
  BY <1>3 DEF Sent, Sent1
<1>10. Sent2(o) => Sent(o) = {"EnqueueDiagnosis", "GenerateBudget"}
  BY <1>4 DEF Sent, Sent2
<1>11. \A last : Sent3(o, last) => Sent(o) = {"EnqueueDiagnosis", "GenerateBudget", last}
  BY <1>5 DEF Sent, Sent3
<1>12. Sent4(o) => Sent(o) = {"EnqueueDiagnosis", "GenerateBudget", "RequestPayment", "EnqueueRepair"}
  BY <1>6 DEF Sent, Sent4
<1>13. Sent5(o) => Sent(o) = {"EnqueueDiagnosis", "GenerateBudget", "RequestPayment",
                              "CancelExecution", "CancelBudget"}
  BY <1>7 DEF Sent, Sent5
<1> QED
  BY <1>8, <1>9, <1>10, <1>11, <1>12, <1>13

\* Every trail that ends in a cancellation cancels what it asked for.
LEMMA TrailCompensates == TypeOK /\ (\A o \in OrderId : TrailOf(o)) => CompensationIsComplete
<1> SUFFICES ASSUME TypeOK, \A p \in OrderId : TrailOf(p), NEW o \in OrderId
             PROVE  /\ "CancelExecution" \in Sent(o) <=>
                          status[o] \in {"REJECTED", "CANCELLED"} /\ "GenerateBudget" \in Sent(o)
                    /\ "CancelBudget" \in Sent(o) <=>
                          status[o] = "CANCELLED" /\ "RequestPayment" \in Sent(o)
                    /\ "EnqueueRepair" \in Sent(o) <=> status[o] \in Paid
                    /\ \A j, k \in DOMAIN outbox[o] :
                          outbox[o][j].type \in {"CancelExecution", "CancelBudget"} /\ j < k
                             => outbox[o][k].type \in {"CancelExecution", "CancelBudget"}
  BY DEF CompensationIsComplete
<1>1. status[o] \in OSStatus \cup {"NONE"} /\ TrailOf(o)
  BY DEF TypeOK
<1>2. "CancelExecution" \in Sent(o) <=>
         status[o] \in {"REJECTED", "CANCELLED"} /\ "GenerateBudget" \in Sent(o)
  BY <1>1, TrailTypes DEF TrailOf, Paid, OSStatus
<1>3. "CancelBudget" \in Sent(o) <=> status[o] = "CANCELLED" /\ "RequestPayment" \in Sent(o)
  BY <1>1, TrailTypes DEF TrailOf, Paid, OSStatus
<1>4. "EnqueueRepair" \in Sent(o) <=> status[o] \in Paid
  BY <1>1, TrailTypes DEF TrailOf, Paid, OSStatus
<1>5. ASSUME NEW j \in DOMAIN outbox[o], NEW k \in DOMAIN outbox[o], j < k,
             outbox[o][j].type \in {"CancelExecution", "CancelBudget"}
      PROVE  outbox[o][k].type \in {"CancelExecution", "CancelBudget"}
  <2>1. j \in 1 .. Len(outbox[o]) /\ k \in 1 .. Len(outbox[o])
    BY Positions
  <2>2. Sent0(o) \/ Sent1(o) \/ Sent2(o) \/ (\E last : Sent3(o, last)) \/ Sent4(o) \/ Sent5(o)
    BY <1>1 DEF TrailOf, Paid, OSStatus
  <2>3. CASE Sent0(o) \/ Sent1(o)
    BY <1>5, <2>1, <2>3 DEF Sent0, Sent1
  <2>4. CASE Sent2(o)
    <3>1. j = 1
      BY <1>5, <2>1, <2>4 DEF Sent2
    <3> QED
      BY <1>5, <2>4, <3>1 DEF Sent2
  <2>5. CASE \E last : Sent3(o, last)
    <3>1. j = 1 \/ j = 2
      BY <1>5, <2>1, <2>5 DEF Sent3
    <3> QED
      BY <1>5, <2>5, <3>1 DEF Sent3
  <2>6. CASE Sent4(o)
    <3>1. j \in {1, 2, 3}
      BY <1>5, <2>1, <2>6 DEF Sent4
    <3> QED
      BY <1>5, <2>6, <3>1 DEF Sent4
  <2>7. CASE Sent5(o)
    <3>1. j \in {1, 2, 3, 4} /\ k \in {2, 3, 4, 5}
      BY <1>5, <2>1, <2>7 DEF Sent5
    <3>2. j = 4
      BY <1>5, <2>7, <3>1 DEF Sent5
    <3>3. k = 5
      BY <1>5, <3>1, <3>2
    <3> QED
      BY <2>7, <3>3 DEF Sent5
  <2> QED
    BY <2>2, <2>3, <2>4, <2>5, <2>6, <2>7
<1> QED
  BY <1>2, <1>3, <1>4, <1>5

\* The payloads on the trail are the lines and the services of the order.
LEMMA TrailPays == TypeOK /\ Trail => BudgetIsTheOrder
BY Positions DEF Trail, PayloadOf, BudgetIsTheOrder

-----------------------------------------------------------------------------
\* However often and in whatever order messages arrive, no command of an order
\* is ever written twice to the outbox.
THEOREM CommandsAreUnique == Spec => []EachCommandAtMostOnce
BY TypeCorrect, TrailCorrect, TrailOnce, PTL

\* An order that ends without payment has asked for the cancellation of exactly
\* what it had asked for, and an order that was paid never asks for one.
THEOREM CompensationCorrect == Spec => []CompensationIsComplete
<1>1. Trail => \A o \in OrderId : TrailOf(o)
  BY DEF Trail
<1> QED
  BY <1>1, TypeCorrect, TrailCorrect, TrailCompensates, PTL

\* What was priced, what is repaired and what the order says are the same.
THEOREM BudgetCorrect == Spec => []BudgetIsTheOrder
BY TypeCorrect, TrailCorrect, TrailPays, PTL
-----------------------------------------------------------------------------
(* The saga implements the parts ledger.                                   *)

\* items_reserved_within_stock, which the mapped ledger needs: the free parts
\* are a natural number.
ReservedWithinStock == \A i \in ItemId : reserved[i] <= stock[i]

\* Nothing is reserved before the first order.
LEMMA ReservedInitially == Init => ReservedWithinStock
<1>1. Init => \A i \in ItemId : stock[i] \in Nat /\ reserved[i] = 0
  BY SagaAssumption DEF SagaAssumption, Init
<1> QED
  BY <1>1 DEF ReservedWithinStock

\* No step takes the reservation of a part beyond its stock.
LEMMA ReservedStep ==
    ASSUME TypeOK, ReservedWithinStock, [Next]_vars
    PROVE  ReservedWithinStock'
<1> USE DEF stockVars
<1>0. TypeOK'
  BY NextType
<1>1. CASE UNCHANGED vars
  BY <1>1 DEF vars, ReservedWithinStock
<1>2. ASSUME NEW o \in OrderId, NEW lines \in RequestedLines, NEW tasks,
             CreateServiceOrder(o, lines, tasks)
      PROVE  ReservedWithinStock'
  <2>1. lines \in Lines
    BY DEF RequestedLines, Lines
  <2> QED
    BY <1>2, <2>1 DEF CreateServiceOrder, TypeOK, Lines, ReservedWithinStock
<1>3. ASSUME NEW o, NEW i, NEW q, AddItem(o, i, q) \/ RemoveItem(o, i) \/ UpdateStock(i, q)
      PROVE  ReservedWithinStock'
  BY <1>3 DEF AddItem, RemoveItem, UpdateStock, StockCheck, ReservedWithinStock
<1>4. ASSUME NEW o \in OrderId, ReleaseReservations(o) \/ Consume(o)
      PROVE  ReservedWithinStock'
  BY <1>4 DEF ReleaseReservations, Consume, CanRelease, CanConsume, TypeOK, Lines, ReservedWithinStock
<1>5. ASSUME UNCHANGED stockVars PROVE ReservedWithinStock'
  BY <1>5 DEF ReservedWithinStock
<1>6. CASE Request
  BY <1>2, <1>3, <1>5, <1>6 DEF Request, AddService, RemoveService, Deliver, DeleteCustomer
<1>7. ASSUME NEW id \in MessageId, NEW o \in OrderId, HandleReply(id, o)
      PROVE  ReservedWithinStock'
  BY <1>4, <1>5, <1>7 DEF HandleReply, DiagnosisStarted, DiagnosisCompleted, BudgetGenerated,
     BudgetApproved, BudgetRejected, PaymentConfirmed, PaymentFailed, RepairStarted,
     RepairCompleted, CompensationConfirmed, IgnoredReply, Ignored
<1>8. ASSUME NEW id \in MessageId, NEW o \in OrderId, HandleFailedCommand(id, o)
      PROVE  ReservedWithinStock'
  BY <1>4, <1>5, <1>8 DEF HandleFailedCommand, StepFailed, ReportStuck, IgnoredFailure, Ignored
<1> QED
  BY <1>1, <1>6, <1>7, <1>8 DEF Next, Duplicate

\* The free parts of the mapped ledger are natural numbers.
LEMMA FreeType == TypeOK /\ ReservedWithinStock => freeParts \in [ItemId -> Nat]
BY DEF TypeOK, ReservedWithinStock, freeParts

\* A step that changes the status of o alone, and no line, is seen by the ledger
\* as a change of o alone.
LEMMA MoveMapped ==
    ASSUME TypeOK, NEW o \in OrderId, NEW to \in OSStatus, MoveTo(o, to), UNCHANGED lineVars
    PROVE  /\ to \in Holding /\ status[o] \in Holding => UNCHANGED heldParts
           /\ to \notin Holding => heldParts' = [heldParts EXCEPT ![o] = NoLines]
           /\ to \in Paid => takenParts' = [takenParts EXCEPT ![o] = items[o]]
           /\ to \notin Paid /\ status[o] \notin Paid => UNCHANGED takenParts
           /\ phaseOf' = [phaseOf EXCEPT ![o] = Phase(to)]
           /\ status' = [status EXCEPT ![o] = to]
           /\ status[o] \in OSStatus
<1>1. status' = [status EXCEPT ![o] = to] /\ items' = items
  BY DEF MoveTo, lineVars
<1>2. status'[o] = to /\ \A p \in OrderId \ {o} : status'[p] = status[p]
  BY <1>1 DEF TypeOK
<1>3. NoLines' = NoLines
  BY DEF NoLines
<1>4. /\ to \in Holding /\ status[o] \in Holding => UNCHANGED heldParts
      /\ to \notin Holding => heldParts' = [heldParts EXCEPT ![o] = NoLines]
  BY <1>1, <1>2, <1>3 DEF heldParts
<1>5. /\ to \in Paid => takenParts' = [takenParts EXCEPT ![o] = items[o]]
      /\ to \notin Paid /\ status[o] \notin Paid => UNCHANGED takenParts
  BY <1>1, <1>2, <1>3 DEF takenParts
<1>6. phaseOf' = [phaseOf EXCEPT ![o] = Phase(to)]
  BY <1>1 DEF phaseOf, TypeOK
<1>7. status[o] \in OSStatus
  BY DEF MoveTo, canTransition
<1> QED
  BY <1>1, <1>4, <1>5, <1>6, <1>7

\* The first states of the saga are first states of the ledger.
LEMMA LedgerInitially == Init => Ledger!LedgerInit
<1> SUFFICES ASSUME Init PROVE Ledger!LedgerInit
  OBVIOUS
<1>1. \A o \in OrderId : status[o] = "NONE"
  BY DEF Init
<1>2. freeParts \in [ItemId -> Nat]
  <2>1. \A i \in ItemId : stock[i] \in Nat /\ reserved[i] = 0
    BY SagaAssumption DEF SagaAssumption, Init
  <2>2. \A i \in ItemId : stock[i] - reserved[i] \in Nat
    BY <2>1
  <2> QED
    BY <2>2 DEF freeParts
<1>3. phaseOf = [o \in OrderId |-> "none"]
  <2>1. Phase("NONE") = "none"
    BY DEF Phase, Paid
  <2> QED
    BY <1>1, <2>1 DEF phaseOf
<1>4. /\ heldParts = [o \in OrderId |-> NoLines]
      /\ takenParts = [o \in OrderId |-> NoLines]
  BY <1>1 DEF heldParts, takenParts, Holding, Paid
<1> QED
  BY <1>2, <1>3, <1>4 DEF Ledger!LedgerInit, Ledger!Lines, Ledger!NoLines, NoLines

\* An edit of the lines of an open order is an exchange with the free parts.
LEMMA EditMapped ==
    ASSUME TypeOK, TypeOK', ReservedWithinStock', NEW o \in OrderId, status[o] = "DIAGNOSIS",
           UNCHANGED <<status, stock>>, NEW i \in ItemId,
           items' = [items EXCEPT ![o][i] = items'[o][i]],
           reserved' = [reserved EXCEPT ![i] = @ + items'[o][i] - items[o][i]]
    PROVE  Ledger!Adjust(o)
<1>1. items[o] \in [ItemId -> Nat] /\ items'[o] \in [ItemId -> Nat]
  BY DEF TypeOK, Lines
<1>2. /\ heldParts[o] = items[o] /\ heldParts'[o] = items'[o]
      /\ \A p \in OrderId \ {o} : heldParts'[p] = heldParts[p]
  BY DEF heldParts, Holding, TypeOK, NoLines
<1>3. heldParts' = [heldParts EXCEPT ![o] = heldParts'[o]]
  BY <1>2 DEF heldParts
<1>4. ASSUME NEW j \in ItemId
      PROVE  freeParts'[j] + heldParts'[o][j] = freeParts[j] + heldParts[o][j]
  <2>1. /\ freeParts'[j] = stock[j] - reserved'[j] /\ freeParts[j] = stock[j] - reserved[j]
        /\ stock[j] \in Nat /\ reserved[j] \in Nat
    BY DEF freeParts, TypeOK
  <2>2. CASE j = i
    BY <1>1, <1>2, <2>1, <2>2 DEF TypeOK
  <2>3. CASE j # i
    <3>1. reserved'[j] = reserved[j] /\ items'[o][j] = items[o][j]
      BY <2>3 DEF TypeOK, Lines
    <3> QED
      BY <1>2, <2>1, <3>1
  <2> QED
    BY <2>2, <2>3
<1>5. freeParts' \in [ItemId -> Nat]
  <2>1. \A j \in ItemId : stock'[j] \in Nat /\ reserved'[j] \in Nat /\ reserved'[j] <= stock'[j]
    BY DEF TypeOK, ReservedWithinStock
  <2> QED
    BY <2>1 DEF freeParts
<1>6. phaseOf[o] = "open" /\ phaseOf' = phaseOf
  <2>1. Phase("DIAGNOSIS") = "open"
    BY DEF Phase, Paid
  <2> QED
    BY <2>1 DEF phaseOf
<1>7. takenParts' = takenParts
  <2>1. \A p \in OrderId : status[p] \in Paid => items'[p] = items[p]
    BY DEF TypeOK, Paid
  <2> QED
    BY <2>1 DEF takenParts, NoLines
<1> QED
  BY <1>1, <1>2, <1>3, <1>4, <1>5, <1>6, <1>7 DEF Ledger!Adjust, Ledger!Exchange, Ledger!Lines
\* The phase each status is seen as.
LEMMA Phases ==
    /\ Phase("NONE") = "none"
    /\ \A s \in {"RECEIVED", "DIAGNOSIS"} : Phase(s) = "open"
    /\ \A s \in {"WAITING_APPROVAL", "APPROVED"} : Phase(s) = "priced"
    /\ \A s \in Paid : Phase(s) = "taken"
    /\ \A s \in {"REJECTED", "CANCELLED"} : Phase(s) = "returned"
BY DEF Phase, Paid

\* Opening an order takes its parts from the free ones.
LEMMA CreateMapped ==
    ASSUME TypeOK, TypeOK', ReservedWithinStock', NEW o \in OrderId,
           NEW lines \in RequestedLines, NEW tasks, CreateServiceOrder(o, lines, tasks)
    PROVE  Ledger!Open(o)
<1>1. lines \in [ItemId -> Nat]
  BY DEF RequestedLines
<1>2. /\ status[o] = "NONE" /\ status' = [status EXCEPT ![o] = "RECEIVED"]
      /\ items' = [items EXCEPT ![o] = lines] /\ stock' = stock
      /\ reserved' = [i \in ItemId |-> reserved[i] + lines[i]]
  BY DEF CreateServiceOrder
<1>3. phaseOf[o] = "none" /\ phaseOf' = [phaseOf EXCEPT ![o] = "open"]
  BY <1>2, Phases DEF phaseOf, TypeOK
<1>4. /\ heldParts[o] = NoLines /\ heldParts'[o] = lines
      /\ heldParts' = [heldParts EXCEPT ![o] = lines]
  BY <1>2 DEF heldParts, Holding, TypeOK, NoLines
<1>5. takenParts' = takenParts
  BY <1>2 DEF takenParts, Paid, TypeOK, NoLines
<1>6. freeParts' \in [ItemId -> Nat]
  <2>1. \A j \in ItemId : stock'[j] \in Nat /\ reserved'[j] \in Nat /\ reserved'[j] <= stock'[j]
    BY DEF TypeOK, ReservedWithinStock
  <2> QED
    BY <2>1 DEF freeParts
<1>7. ASSUME NEW j \in ItemId
      PROVE  freeParts'[j] + lines[j] = freeParts[j] + heldParts[o][j]
  <2>1. heldParts[o][j] = 0 /\ stock[j] \in Nat /\ reserved[j] \in Nat /\ lines[j] \in Nat
    BY <1>1, <1>4 DEF TypeOK, NoLines
  <2>2. freeParts'[j] = stock[j] - (reserved[j] + lines[j]) /\ freeParts[j] = stock[j] - reserved[j]
    BY <1>2 DEF freeParts
  <2> QED
    BY <2>1, <2>2
<1> QED
  BY <1>1, <1>3, <1>4, <1>5, <1>6, <1>7 DEF Ledger!Open, Ledger!Exchange, Ledger!Lines

\* Releasing the reservation of a closed order returns its parts.
LEMMA ReleaseMapped ==
    ASSUME TypeOK, NEW o \in OrderId, NEW to \in {"REJECTED", "CANCELLED"},
           status[o] \in Holding, ReleaseReservations(o), MoveTo(o, to), UNCHANGED lineVars
    PROVE  Ledger!Return(o)
<1>0. to \in OSStatus /\ to \notin Holding /\ to \notin Paid /\ status[o] \notin Paid
  BY DEF OSStatus, Holding, Paid
<1>1. /\ heldParts' = [heldParts EXCEPT ![o] = NoLines] /\ takenParts' = takenParts
      /\ phaseOf' = [phaseOf EXCEPT ![o] = "returned"]
  BY <1>0, MoveMapped, Phases
<1>2. phaseOf[o] \in {"open", "priced"}
  BY Phases DEF phaseOf, Holding
<1>3. heldParts[o] = items[o]
  BY DEF heldParts
<1>4. ASSUME NEW j \in ItemId
      PROVE  stock'[j] - reserved'[j] = freeParts[j] + heldParts[o][j]
  <2>1. reserved'[j] = reserved[j] - items[o][j] /\ stock' = stock
    BY DEF ReleaseReservations
  <2>2. stock[j] \in Nat /\ reserved[j] \in Nat /\ items[o][j] \in Nat
    BY DEF TypeOK, Lines
  <2> QED
    BY <1>3, <2>1, <2>2 DEF freeParts
<1>5. freeParts' = [j \in ItemId |-> freeParts[j] + heldParts[o][j]]
  BY <1>4 DEF freeParts
<1> QED
  BY <1>1, <1>2, <1>5 DEF Ledger!Return, Ledger!NoLines, NoLines

\* Consuming the reservation of a paid order takes its parts.
LEMMA ConsumeMapped ==
    ASSUME TypeOK, NEW o \in OrderId,
           status[o] = "APPROVED", Consume(o), MoveTo(o, "PAID"), UNCHANGED lineVars
    PROVE  Ledger!Take(o)
<1>0. "PAID" \in OSStatus /\ "PAID" \notin Holding /\ "PAID" \in Paid
  BY DEF OSStatus, Holding, Paid
<1>1. /\ heldParts' = [heldParts EXCEPT ![o] = NoLines]
      /\ takenParts' = [takenParts EXCEPT ![o] = items[o]]
      /\ phaseOf' = [phaseOf EXCEPT ![o] = "taken"]
  BY <1>0, MoveMapped, Phases
<1>2. phaseOf[o] = "priced" /\ heldParts[o] = items[o]
  BY Phases DEF phaseOf, heldParts, Holding
<1>3. ASSUME NEW j \in ItemId
      PROVE  stock'[j] - reserved'[j] = stock[j] - reserved[j]
  <2>1. reserved'[j] = reserved[j] - items[o][j] /\ stock'[j] = stock[j] - items[o][j]
    BY DEF Consume
  <2>2. stock[j] \in Nat /\ reserved[j] \in Nat /\ items[o][j] \in Nat
    BY DEF TypeOK, Lines
  <2> QED
    BY <2>1, <2>2
<1>4. freeParts' = freeParts
  BY <1>3 DEF freeParts
<1> QED
  BY <1>1, <1>2, <1>4 DEF Ledger!Take, Ledger!NoLines, NoLines

\* Moves that keep the reservation are a pricing or invisible.
LEMMA MoveUnseen ==
    ASSUME TypeOK, NEW o \in OrderId, NEW to \in OSStatus, MoveTo(o, to),
           UNCHANGED <<lineVars, stockVars>>,
           \/ status[o] \in {"RECEIVED", "DIAGNOSIS"} /\ to = "DIAGNOSIS"
           \/ status[o] \in {"WAITING_APPROVAL", "APPROVED"} /\ to = "APPROVED"
           \/ status[o] \in Paid /\ to \in Paid
    PROVE  UNCHANGED Ledger!ledger
<1>1. freeParts' = freeParts
  BY DEF freeParts, stockVars
<1>2. phaseOf' = phaseOf
  <2>1. Phase(to) = Phase(status[o])
    BY Phases
  <2>2. phaseOf[o] = Phase(status[o])
    BY DEF phaseOf
  <2>3. phaseOf' = [phaseOf EXCEPT ![o] = Phase(to)]
    BY MoveMapped DEF lineVars
  <2> QED
    BY <2>1, <2>2, <2>3 DEF phaseOf
<1>3. status' = [status EXCEPT ![o] = to] /\ items' = items
  BY DEF MoveTo, lineVars
<1>4. heldParts' = heldParts
  BY <1>3 DEF heldParts, Holding, Paid, TypeOK, NoLines
<1>5. takenParts' = takenParts
  BY <1>3 DEF takenParts, Paid, TypeOK, NoLines
<1> QED
  BY <1>1, <1>2, <1>4, <1>5 DEF Ledger!ledger

\* The end of the diagnosis prices the order and moves no part.
LEMMA PriceMapped ==
    ASSUME TypeOK, NEW o \in OrderId, status[o] = "DIAGNOSIS",
           MoveTo(o, "WAITING_APPROVAL"), UNCHANGED <<lineVars, stockVars>>
    PROVE  Ledger!Price(o)
<1>0. "WAITING_APPROVAL" \in OSStatus \cap Holding /\ "WAITING_APPROVAL" \notin Paid
      /\ status[o] \in Holding /\ status[o] \notin Paid
  BY DEF OSStatus, Holding, Paid
<1>1. /\ heldParts' = heldParts /\ takenParts' = takenParts
      /\ phaseOf' = [phaseOf EXCEPT ![o] = "priced"]
  BY <1>0, MoveMapped, Phases DEF lineVars
<1>2. phaseOf[o] = "open" /\ freeParts' = freeParts
  BY Phases DEF phaseOf, freeParts, stockVars
<1> QED
  BY <1>1, <1>2 DEF Ledger!Price

\* What the ledger does not see at all.
LEMMA Unseen ==
    ASSUME UNCHANGED <<status, items, stockVars>>
    PROVE  UNCHANGED Ledger!ledger
BY DEF stockVars, Ledger!ledger, freeParts, phaseOf, heldParts, takenParts

\* Every request is a step of the ledger, or invisible to it.
LEMMA RequestMapped ==
    ASSUME TypeOK, TypeOK', ReservedWithinStock', Request
    PROVE  Ledger!LedgerNext \/ UNCHANGED Ledger!ledger
<1> USE DEF orderVars, lineVars
<1>1. ASSUME NEW o \in OrderId, NEW lines \in RequestedLines, NEW tasks,
             CreateServiceOrder(o, lines, tasks)
      PROVE  Ledger!LedgerNext
  BY <1>1, CreateMapped DEF Ledger!LedgerNext
<1>2. ASSUME NEW o \in OrderId, NEW i \in ItemId, NEW q \in Quantity, AddItem(o, i, q)
      PROVE  Ledger!LedgerNext
  <2>1. q \in Int /\ items[o][i] \in Nat /\ reserved[i] \in Nat
    BY SagaAssumption DEF SagaAssumption, TypeOK, Lines
  <2>2. items'[o][i] = items[o][i] + q /\ items' = [items EXCEPT ![o][i] = items'[o][i]]
    <3>1. items' = [items EXCEPT ![o][i] = items[o][i] + q]
      BY <1>2 DEF AddItem
    <3>2. items'[o][i] = items[o][i] + q
      BY <3>1 DEF TypeOK, Lines
    <3> QED
      BY <3>1, <3>2
  <2>3. reserved' = [reserved EXCEPT ![i] = @ + items'[o][i] - items[o][i]]
    <3>1. reserved' = [reserved EXCEPT ![i] = @ + q]
      BY <1>2 DEF AddItem
    <3>2. reserved[i] + q = reserved[i] + items'[o][i] - items[o][i]
      BY <2>1, <2>2
    <3> QED
      BY <3>1, <3>2
  <2>4. status[o] = "DIAGNOSIS" /\ UNCHANGED <<status, stock>>
    BY <1>2 DEF AddItem, Editable
  <2>5. Ledger!Adjust(o)
    BY <2>2, <2>3, <2>4, EditMapped
  <2> QED
    BY <2>5 DEF Ledger!LedgerNext
<1>3. ASSUME NEW o \in OrderId, NEW i \in ItemId, RemoveItem(o, i)
      PROVE  Ledger!LedgerNext
  <2>1. items[o][i] \in Nat /\ reserved[i] \in Nat
    BY DEF TypeOK, Lines
  <2>2. items'[o][i] = 0 /\ items' = [items EXCEPT ![o][i] = items'[o][i]]
    <3>1. items' = [items EXCEPT ![o][i] = 0]
      BY <1>3 DEF RemoveItem
    <3>2. items'[o][i] = 0
      BY <3>1 DEF TypeOK, Lines
    <3> QED
      BY <3>1, <3>2
  <2>3. reserved' = [reserved EXCEPT ![i] = @ + items'[o][i] - items[o][i]]
    <3>1. reserved' = [reserved EXCEPT ![i] = @ - items[o][i]]
      BY <1>3 DEF RemoveItem
    <3>2. reserved[i] - items[o][i] = reserved[i] + items'[o][i] - items[o][i]
      BY <2>1, <2>2
    <3> QED
      BY <3>1, <3>2
  <2>4. status[o] = "DIAGNOSIS" /\ UNCHANGED <<status, stock>>
    BY <1>3 DEF RemoveItem, Editable
  <2>5. Ledger!Adjust(o)
    BY <2>2, <2>3, <2>4, EditMapped
  <2> QED
    BY <2>5 DEF Ledger!LedgerNext
<1>4. ASSUME NEW o, NEW s, NEW c, AddService(o, s) \/ RemoveService(o, s) \/ DeleteCustomer(c)
      PROVE  UNCHANGED Ledger!ledger
  BY <1>4, Unseen DEF AddService, RemoveService, DeleteCustomer
<1>5. ASSUME NEW o \in OrderId, Deliver(o)
      PROVE  UNCHANGED Ledger!ledger
  <2>1. MoveTo(o, "DELIVERED") /\ UNCHANGED <<lineVars, stockVars>>
    BY <1>5 DEF Deliver
  <2>2. status[o] \in Paid /\ "DELIVERED" \in Paid /\ "DELIVERED" \in OSStatus
    BY <2>1 DEF MoveTo, canTransition, VALID_TRANSITIONS, OSStatus, Paid
  <2> QED
    BY <2>1, <2>2, MoveUnseen
<1>6. ASSUME NEW i \in ItemId, NEW n \in StockLevel, UpdateStock(i, n)
      PROVE  Ledger!LedgerNext
  <2>1. UNCHANGED <<phaseOf, heldParts, takenParts>>
    BY <1>6 DEF UpdateStock, phaseOf, heldParts, takenParts
  <2>2. \A j \in ItemId \ {i} : stock'[j] = stock[j] /\ reserved'[j] = reserved[j]
    BY <1>6 DEF UpdateStock, TypeOK
  <2>3. \A j \in ItemId \ {i} : freeParts'[j] = freeParts[j]
    BY <2>2 DEF freeParts
  <2>4. freeParts' \in [ItemId -> Nat]
    <3>1. \A j \in ItemId : stock'[j] \in Nat /\ reserved'[j] \in Nat /\ reserved'[j] <= stock'[j]
      BY DEF TypeOK, ReservedWithinStock
    <3> QED
      BY <3>1 DEF freeParts
  <2>5. Ledger!Restock(i)
    BY <2>1, <2>3, <2>4 DEF Ledger!Restock, Ledger!Lines
  <2> QED
    BY <2>5 DEF Ledger!LedgerNext
<1> QED
  BY <1>1, <1>2, <1>3, <1>4, <1>5, <1>6 DEF Request

\* Every message handled is a step of the ledger, or invisible to it.
LEMMA HandleMapped ==
    ASSUME TypeOK, NEW id \in MessageId, NEW o \in OrderId,
           HandleReply(id, o) \/ HandleFailedCommand(id, o)
    PROVE  Ledger!LedgerNext \/ UNCHANGED Ledger!ledger
<1> USE DEF orderVars
<1>s. /\ "DIAGNOSIS" \in OSStatus /\ "WAITING_APPROVAL" \in OSStatus /\ "APPROVED" \in OSStatus
      /\ "EXECUTION" \in OSStatus \cap Paid /\ "FINISHED" \in OSStatus \cap Paid /\ "PAID" \in Paid
      /\ {"RECEIVED", "WAITING_APPROVAL", "APPROVED"} \subseteq Holding
  BY DEF OSStatus, Paid, Holding
<1>1. CASE DiagnosisStarted(id, o)
  <2>1. status[o] = "RECEIVED" /\ MoveTo(o, "DIAGNOSIS") /\ UNCHANGED <<lineVars, stockVars>>
    BY <1>1 DEF DiagnosisStarted, Accepted, EXPECTED_STATUS
  <2> QED
    BY <1>s, <2>1, MoveUnseen
<1>2. CASE DiagnosisCompleted(id, o)
  <2>1. /\ status[o] = "DIAGNOSIS" /\ MoveTo(o, "WAITING_APPROVAL")
        /\ UNCHANGED <<lineVars, stockVars>>
    BY <1>2 DEF DiagnosisCompleted, Accepted, EXPECTED_STATUS
  <2> QED
    BY <2>1, PriceMapped DEF Ledger!LedgerNext
<1>3. CASE BudgetApproved(id, o)
  <2>1. /\ status[o] = "WAITING_APPROVAL" /\ MoveTo(o, "APPROVED")
        /\ UNCHANGED <<lineVars, stockVars>>
    BY <1>3 DEF BudgetApproved, Accepted, EXPECTED_STATUS
  <2> QED
    BY <1>s, <2>1, MoveUnseen
<1>4. CASE BudgetRejected(id, o)
  <2>1. /\ status[o] = "WAITING_APPROVAL" /\ ReleaseReservations(o)
        /\ MoveTo(o, "REJECTED") /\ UNCHANGED lineVars
    BY <1>4 DEF BudgetRejected, Accepted, EXPECTED_STATUS
  <2> QED
    BY <1>s, <2>1, ReleaseMapped DEF Ledger!LedgerNext
<1>5. CASE PaymentConfirmed(id, o)
  <2>1. /\ status[o] = "APPROVED" /\ Consume(o) /\ MoveTo(o, "PAID") /\ UNCHANGED lineVars
    BY <1>5 DEF PaymentConfirmed, Accepted, EXPECTED_STATUS
  <2> QED
    BY <2>1, ConsumeMapped DEF Ledger!LedgerNext
<1>6. CASE PaymentFailed(id, o)
  <2>1. /\ status[o] = "APPROVED" /\ ReleaseReservations(o)
        /\ MoveTo(o, "CANCELLED") /\ UNCHANGED lineVars
    BY <1>6 DEF PaymentFailed, Accepted, EXPECTED_STATUS
  <2> QED
    BY <1>s, <2>1, ReleaseMapped DEF Ledger!LedgerNext
<1>7. CASE RepairStarted(id, o)
  <2>1. status[o] = "PAID" /\ MoveTo(o, "EXECUTION") /\ UNCHANGED <<lineVars, stockVars>>
    BY <1>7 DEF RepairStarted, Accepted, EXPECTED_STATUS
  <2> QED
    BY <1>s, <2>1, MoveUnseen
<1>8. CASE RepairCompleted(id, o)
  <2>1. status[o] = "EXECUTION" /\ MoveTo(o, "FINISHED") /\ UNCHANGED <<lineVars, stockVars>>
    BY <1>8 DEF RepairCompleted, Accepted, EXPECTED_STATUS
  <2> QED
    BY <1>s, <2>1, MoveUnseen
<1>9. CASE BudgetGenerated(id, o)
  BY <1>9, Unseen DEF BudgetGenerated, lineVars
<1>10. ASSUME NEW r, CompensationConfirmed(id, o, r) \/ IgnoredReply(id, o, r)
       PROVE  UNCHANGED Ledger!ledger
  BY <1>10, Unseen DEF CompensationConfirmed, IgnoredReply, Ignored, lineVars
<1>11. ASSUME NEW c, StepFailed(id, o, c)
       PROVE  Ledger!LedgerNext
  <2>1. /\ status[o] \in {"RECEIVED", "WAITING_APPROVAL", "APPROVED"} /\ ReleaseReservations(o)
        /\ MoveTo(o, "CANCELLED") /\ UNCHANGED lineVars
    BY <1>11 DEF StepFailed, Accepted, ExpectedOfFailed, Compensable
  <2> QED
    BY <1>s, <2>1, ReleaseMapped DEF Ledger!LedgerNext
<1>12. ASSUME NEW c, ReportStuck(id, o, c) \/ IgnoredFailure(id, o, c)
       PROVE  UNCHANGED Ledger!ledger
  BY <1>12, Unseen DEF ReportStuck, IgnoredFailure, Ignored, lineVars
<1> QED
  BY <1>1, <1>2, <1>3, <1>4, <1>5, <1>6, <1>7, <1>8, <1>9, <1>10, <1>11, <1>12
  DEF HandleReply, HandleFailedCommand

\* Every behaviour of the saga is, seen through the status of the orders, one
\* of the parts ledger: no part is lost or held twice, and each order's parts
\* are taken or returned once, all together.
THEOREM LedgerImplemented == Spec => ImplementsLedger
<1>1. Init => Ledger!LedgerInit
  BY LedgerInitially
<1>2. Init => ReservedWithinStock
  BY ReservedInitially
<1>3. TypeOK /\ ReservedWithinStock /\ [Next]_vars => ReservedWithinStock'
  BY ReservedStep
<1>4. TypeOK /\ TypeOK' /\ ReservedWithinStock' /\ [Next]_vars
         => [Ledger!LedgerNext]_(Ledger!ledger)
  <2> SUFFICES ASSUME TypeOK, TypeOK', ReservedWithinStock', [Next]_vars
               PROVE  Ledger!LedgerNext \/ UNCHANGED Ledger!ledger
    OBVIOUS
  <2>1. CASE UNCHANGED vars
    BY <2>1, Unseen DEF vars, stockVars
  <2>2. CASE Request
    BY <2>2, RequestMapped
  <2>3. CASE \E id \in MessageId, o \in OrderId : HandleReply(id, o) \/ HandleFailedCommand(id, o)
    BY <2>3, HandleMapped
  <2>4. CASE \E id \in MessageId : Duplicate(id)
    BY <2>1, <2>4 DEF Duplicate
  <2> QED
    BY <2>1, <2>2, <2>3, <2>4 DEF Next
<1> QED
  BY <1>1, <1>2, <1>3, <1>4, TypeCorrect, PTL DEF Spec, ImplementsLedger, Ledger!LedgerSpec
-----------------------------------------------------------------------------
(* ClosedOrdersAreFinal.                                                   *)

\* A step leaves an order alone, or finds it where it may still move.
Untouched(p) ==
    /\ status'[p] = status[p] /\ history'[p] = history[p]
    /\ items'[p] = items[p] /\ services'[p] = services[p]
    /\ outbox'[p] = outbox[p]

LEMMA ClosedDoNotMove ==
    ASSUME NEW o \in OrderId, NEW to, canTransition(status[o], to)
    PROVE  status[o] \notin Closed
  BY DEF canTransition, VALID_TRANSITIONS, Closed, OSStatus

LEMMA OnlyTheOrderMoves ==
    ASSUME TypeOK, NEW o \in OrderId, NEW p \in OrderId, p # o,
           UNCHANGED orderVars \/ \E to \in OSStatus : MoveTo(o, to),
           UNCHANGED lineVars,
           UNCHANGED outbox \/ \E commands : Send(o, commands)
    PROVE  Untouched(p)
  BY DEF TypeOK, orderVars, lineVars, MoveTo, Send, Untouched

LEMMA ClosedRequest ==
    ASSUME TypeOK, Request, NEW p \in OrderId, status[p] \in Closed
    PROVE  Untouched(p)
<1>1. status[p] # "NONE" /\ ~ Editable(p)
  BY DEF Closed, Editable
<1>2. ASSUME NEW o \in OrderId, NEW lines \in RequestedLines, NEW tasks \in SUBSET ServiceId,
             CreateServiceOrder(o, lines, tasks)
      PROVE  Untouched(p)
  <2>1. p # o
    BY <1>1, <1>2 DEF CreateServiceOrder
  <2> QED
    BY <1>2, <2>1 DEF TypeOK, CreateServiceOrder, Send, Untouched
<1>3. ASSUME NEW o \in OrderId, NEW i \in ItemId,
             RemoveItem(o, i) \/ \E q \in Quantity : AddItem(o, i, q)
      PROVE  Untouched(p)
  <2>1. p # o
    BY <1>1, <1>3 DEF AddItem, RemoveItem
  <2> QED
    BY <1>3, <2>1 DEF TypeOK, AddItem, RemoveItem, Untouched, orderVars
<1>4. ASSUME NEW o \in OrderId, NEW s \in ServiceId, AddService(o, s) \/ RemoveService(o, s)
      PROVE  Untouched(p)
  <2>1. p # o
    BY <1>1, <1>4 DEF AddService, RemoveService
  <2> QED
    BY <1>4, <2>1 DEF TypeOK, AddService, RemoveService, Untouched, orderVars
<1>5. ASSUME NEW o \in OrderId, Deliver(o)
      PROVE  Untouched(p)
  <2>1. p # o
    BY <1>5, ClosedDoNotMove DEF Deliver, MoveTo
  <2> QED
    BY <1>5, <2>1 DEF TypeOK, Deliver, MoveTo, Untouched, lineVars
<1>6. ASSUME NEW i \in ItemId, NEW n \in StockLevel, UpdateStock(i, n)
      PROVE  Untouched(p)
  BY <1>6 DEF UpdateStock, Untouched, orderVars, lineVars
<1>7. ASSUME NEW c \in CustomerId, DeleteCustomer(c)
      PROVE  Untouched(p)
  BY <1>7 DEF DeleteCustomer, Untouched, orderVars, lineVars
<1> QED
  BY <1>2, <1>3, <1>4, <1>5, <1>6, <1>7 DEF Request

LEMMA ClosedMessage ==
    ASSUME TypeOK, NEW id \in MessageId, NEW o \in OrderId, NEW p \in OrderId, status[p] \in Closed,
           HandleReply(id, o) \/ HandleFailedCommand(id, o)
    PROVE  Untouched(p)
<1> USE DEF Send
<1>s. /\ "DIAGNOSIS" \in OSStatus /\ "WAITING_APPROVAL" \in OSStatus /\ "APPROVED" \in OSStatus
      /\ "REJECTED" \in OSStatus /\ "PAID" \in OSStatus /\ "CANCELLED" \in OSStatus
      /\ "EXECUTION" \in OSStatus /\ "FINISHED" \in OSStatus
  BY DEF OSStatus
<1>1. CASE UNCHANGED <<orderVars, lineVars, outbox>>
  BY <1>1 DEF Untouched, orderVars, lineVars
<1>2. ASSUME NEW to \in OSStatus, MoveTo(o, to), UNCHANGED lineVars,
             UNCHANGED outbox \/ \E commands : outbox' = [outbox EXCEPT ![o] = @ \o commands]
      PROVE  Untouched(p)
  <2>1. p # o
    BY <1>2, ClosedDoNotMove DEF MoveTo
  <2> QED
    BY <1>2, <2>1, OnlyTheOrderMoves
<1>3. CASE HandleReply(id, o)
  BY <1>1, <1>2, <1>3, <1>s DEF HandleReply, DiagnosisStarted, DiagnosisCompleted, BudgetGenerated,
     BudgetApproved, BudgetRejected, PaymentConfirmed, PaymentFailed, RepairStarted, RepairCompleted,
     CompensationConfirmed, IgnoredReply, Ignored
<1>4. CASE HandleFailedCommand(id, o)
  BY <1>1, <1>2, <1>4, <1>s DEF HandleFailedCommand, StepFailed, ReportStuck, IgnoredFailure, Ignored
<1> QED
  BY <1>3, <1>4

\* A delivered, rejected or cancelled order stays as it is, for any orders, parts
\* and services and whatever is requested, answered or dies afterwards.
THEOREM ClosedAreFinal == Spec => ClosedOrdersAreFinal
<1> DEFINE Final == \A o \in OrderId : status[o] \in Closed => Untouched(o)
<1>1. TypeOK /\ [Next]_vars => [Final]_vars
  <2> SUFFICES ASSUME TypeOK, [Next]_vars, NEW p \in OrderId, status[p] \in Closed PROVE Untouched(p)
    OBVIOUS
  <2>1. CASE UNCHANGED vars
    BY <2>1 DEF vars, orderVars, lineVars, Untouched
  <2>2. CASE Next
    <3>1. CASE Request
      BY <3>1, ClosedRequest
    <3>2. CASE \E id \in MessageId : Duplicate(id)
      BY <3>2 DEF Duplicate, vars, orderVars, lineVars, Untouched
    <3> QED
      BY <2>2, <3>1, <3>2, ClosedMessage DEF Next
  <2> QED
    BY <2>1, <2>2
<1>2. [Final]_vars <=> [\A o \in OrderId : status[o] \in Closed =>
          /\ status'[o] = status[o] /\ history'[o] = history[o]
          /\ items'[o] = items[o] /\ services'[o] = services[o]
          /\ outbox'[o] = outbox[o]]_vars
  BY DEF Untouched
<1> QED
  BY <1>1, <1>2, TypeCorrect, PTL DEF Spec, ClosedOrdersAreFinal
-----------------------------------------------------------------------------
(* OneMessagePerDestination.                                               *)

\* What a step adds to what an order has sent goes to queues of their own.
Spread(o) ==
    \A j, k \in DOMAIN outbox'[o] :
        Len(outbox[o]) < j /\ j < k => Destination(outbox'[o][j].type) # Destination(outbox'[o][k].type)

LEMMA OneIsSpread ==
    ASSUME TypeOK, NEW o \in OrderId, NEW p \in OrderId, NEW command \in Command, Send(o, <<command>>)
    PROVE  Spread(p)
<1>1. CASE p = o
  BY <1>1, SendOne DEF Spread, TypeOK
<1>2. CASE p # o
  BY <1>2, SendOne DEF Spread, TypeOK
<1> QED
  BY <1>1, <1>2

LEMMA CancelsAreSpread ==
    ASSUME TypeOK, NEW o \in OrderId, NEW p \in OrderId,
           Send(o, <<Cmd("CancelExecution"), Cmd("CancelBudget")>>)
    PROVE  Spread(p)
<1>1. /\ Cmd("CancelExecution") \in Command /\ Cmd("CancelBudget") \in Command
      /\ Destination(Cmd("CancelExecution").type) # Destination(Cmd("CancelBudget").type)
  BY CmdType DEF Cmd, Destination, SagaCommandType
<1>2. CASE p = o
  BY <1>1, <1>2, SendTwo DEF Spread, TypeOK
<1>3. CASE p # o
  BY <1>1, <1>3, SendTwo DEF Spread, TypeOK
<1> QED
  BY <1>2, <1>3

LEMMA SilentIsSpread ==
    ASSUME TypeOK, NEW p \in OrderId, outbox'[p] = outbox[p]
    PROVE  Spread(p)
  BY DEF Spread, TypeOK

LEMMA NothingIsSpread ==
    ASSUME TypeOK, NEW o \in OrderId, NEW p \in OrderId, Send(o, <<>>)
    PROVE  Spread(p)
  BY SilentIsSpread DEF Send, TypeOK

LEMMA RequestIsSpread ==
    ASSUME TypeOK, Request, NEW p \in OrderId
    PROVE  Spread(p)
<1>1. Cmd("EnqueueDiagnosis") \in Command
  BY CmdType DEF SagaCommandType
<1>2. CASE \E o \in OrderId : Send(o, <<Cmd("EnqueueDiagnosis")>>)
  BY <1>1, <1>2, OneIsSpread
<1>3. CASE UNCHANGED outbox
  BY <1>3, SilentIsSpread
<1> QED
  BY <1>2, <1>3 DEF Request, CreateServiceOrder, AddItem, RemoveItem, AddService, RemoveService,
     Deliver, UpdateStock, DeleteCustomer

LEMMA ReplyIsSpread ==
    ASSUME TypeOK, NEW id \in MessageId, NEW o \in OrderId, NEW p \in OrderId, HandleReply(id, o)
    PROVE  Spread(p)
<1> DEFINE budget == [type |-> "GenerateBudget", items |-> items[o], services |-> services[o]]
           repair == [type |-> "EnqueueRepair", items |-> NoLines, services |-> services[o]]
<1>1. /\ Cmd("RequestPayment") \in Command /\ Cmd("CancelExecution") \in Command
      /\ budget \in Command /\ repair \in Command
  <2>1. items[o] \in Lines /\ NoLines \in Lines /\ services[o] \in SUBSET ServiceId
    BY DEF TypeOK, Lines, NoLines
  <2> QED
    BY <2>1, CmdType DEF Command, SagaCommandType
<1>2. CASE UNCHANGED outbox
  BY <1>2, SilentIsSpread
<1>3. CASE \E command \in Command : Send(o, <<command>>)
  BY <1>3, OneIsSpread
<1>4. CASE Send(o, <<Cmd("CancelExecution"), Cmd("CancelBudget")>>)
  BY <1>4, CancelsAreSpread
<1> QED
  BY <1>1, <1>2, <1>3, <1>4 DEF HandleReply, DiagnosisStarted, DiagnosisCompleted, BudgetGenerated,
     BudgetApproved, BudgetRejected, PaymentConfirmed, PaymentFailed, RepairStarted, RepairCompleted,
     CompensationConfirmed, IgnoredReply, Ignored

LEMMA FailureIsSpread ==
    ASSUME TypeOK, NEW id \in MessageId, NEW o \in OrderId, NEW p \in OrderId, HandleFailedCommand(id, o)
    PROVE  Spread(p)
<1>1. CASE UNCHANGED outbox
  BY <1>1, SilentIsSpread
<1>2. ASSUME NEW c \in Compensable, Send(o, CancelCommands(c))
      PROVE  Spread(p)
  <2>1. Cmd("CancelExecution") \in Command
    BY CmdType DEF SagaCommandType
  <2>2. CASE c = "EnqueueDiagnosis"
    BY <1>2, <2>2, NothingIsSpread DEF CancelCommands
  <2>3. CASE c = "GenerateBudget"
    BY <1>2, <2>1, <2>3, OneIsSpread DEF CancelCommands
  <2>4. CASE c = "RequestPayment"
    BY <1>2, <2>4, CancelsAreSpread DEF CancelCommands
  <2> QED
    BY <2>2, <2>3, <2>4 DEF Compensable
<1> QED
  BY <1>1, <1>2 DEF HandleFailedCommand, StepFailed, ReportStuck, IgnoredFailure, Ignored

\* findPending may order two messages of one transaction either way: the saga
\* never writes two of them for the same order and queue.
THEOREM DestinationsDiffer == Spec => OneMessagePerDestination
<1> DEFINE Spreads == \A o \in OrderId : Spread(o)
<1>1. TypeOK /\ [Next]_vars => [Spreads]_vars
  <2> SUFFICES ASSUME TypeOK, [Next]_vars, NEW p \in OrderId PROVE Spread(p)
    OBVIOUS
  <2>1. CASE UNCHANGED vars
    BY <2>1, SilentIsSpread DEF vars
  <2>2. CASE \E id \in MessageId : Duplicate(id)
    BY <2>2, SilentIsSpread DEF Duplicate, vars
  <2> QED
    BY <2>1, <2>2, RequestIsSpread, ReplyIsSpread, FailureIsSpread DEF Next
<1>2. [Spreads]_vars => [\A o \in OrderId : \A j, k \in DOMAIN outbox'[o] :
          /\ Len(outbox[o]) < j
          /\ j < k
          => Destination(outbox'[o][j].type) # Destination(outbox'[o][k].type)]_vars
  BY DEF Spread
<1> QED
  BY <1>1, <1>2, TypeCorrect, PTL DEF Spec, OneMessagePerDestination
-----------------------------------------------------------------------------
(* Sums over a finite set of orders. MapThenSumSet is a recursive function *)
(* on the subsets of the set; what is proved of it here goes by smallest   *)
(* counterexample, since strict inclusion is well founded on finite sets.  *)

\* The quantity of part i in the lines of the orders of S.
Total(lines, i, S) == MapThenSumSet(LAMBDA o : lines[o][i], S)

Some(s) == CHOOSE x \in s : TRUE

\* g is the recursive function of MapThenSumSet on the subsets of S
IsSum(g, lines, i, S) ==
    g = [s \in SUBSET S |-> IF s = {} THEN 0 ELSE lines[Some(s)][i] + g[s \ {Some(s)}]]

\* A family of subsets of a finite set has a smallest member.
LEMMA Smallest ==
    ASSUME NEW S, IsFiniteSet(S), NEW F \in SUBSET SUBSET S, F # {}
    PROVE  \E T \in F : \A U \in F : U \subseteq T => U = T
<1>1. IsWellFoundedOn(StrictSubsetOrdering(S), FiniteSubsetsOf(S))
  BY FS_StrictSubsetOrderingWellFounded
<1>2. F \subseteq FiniteSubsetsOf(S)
  BY FS_FiniteSubsetsOfFinite
<1>3. PICK T \in F : \A U \in F : ~ (<<U, T>> \in StrictSubsetOrdering(S))
  BY <1>1, <1>2, WFMin
<1> QED
  BY <1>3 DEF StrictSubsetOrdering

\* The definitions of the community modules, unfolded.
LEMMA TotalIsChosen ==
    ASSUME NEW lines, NEW i, NEW S
    PROVE  Total(lines, i, S) = (CHOOSE g : IsSum(g, lines, i, S))[S]
  BY DEF Total, MapThenSumSet, MapThenFoldSet, IsSum, Some

\* A member chosen from a set that has one.
LEMMA SomeIsIn == \A s : s # {} => Some(s) \in s
  BY DEF Some

\* Two sums agree on the sets whose orders have the same quantity in both.
LEMMA SumsAgree ==
    ASSUME NEW lines, NEW more, NEW i, NEW S, IsFiniteSet(S), NEW T, IsFiniteSet(T),
           NEW g, IsSum(g, lines, i, S), NEW h, IsSum(h, more, i, T)
    PROVE  \A U \in SUBSET (S \cap T) :
              (\A o \in U : lines[o][i] = more[o][i]) => g[U] = h[U]
<1> SUFFICES ASSUME NEW U \in SUBSET (S \cap T), \A o \in U : lines[o][i] = more[o][i]
             PROVE  g[U] = h[U]
  OBVIOUS
<1> DEFINE F == {V \in SUBSET U : g[V] # h[V]}
<1> SUFFICES ASSUME F # {} PROVE FALSE
  OBVIOUS
<1>1. IsFiniteSet(U)
  BY FS_Subset
<1>2. PICK V \in F : \A W \in F : W \subseteq V => W = V
  <2> HIDE DEF F
  <2>1. F \in SUBSET SUBSET U
    BY DEF F
  <2> QED
    BY <1>1, <2>1, Smallest
<1>3. V \in SUBSET S /\ V \in SUBSET T
  OBVIOUS
<1>4. V # {}
  BY <1>3 DEF IsSum
<1> DEFINE W == V \ {Some(V)}
<1>5. Some(V) \in V
  BY <1>4, SomeIsIn
<1>6. g[W] = h[W]
  BY <1>2, <1>5
<1>7. g[V] = lines[Some(V)][i] + g[W]
  BY <1>3, <1>4 DEF IsSum
<1>8. h[V] = more[Some(V)][i] + h[W]
  BY <1>3, <1>4 DEF IsSum
<1> QED
  BY <1>5, <1>6, <1>7, <1>8

\* Two sums of the same lines agree wherever both are defined.
LEMMA SumsMeet ==
    ASSUME NEW lines, NEW i, NEW S, IsFiniteSet(S), NEW T, IsFiniteSet(T),
           NEW g, IsSum(g, lines, i, S), NEW h, IsSum(h, lines, i, T)
    PROVE  \A U \in SUBSET (S \cap T) : g[U] = h[U]
<1> DEFINE more == lines
<1>1. IsSum(h, more, i, T) /\ \A o : lines[o][i] = more[o][i]
  OBVIOUS
<1> HIDE DEF more
<1>2. \A U \in SUBSET (S \cap T) :
         (\A o \in U : lines[o][i] = more[o][i]) => g[U] = h[U]
  BY <1>1, SumsAgree
<1> QED
  BY <1>1, <1>2

\* The recursive equation has a solution on the subsets of a finite set.
LEMMA SumExists ==
    ASSUME NEW lines, NEW i, NEW S, IsFiniteSet(S)
    PROVE  \E g : IsSum(g, lines, i, S)
<1> DEFINE F == {T \in SUBSET S : ~ \E g : IsSum(g, lines, i, T)}
<1> SUFFICES F = {}
  OBVIOUS
<1> SUFFICES ASSUME F # {} PROVE FALSE
  OBVIOUS
<1>1. PICK T \in F : \A U \in F : U \subseteq T => U = T
  <2> HIDE DEF F
  <2>1. F \in SUBSET SUBSET S
    BY DEF F
  <2> QED
    BY <2>1, Smallest
<1> DEFINE H(U) == CHOOSE g : IsSum(g, lines, i, U)
           g == [s \in SUBSET T |-> IF s = {} THEN 0
                    ELSE lines[Some(s)][i] + H(s \ {Some(s)})[s \ {Some(s)}]]
<1>2. \A U \in SUBSET T : U # T => IsSum(H(U), lines, i, U)
  <2> TAKE U \in SUBSET T
  <2> HAVE U # T
  <2>1. U \notin F /\ U \in SUBSET S
    BY <1>1
  <2>2. \E k : IsSum(k, lines, i, U)
    BY <2>1
  <2> QED
    BY <2>2
<1>3. \A U \in SUBSET T : IsFiniteSet(U)
  BY FS_Subset
<1>4. ASSUME NEW s \in SUBSET T, s # {}
      PROVE  H(s \ {Some(s)})[s \ {Some(s)}] = g[s \ {Some(s)}]
  <2> DEFINE u == s \ {Some(s)}
             v == u \ {Some(u)}
  <2>1. u \in SUBSET T /\ u # T
    BY <1>4, SomeIsIn
  <2>2. IsSum(H(u), lines, i, u)
    BY <1>2, <2>1
  <2>3. CASE u = {}
    <3>1. H(u)[u] = 0
      BY <2>2, <2>3 DEF IsSum
    <3>2. g[u] = 0
      BY <2>1, <2>3
    <3> QED
      BY <3>1, <3>2
  <2>4. CASE u # {}
    <3>1. v \in SUBSET T /\ v # T /\ v \in SUBSET u
      BY <2>1
    <3>2. IsSum(H(v), lines, i, v)
      BY <1>2, <3>1
    <3>3. H(u)[v] = H(v)[v]
      <4>1. IsFiniteSet(u) /\ IsFiniteSet(v) /\ v \in SUBSET (u \cap v)
        BY <1>3, <2>1, <3>1
      <4> HIDE DEF H, u, v
      <4>2. \A U \in SUBSET (u \cap v) : H(u)[U] = H(v)[U]
        BY <2>2, <3>2, <4>1, SumsMeet
      <4> QED
        BY <4>1, <4>2
    <3>4. H(u)[u] = lines[Some(u)][i] + H(u)[v]
      BY <2>2, <2>4 DEF IsSum
    <3>5. g[u] = lines[Some(u)][i] + H(v)[v]
      BY <2>1, <2>4
    <3> QED
      BY <3>3, <3>4, <3>5
  <2> QED
    BY <2>3, <2>4
<1>5. IsSum(g, lines, i, T)
  <2> HIDE DEF H
  <2>1. \A s \in SUBSET T : g[s] = IF s = {} THEN 0 ELSE lines[Some(s)][i] + g[s \ {Some(s)}]
    BY <1>4
  <2> QED
    BY <2>1 DEF IsSum
<1> QED
  BY <1>1, <1>5

\* One function gives the sum over every subset.
LEMMA TotalIsSum ==
    ASSUME NEW lines, NEW i, NEW S, IsFiniteSet(S)
    PROVE  \E g : IsSum(g, lines, i, S) /\ \A T \in SUBSET S : Total(lines, i, T) = g[T]
<1> DEFINE H(U) == CHOOSE g : IsSum(g, lines, i, U)
<1>1. \A T \in SUBSET S : IsSum(H(T), lines, i, T) /\ IsFiniteSet(T)
  BY SumExists, FS_Subset
<1>2. \A T \in SUBSET S : Total(lines, i, T) = H(T)[T]
  BY TotalIsChosen
<1>3. IsSum(H(S), lines, i, S)
  BY <1>1
<1>4. \A T \in SUBSET S : H(S)[T] = H(T)[T]
  <2> HIDE DEF H
  <2> TAKE T \in SUBSET S
  <2>1. IsSum(H(T), lines, i, T) /\ IsFiniteSet(T)
    BY <1>1
  <2> DEFINE g == H(S)
             h == H(T)
  <2>2. IsSum(g, lines, i, S) /\ IsSum(h, lines, i, T)
    BY <1>3, <2>1
  <2> HIDE DEF g, h
  <2>3. \A U \in SUBSET (S \cap T) : g[U] = h[U]
    BY <2>1, <2>2, SumsMeet
  <2>4. T \in SUBSET (S \cap T)
    OBVIOUS
  <2> QED
    BY <2>3, <2>4 DEF g, h
<1> QED
  BY <1>2, <1>3, <1>4

\* An empty sum is zero.
LEMMA TotalEmpty ==
    ASSUME NEW lines, NEW i
    PROVE  Total(lines, i, {}) = 0
<1>1. IsFiniteSet({})
  BY FS_EmptySet
<1>2. PICK g : IsSum(g, lines, i, {}) /\ \A T \in SUBSET {} : Total(lines, i, T) = g[T]
  BY <1>1, TotalIsSum
<1>3. {} \in SUBSET {}
  OBVIOUS
<1> QED
  BY <1>2, <1>3 DEF IsSum

\* A sum of quantities is a quantity.
LEMMA TotalType ==
    ASSUME NEW lines, NEW i, NEW S, IsFiniteSet(S), \A o \in S : lines[o][i] \in Nat
    PROVE  Total(lines, i, S) \in Nat
<1>1. PICK g : IsSum(g, lines, i, S) /\ \A T \in SUBSET S : Total(lines, i, T) = g[T]
  BY TotalIsSum
<1> DEFINE F == {T \in SUBSET S : g[T] \notin Nat}
<1>2. ASSUME F # {} PROVE FALSE
  <2>1. PICK T \in F : \A U \in F : U \subseteq T => U = T
    <3>1. F \in SUBSET SUBSET S
      BY DEF F
    <3> HIDE DEF F
    <3> QED
      BY <1>2, <3>1, Smallest
  <2>2. T \in SUBSET S
    OBVIOUS
  <2>3. T # {}
    BY <1>1, <2>2 DEF IsSum
  <2>4. Some(T) \in T
    BY <2>3, SomeIsIn
  <2>5. g[T \ {Some(T)}] \in Nat
    BY <2>1, <2>4
  <2>6. g[T] = lines[Some(T)][i] + g[T \ {Some(T)}]
    BY <1>1, <2>2, <2>3 DEF IsSum
  <2>7. lines[Some(T)][i] \in Nat
    BY <2>2, <2>4
  <2> QED
    BY <2>5, <2>6, <2>7
<1> QED
  BY <1>1, <1>2

\* Sums over the same orders with the same lines are equal.
LEMMA TotalSame ==
    ASSUME NEW lines, NEW more, NEW i, NEW S, IsFiniteSet(S),
           \A o \in S : lines[o][i] = more[o][i]
    PROVE  Total(lines, i, S) = Total(more, i, S)
<1>1. PICK g : IsSum(g, lines, i, S) /\ \A T \in SUBSET S : Total(lines, i, T) = g[T]
  BY TotalIsSum
<1>2. PICK h : IsSum(h, more, i, S) /\ \A T \in SUBSET S : Total(more, i, T) = h[T]
  BY TotalIsSum
<1>3. \A U \in SUBSET (S \cap S) : (\A o \in U : lines[o][i] = more[o][i]) => g[U] = h[U]
  BY <1>1, <1>2, SumsAgree
<1>4. g[S] = h[S]
  BY <1>3
<1> QED
  BY <1>1, <1>2, <1>4

\* Any order of the set may be counted first.
LEMMA TotalSplit ==
    ASSUME NEW lines, NEW i, NEW S, IsFiniteSet(S), \A o \in S : lines[o][i] \in Nat,
           NEW x \in S
    PROVE  Total(lines, i, S) = lines[x][i] + Total(lines, i, S \ {x})
<1>1. PICK g : IsSum(g, lines, i, S) /\ \A T \in SUBSET S : Total(lines, i, T) = g[T]
  BY TotalIsSum
<1>2. \A T \in SUBSET S : g[T] \in Nat
  <2> TAKE T \in SUBSET S
  <2>1. IsFiniteSet(T) /\ \A o \in T : lines[o][i] \in Nat
    BY FS_Subset
  <2> QED
    BY <1>1, <2>1, TotalType
<1> DEFINE F == {T \in SUBSET S : \E z \in T : g[T] # lines[z][i] + g[T \ {z}]}
<1>3. ASSUME F # {} PROVE FALSE
  <2>1. PICK T \in F : \A U \in F : U \subseteq T => U = T
    <3>1. F \in SUBSET SUBSET S
      BY DEF F
    <3> HIDE DEF F
    <3> QED
      BY <1>3, <3>1, Smallest
  <2>2. PICK z \in T : g[T] # lines[z][i] + g[T \ {z}]
    BY <2>1
  <2> DEFINE y == Some(T)
  <2>3. T \in SUBSET S /\ y \in T
    BY SomeIsIn
  <2>4. g[T] = lines[y][i] + g[T \ {y}]
    BY <1>1, <2>3 DEF IsSum
  <2> HIDE DEF y
  <2>5. y # z
    BY <2>2, <2>4
  <2>6. ASSUME NEW a \in T, NEW b \in T, a # b
        PROVE  g[T \ {a}] = lines[b][i] + g[(T \ {a}) \ {b}]
    <3>1. T \ {a} \in SUBSET S /\ T \ {a} \subseteq T /\ T \ {a} # T /\ b \in T \ {a}
      BY <2>3, <2>6
    <3>2. T \ {a} \notin F
      BY <2>1, <3>1
    <3> QED
      BY <3>1, <3>2
  <2>7. (T \ {y}) \ {z} = (T \ {z}) \ {y} /\ (T \ {y}) \ {z} \in SUBSET S
    BY <2>3
  <2>8. g[(T \ {y}) \ {z}] \in Nat /\ lines[y][i] \in Nat /\ lines[z][i] \in Nat
    BY <1>2, <2>3, <2>7
  <2>9. g[T \ {y}] = lines[z][i] + g[(T \ {y}) \ {z}]
    BY <2>3, <2>5, <2>6
  <2>10. g[T \ {z}] = lines[y][i] + g[(T \ {y}) \ {z}]
    BY <2>3, <2>5, <2>6, <2>7
  <2> HIDE DEF F
  <2> QED
    BY <2>2, <2>4, <2>8, <2>9, <2>10
<1>4. S \in SUBSET S /\ S \ {x} \in SUBSET S
  OBVIOUS
<1>5. g[S] = lines[x][i] + g[S \ {x}]
  BY <1>3, <1>4
<1> QED
  BY <1>1, <1>4, <1>5

-----------------------------------------------------------------------------
(* ReservationsBackOpenOrders and NoMessageIsPoison.                       *)

\* The orders whose lines are reserved.
HoldingOrders == {o \in OrderId : status[o] \in Holding}

\* The reservation as a sum, over orders that are finitely many at any time
\* although OrderId need not be finite.
Backed ==
    /\ IsFiniteSet(HoldingOrders)
    /\ \A i \in ItemId : reserved[i] = Total(items, i, HoldingOrders)

\* The sum above is the sum of the property.
LEMMA BackedIsTheProperty == Backed => ReservationsBackOpenOrders
  BY DEF Backed, Total, HoldingOrders, ReservationsBackOpenOrders

\* No line is negative.
LEMMA LinesAreNat ==
    ASSUME TypeOK, NEW i \in ItemId
    PROVE  \A o \in OrderId : items[o][i] \in Nat
  BY DEF TypeOK, Lines

\* Nothing is reserved and no order is open.
LEMMA BackedInitially == Init => Backed
<1> SUFFICES ASSUME Init PROVE Backed
  OBVIOUS
<1>1. HoldingOrders = {}
  BY DEF Init, HoldingOrders, Holding
<1> QED
  BY <1>1, TotalEmpty, FS_EmptySet DEF Init, Backed

\* What the orders hold stays, and so does the reservation.
LEMMA KeptBacked ==
    ASSUME TypeOK, Backed, UNCHANGED <<items, reserved>>,
           \A o \in OrderId : status'[o] \in Holding <=> status[o] \in Holding
    PROVE  Backed'
<1>1. HoldingOrders' = HoldingOrders
  BY DEF HoldingOrders
<1> HIDE DEF HoldingOrders
<1> QED
  BY <1>1 DEF Backed

\* An order opens and its lines are added to the reservation.
LEMMA OpenBacked ==
    ASSUME TypeOK, TypeOK', Backed, NEW o \in OrderId, NEW lines \in Lines,
           status[o] = "NONE", status' = [status EXCEPT ![o] = "RECEIVED"],
           items' = [items EXCEPT ![o] = lines],
           reserved' = [i \in ItemId |-> reserved[i] + lines[i]]
    PROVE  Backed'
<1> DEFINE S == HoldingOrders
           T == HoldingOrders'
<1>1. o \notin S /\ T = S \cup {o} /\ S = T \ {o} /\ o \in T
  BY DEF HoldingOrders, Holding, TypeOK
<1>2. IsFiniteSet(S) /\ IsFiniteSet(T)
  BY <1>1, FS_AddElement DEF Backed
<1>3. T \subseteq OrderId
  BY DEF HoldingOrders
<1>4. ASSUME NEW i \in ItemId PROVE reserved'[i] = Total(items', i, T)
  <2> DEFINE more == items'
  <2>1. \A p \in T : more[p][i] \in Nat
    BY <1>3 DEF TypeOK, Lines
  <2>2. \A p \in S : items[p][i] = more[p][i]
    BY <1>1, <1>3 DEF TypeOK
  <2>3. more[o][i] = lines[i]
    BY DEF TypeOK
  <2>4. reserved'[i] = reserved[i] + lines[i] /\ reserved[i] \in Nat /\ lines[i] \in Nat
    BY DEF TypeOK, Lines
  <2>5. reserved[i] = Total(items, i, S)
    BY DEF Backed
  <2> SUFFICES reserved'[i] = Total(more, i, T)
    OBVIOUS
  <2> HIDE DEF S, T, more
  <2>6. Total(items, i, S) = Total(more, i, S)
    BY <1>2, <2>2, TotalSame
  <2>7. Total(more, i, T) = more[o][i] + Total(more, i, S)
    <3>1. Total(more, i, T) = more[o][i] + Total(more, i, T \ {o})
      BY <1>1, <1>2, <2>1, TotalSplit
    <3>2. T \ {o} = S
      BY <1>1
    <3> QED
      BY <3>1, <3>2, Zenon
  <2> QED
    BY <2>3, <2>4, <2>5, <2>6, <2>7
<1> QED
  BY <1>2, <1>4 DEF Backed

\* A line of an open order changes, and the reservation by the difference.
LEMMA EditBacked ==
    ASSUME TypeOK, TypeOK', Backed, NEW o \in OrderId, NEW j \in ItemId, NEW n \in Nat,
           status[o] = "DIAGNOSIS", UNCHANGED status,
           items' = [items EXCEPT ![o][j] = n],
           reserved' = [reserved EXCEPT ![j] = @ + (n - items[o][j])]
    PROVE  Backed'
<1> DEFINE S == HoldingOrders
<1>1. HoldingOrders' = S /\ S \subseteq OrderId /\ o \in S
  BY DEF HoldingOrders, Holding
<1>2. IsFiniteSet(S) /\ IsFiniteSet(S \ {o})
  BY <1>1, FS_RemoveElement DEF Backed
<1>3. ASSUME NEW i \in ItemId PROVE reserved'[i] = Total(items', i, S)
  <2> DEFINE more == items'
  <2>1. \A p \in S : more[p][i] \in Nat /\ items[p][i] \in Nat
    BY <1>1 DEF TypeOK, Lines
  <2>2. \A p \in S \ {o} : items[p][i] = more[p][i]
    BY <1>1 DEF TypeOK, Lines
  <2>3. reserved'[i] = reserved[i] + (more[o][i] - items[o][i]) /\ reserved[i] \in Nat
    BY DEF TypeOK, Lines
  <2>4. reserved[i] = Total(items, i, S)
    BY DEF Backed
  <2> SUFFICES reserved'[i] = Total(more, i, S)
    OBVIOUS
  <2> HIDE DEF S, more
  <2>5. Total(items, i, S \ {o}) = Total(more, i, S \ {o})
    BY <1>2, <2>2, TotalSame
  <2>6. Total(items, i, S) = items[o][i] + Total(items, i, S \ {o})
    BY <1>1, <1>2, <2>1, TotalSplit
  <2>7. Total(more, i, S) = more[o][i] + Total(more, i, S \ {o})
    BY <1>1, <1>2, <2>1, TotalSplit
  <2>8. Total(items, i, S \ {o}) \in Nat
    <3>1. \A p \in S \ {o} : items[p][i] \in Nat
      BY <2>1
    <3> QED
      BY <1>2, <3>1, TotalType
  <2> QED
    BY <1>1, <2>1, <2>3, <2>4, <2>5, <2>6, <2>7, <2>8
<1> QED
  BY <1>1, <1>2, <1>3 DEF Backed

\* An order stops holding parts and its lines leave the reservation.
LEMMA LeaveBacked ==
    ASSUME TypeOK, Backed, NEW o \in OrderId, NEW to, status[o] \in Holding, to \notin Holding,
           status' = [status EXCEPT ![o] = to], UNCHANGED items,
           reserved' = [i \in ItemId |-> reserved[i] - items[o][i]]
    PROVE  Backed'
<1> DEFINE S == HoldingOrders
<1>1. HoldingOrders' = S \ {o} /\ S \subseteq OrderId /\ o \in S
  BY DEF HoldingOrders, TypeOK
<1>2. IsFiniteSet(S) /\ IsFiniteSet(S \ {o})
  BY <1>1, FS_RemoveElement DEF Backed
<1>3. ASSUME NEW i \in ItemId PROVE reserved'[i] = Total(items, i, S \ {o})
  <2>1. \A p \in S : items[p][i] \in Nat
    BY <1>1, LinesAreNat
  <2>2. \A p \in S \ {o} : items[p][i] \in Nat
    BY <2>1
  <2>3. reserved[i] = Total(items, i, S) /\ reserved'[i] = reserved[i] - items[o][i]
    BY DEF Backed
  <2> HIDE DEF S
  <2>4. Total(items, i, S) = items[o][i] + Total(items, i, S \ {o})
    BY <1>1, <1>2, <2>1, TotalSplit
  <2>5. Total(items, i, S \ {o}) \in Nat
    BY <1>2, <2>2, TotalType
  <2> QED
    BY <1>1, <2>1, <2>3, <2>4, <2>5
<1> QED
  BY <1>1, <1>2, <1>3 DEF Backed

\* Every request is one of the first three, or a delivery.
LEMMA RequestBacked ==
    ASSUME TypeOK, TypeOK', Backed, Request
    PROVE  Backed'
<1> USE DEF orderVars, lineVars, stockVars
<1>1. ASSUME NEW o \in OrderId, NEW lines \in RequestedLines, NEW tasks \in SUBSET ServiceId,
             CreateServiceOrder(o, lines, tasks)
      PROVE  Backed'
  <2>1. lines \in Lines
    BY <1>1 DEF RequestedLines, Lines
  <2> QED
    BY <1>1, <2>1, OpenBacked DEF CreateServiceOrder
<1>2. ASSUME NEW o \in OrderId, NEW i \in ItemId, NEW q \in Quantity, AddItem(o, i, q)
      PROVE  Backed'
  <2>1. q \in Int /\ items[o][i] \in Nat
    BY SagaAssumption, LinesAreNat DEF SagaAssumption
  <2> DEFINE n == items[o][i] + q
  <2>2. n \in Nat /\ q = n - items[o][i]
    BY <1>2, <2>1 DEF AddItem
  <2>3. /\ items' = [items EXCEPT ![o][i] = n]
        /\ reserved' = [reserved EXCEPT ![i] = @ + (n - items[o][i])]
    BY <1>2, <2>2 DEF AddItem, TypeOK
  <2> QED
    BY <1>2, <2>2, <2>3, EditBacked DEF AddItem, Editable
<1>3. ASSUME NEW o \in OrderId, NEW i \in ItemId, RemoveItem(o, i)
      PROVE  Backed'
  <2>1. items[o][i] \in Nat /\ reserved[i] \in Nat
    BY LinesAreNat DEF TypeOK
  <2>2. reserved[i] + (0 - items[o][i]) = reserved[i] - items[o][i]
    BY <2>1
  <2>3. reserved' = [reserved EXCEPT ![i] = @ + (0 - items[o][i])]
    BY <1>3, <2>2 DEF RemoveItem
  <2> QED
    BY <1>3, <2>3, EditBacked DEF RemoveItem, Editable
<1>4. ASSUME NEW o \in OrderId, Deliver(o) PROVE Backed'
  <2>1. status[o] = "FINISHED"
    BY <1>4 DEF Deliver, MoveTo, canTransition, VALID_TRANSITIONS, OSStatus
  <2>2. \A p \in OrderId : status'[p] \in Holding <=> status[p] \in Holding
    BY <1>4, <2>1 DEF Deliver, MoveTo, TypeOK, Holding
  <2> QED
    BY <1>4, <2>2, KeptBacked DEF Deliver
<1>5. CASE UNCHANGED <<status, items, reserved>>
  BY <1>5, KeptBacked
<1> QED
  BY <1>1, <1>2, <1>3, <1>4, <1>5 DEF Request, AddService, RemoveService, UpdateStock, DeleteCustomer

\* A message moves an order that keeps its parts, or takes them out.
LEMMA MessageBacked ==
    ASSUME TypeOK, Backed, NEW id \in MessageId, NEW o \in OrderId,
           HandleReply(id, o) \/ HandleFailedCommand(id, o)
    PROVE  Backed'
<1> USE DEF orderVars, lineVars, stockVars
<1>1. ASSUME NEW to, MoveTo(o, to), UNCHANGED <<items, reserved>>,
             status[o] \in Holding <=> to \in Holding
      PROVE  Backed'
  <2>1. \A p \in OrderId : status'[p] \in Holding <=> status[p] \in Holding
    BY <1>1 DEF MoveTo, TypeOK
  <2> QED
    BY <1>1, <2>1, KeptBacked
<1>2. ASSUME ReleaseReservations(o) \/ Consume(o), NEW to, MoveTo(o, to), UNCHANGED items,
             status[o] \in Holding, to \notin Holding
      PROVE  Backed'
  BY <1>2, LeaveBacked DEF ReleaseReservations, Consume, MoveTo
<1>3. CASE UNCHANGED <<status, items, reserved>>
  BY <1>3, KeptBacked
<1>4. CASE HandleReply(id, o)
  <2>1. CASE DiagnosisStarted(id, o)
    BY <1>1, <2>1 DEF DiagnosisStarted, Accepted, EXPECTED_STATUS, Holding
  <2>2. CASE DiagnosisCompleted(id, o)
    BY <1>1, <2>2 DEF DiagnosisCompleted, Accepted, EXPECTED_STATUS, Holding
  <2>3. CASE BudgetApproved(id, o)
    BY <1>1, <2>3 DEF BudgetApproved, Accepted, EXPECTED_STATUS, Holding
  <2>4. CASE BudgetRejected(id, o)
    BY <1>2, <2>4 DEF BudgetRejected, Accepted, EXPECTED_STATUS, Holding
  <2>5. CASE PaymentConfirmed(id, o)
    BY <1>2, <2>5 DEF PaymentConfirmed, Accepted, EXPECTED_STATUS, Holding
  <2>6. CASE PaymentFailed(id, o)
    BY <1>2, <2>6 DEF PaymentFailed, Accepted, EXPECTED_STATUS, Holding
  <2>7. CASE RepairStarted(id, o)
    BY <1>1, <2>7 DEF RepairStarted, Accepted, EXPECTED_STATUS, Holding
  <2>8. CASE RepairCompleted(id, o)
    BY <1>1, <2>8 DEF RepairCompleted, Accepted, EXPECTED_STATUS, Holding
  <2> QED
    BY <1>3, <1>4, <2>1, <2>2, <2>3, <2>4, <2>5, <2>6, <2>7, <2>8
    DEF HandleReply, BudgetGenerated, CompensationConfirmed, IgnoredReply, Ignored
<1>5. CASE HandleFailedCommand(id, o)
  <2>1. ASSUME NEW c \in SagaCommandType, StepFailed(id, o, c)
        PROVE  Backed'
    BY <1>2, <2>1 DEF StepFailed, Accepted, Compensable, ExpectedOfFailed, Holding
  <2> QED
    BY <1>3, <1>5, <2>1 DEF HandleFailedCommand, ReportStuck, IgnoredFailure, Ignored
<1> QED
  BY <1>4, <1>5

\* Every step keeps the reservation equal to the sum.
LEMMA NextBacked == TypeOK /\ Backed /\ [Next]_vars => Backed'
<1> SUFFICES ASSUME TypeOK, Backed, [Next]_vars PROVE Backed'
  OBVIOUS
<1>1. TypeOK'
  BY NextType
<1>2. CASE UNCHANGED vars
  BY <1>2, KeptBacked DEF vars
<1>3. CASE \E id \in MessageId : Duplicate(id)
  BY <1>2, <1>3 DEF Duplicate
<1> QED
  BY <1>1, <1>2, <1>3, RequestBacked, MessageBacked DEF Next

\* The reservation is the sum in every reachable state.
LEMMA BackedCorrect == Spec => []Backed
BY BackedInitially, NextBacked, TypeCorrect, PTL DEF Spec

\* The reserved quantity of every part is the sum of the lines of the orders
\* that hold parts, for any orders, parts and quantities: no path leaks a
\* reservation or gives one back twice.
THEOREM ReservationsCorrect == Spec => []ReservationsBackOpenOrders
BY BackedCorrect, BackedIsTheProperty, PTL

\* EXPECTED_STATUS, FAILED_COMMAND and VALID_TRANSITIONS agree, and what gives
\* parts back or consumes them is expected only while parts are held.
LEMMA TablesAgree ==
    /\ \A r \in SagaReplyType : \A s \in EXPECTED_STATUS(r) :
          r \in DOMAIN Target => canTransition(s, Target[r])
    /\ \A c \in Compensable : \A s \in ExpectedOfFailed(c) : canTransition(s, "CANCELLED") /\ s \in Holding
    /\ \A r \in {"BudgetRejected", "PaymentFailed", "PaymentConfirmed"} : EXPECTED_STATUS(r) \subseteq Holding
<1>1. ASSUME NEW r \in SagaReplyType, NEW s \in EXPECTED_STATUS(r), r \in DOMAIN Target
      PROVE  canTransition(s, Target[r])
  BY <1>1 DEF EXPECTED_STATUS, Target, canTransition, VALID_TRANSITIONS, OSStatus
<1>2. ASSUME NEW c \in Compensable, NEW s \in ExpectedOfFailed(c)
      PROVE  canTransition(s, "CANCELLED") /\ s \in Holding
  BY <1>2 DEF Compensable, ExpectedOfFailed, canTransition, VALID_TRANSITIONS, OSStatus, Holding
<1>3. \A r \in {"BudgetRejected", "PaymentFailed", "PaymentConfirmed"} : EXPECTED_STATUS(r) \subseteq Holding
  BY DEF EXPECTED_STATUS, Holding
<1> QED
  BY <1>1, <1>2, <1>3

\* One summand is at most the sum, and the sum at most the stock.
LEMMA BackedIsNoPoison ==
    ASSUME TypeOK, ReservedWithinStock, Backed
    PROVE  NoMessageIsPoison
<1>1. ASSUME NEW o \in OrderId, status[o] \in Holding
      PROVE  CanRelease(o) /\ CanConsume(o)
  <2> DEFINE S == HoldingOrders
  <2>1. o \in S /\ S \subseteq OrderId
    BY <1>1 DEF HoldingOrders
  <2>2. IsFiniteSet(S) /\ IsFiniteSet(S \ {o})
    BY FS_RemoveElement DEF Backed
  <2>3. ASSUME NEW i \in ItemId PROVE items[o][i] <= reserved[i] /\ items[o][i] <= stock[i]
    <3>1. \A p \in S : items[p][i] \in Nat
      BY <2>1, LinesAreNat
    <3>2. \A p \in S \ {o} : items[p][i] \in Nat
      BY <3>1
    <3>3. reserved[i] = Total(items, i, S)
      BY DEF Backed
    <3>4. reserved[i] <= stock[i] /\ stock[i] \in Nat
      BY DEF ReservedWithinStock, TypeOK
    <3> HIDE DEF S
    <3>5. Total(items, i, S) = items[o][i] + Total(items, i, S \ {o})
      BY <2>1, <2>2, <3>1, TotalSplit
    <3>6. Total(items, i, S \ {o}) \in Nat
      BY <2>2, <3>2, TotalType
    <3> QED
      BY <2>1, <3>1, <3>3, <3>4, <3>5, <3>6
  <2> QED
    BY <2>3 DEF CanRelease, CanConsume
<1> QED
  BY <1>1, TablesAgree DEF NoMessageIsPoison

\* No message that finds the status it expects can fail on the stock, on the
\* reservations or on a transition.
THEOREM NoPoison == Spec => []NoMessageIsPoison
<1>1. Spec => []ReservedWithinStock
  BY TypeCorrect, ReservedInitially, ReservedStep, PTL DEF Spec
<1> QED
  BY <1>1, TypeCorrect, BackedCorrect, BackedIsNoPoison, PTL
=============================================================================
