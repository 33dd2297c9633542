---------------------- MODULE OrderTransactionsProofs ----------------------
(* Theorems about OrderTransactions, for any sessions, orders, parts,      *)
(* messages and requests, the edits included.                              *)
EXTENDS OrderTransactions, TLAPS

Writing(s) == Busy(s) /\ tx[s].at \in {"item", "write"}

\* An order being opened is opened by one session, which found nothing to read.
OpeningIsAlone ==
    \A s \in Session : Busy(s) /\ tx[s].op.kind = "create" =>
        /\ tx[s].at = "write" /\ status[tx[s].op.order] = "NONE"
        /\ \A u \in Session \ {s} :
              Busy(u) /\ tx[u].op.kind = "create" => tx[u].op.order # tx[s].op.order

\* Anything else writes to an order that it found.
WritersFoundIt ==
    \A s \in Session : Writing(s) =>
        /\ tx[s].at = "item" => tx[s].op.kind = "remove"
        /\ tx[s].op.kind # "create" => status[tx[s].op.order] # "NONE"

\* What the version column is for: a session that will claim the version it read
\* and is not stale still has the status of its order right.
VersionsHold ==
    \A s \in Session : Writing(s) /\ VersionChecked(tx[s].op) /\ s \notin stale =>
        tx[s].status = status[tx[s].op.order]

\* HistoryIsALegalPath for one order.
PathOK(o) ==
    IF status[o] = "NONE" THEN history[o] = <<>>
    ELSE /\ history[o] # <<>>
         /\ history[o][1] = "RECEIVED"
         /\ history[o][Len(history[o])] = status[o]
         /\ \A k \in 1 .. Len(history[o]) - 1 :
               canTransition(history[o][k], history[o][k + 1])

Paths == \A o \in OrderId : PathOK(o)

\* The inductive invariant. The path of a history needs the versions: without
\* them a session would move an order from a status it no longer has.
IInv == TypeOK /\ OpeningIsAlone /\ WritersFoundIt /\ VersionsHold /\ Paths
-----------------------------------------------------------------------------
(* The operations.                                                         *)

LEMMA NoneIsNoStatus == "NONE" \notin OSStatus
  BY DEF OSStatus

\* The instance has the tables of the state machine too.
LEMMA SameTables ==
    /\ Saga!OSStatus = OSStatus
    /\ Saga!SagaCommandType = SagaCommandType
    /\ \A from, to : Saga!canTransition(from, to) <=> canTransition(from, to)
<1>1. Saga!OSStatus = OSStatus
  BY DEF Saga!OSStatus, OSStatus
<1>2. Saga!SagaCommandType = SagaCommandType
  BY DEF Saga!SagaCommandType, SagaCommandType
<1>3. Saga!VALID_TRANSITIONS = VALID_TRANSITIONS
  BY <1>1 DEF Saga!VALID_TRANSITIONS, VALID_TRANSITIONS
<1> QED
  BY <1>1, <1>2, <1>3 DEF Saga!canTransition, canTransition

Operation == Message \cup StaffRequest

LEMMA OperationType ==
    ASSUME NEW op \in Operation
    PROVE  /\ op.order \in OrderId
           /\ op.kind \in {"reply", "dead", "create", "add", "remove", "deliver"}
           /\ op.kind = "reply" => op.type \in SagaReplyType
           /\ op.kind = "dead" => op.type \in SagaCommandType
           /\ op.kind = "create" => op.lines \in [ItemId -> Quantity \cup {0}] /\ op.lines \in [ItemId -> Int]
           /\ op.kind \in {"add", "remove"} => op.item \in ItemId
           /\ op.kind = "add" => op.quantity \in Int
           /\ IsMessage(op) <=> op \in Message
<1>1. op.kind = "create" => op.lines \in [ItemId -> Quantity \cup {0}]
  BY OperationAssumption DEF Operation
<1>2. op.kind = "create" => op.lines \in [ItemId -> Int]
  <2>1. Quantity \cup {0} \subseteq Int
    BY OperationAssumption
  <2> QED
    BY <1>1, <2>1
<1> QED
  BY <1>1, <1>2, OperationAssumption DEF Operation, IsMessage

LEMMA NewStatusType ==
    ASSUME NEW op \in Operation, NEW from \in OSStatus \cup {"NONE"}
    PROVE  /\ NewStatus(op, from) \in OSStatus \cup {"NONE"}
           /\ op.kind = "create" => NewStatus(op, from) = "RECEIVED"
           /\ NewStatus(op, from) # from => NewStatus(op, from) \in OSStatus
           /\ NewStatus(op, from) # from /\ op.kind # "create" => VersionChecked(op)
<1>1. \A r \in DOMAIN Saga!Target : Saga!Target[r] \in OSStatus
  BY DEF Saga!Target, OSStatus
<1>2. "ExecutionCancelled" \notin DOMAIN Saga!Target /\ "BudgetCancelled" \notin DOMAIN Saga!Target
  BY DEF Saga!Target
<1>3. "RECEIVED" \in OSStatus /\ "DELIVERED" \in OSStatus /\ "CANCELLED" \in OSStatus
  BY DEF OSStatus
<1> QED
  BY <1>1, <1>2, <1>3, OperationType DEF NewStatus, VersionChecked, WritesOrder

LEMMA CommandsType ==
    ASSUME NEW op \in Operation, NEW lines \in Saga!Lines
    PROVE  Commands(op, lines) \in Seq(Saga!Command)
<1>0. Saga!NoLines \in Saga!Lines /\ {} \in SUBSET {}
  BY DEF Saga!Lines, Saga!NoLines
<1>1. ASSUME NEW type \in SagaCommandType
      PROVE  Saga!Cmd(type) \in Saga!Command
  BY <1>0, SameTables DEF Saga!Cmd, Saga!Command
<1>2. [Saga!Cmd("GenerateBudget") EXCEPT !.items = lines] \in Saga!Command
  <2>1. "GenerateBudget" \in SagaCommandType
    BY DEF SagaCommandType
  <2> QED
    BY <1>1, <2>1 DEF Saga!Command
<1>3. \A c \in Compensable : Saga!CancelCommands(c) \in Seq(Saga!Command)
  BY <1>1 DEF Saga!CancelCommands, Compensable, SagaCommandType
<1> QED
  BY <1>1, <1>2, <1>3 DEF Commands, SagaCommandType

\* A row that an UPDATE leaves behind its CHECKs.
LEMMA RowType ==
    ASSUME TypeOK, NEW s \in Session, Busy(s), NEW i \in Touched(tx[s]),
           RowFound(tx[s], i), RowCheck(RowAfter(tx[s], i))
    PROVE  i \in ItemId /\ RowAfter(tx[s], i) \in [stock : Nat, reserved : Nat]
<1> DEFINE t == tx[s]
<1>1. t.op \in Operation /\ t.lines \in [ItemId -> Nat] /\ t.reservedSeen \in Nat
  BY DEF TypeOK, UnitOfWork, Operation, Saga!Lines
<1>2. i \in ItemId
  BY <1>1, OperationType DEF Touched, PartsEffect
<1>3. stock[i] \in Nat /\ reserved[i] \in Nat
  BY <1>2 DEF TypeOK, Saga!TypeOK
<1>4. Amount(t, i) \in Int
  BY <1>1, <1>2, OperationType DEF Amount
<1>5. RowAfter(t, i).stock \in Int /\ RowAfter(t, i).reserved \in Int
  BY <1>1, <1>3, <1>4 DEF RowAfter
<1>6. RowAfter(t, i).stock \in Nat /\ RowAfter(t, i).reserved \in Nat
  BY <1>5 DEF RowCheck
<1> QED
  BY <1>2, <1>6 DEF RowAfter
-----------------------------------------------------------------------------
(* The statements before the commit.                                       *)

\* What is a unit of work, its rows included.
IsUnit(t) ==
    /\ t \in UnitOfWork(t.rows)
    /\ DOMAIN t.rows \subseteq ItemId
    /\ \A i \in DOMAIN t.rows : t.rows[i] \in [stock : Nat, reserved : Nat]

LEMMA UnitType ==
    ASSUME TypeOK, NEW s \in Session, Busy(s)
    PROVE  /\ IsUnit(tx[s]) /\ tx[s].op \in Operation /\ tx[s].op.order \in OrderId
           /\ tx[s].lines \in Saga!Lines
           /\ status[tx[s].op.order] \in OSStatus \cup {"NONE"}
<1>1. IsUnit(tx[s]) /\ tx[s].op \in Operation /\ tx[s].lines \in Saga!Lines
  BY DEF TypeOK, IsUnit, UnitOfWork, Operation
<1>2. tx[s].op.order \in OrderId
  BY <1>1, OperationType
<1> QED
  BY <1>1, <1>2, SameTables DEF TypeOK, Saga!TypeOK

LEMMA UnitNotIdle ==
    ASSUME NEW t, IsUnit(t)
    PROVE  t # Idle
<1>1. t.at # "idle"
  BY DEF IsUnit, UnitOfWork
<1> QED
  BY <1>1 DEF Idle

LEMMA StepOf ==
    ASSUME TypeOK, NEW s \in Session, NEW t, Step(s, t)
    PROVE  /\ DOMAIN tx' = Session /\ tx'[s] = t
           /\ \A u \in Session \ {s} : tx'[u] = tx[u]
  BY DEF TypeOK, Step

LEMMA PathsKept ==
    ASSUME Paths, UNCHANGED <<status, history>>
    PROVE  Paths'
  BY DEF Paths, PathOK

\* A session that begins, or goes on, without a commit.
LEMMA StepKeeps ==
    ASSUME IInv, NEW s \in Session, NEW t, IsUnit(t), Step(s, t), UNCHANGED tables,
           stale' \in {stale, stale \ {s}},
           Busy(s) \/ stale' = stale,
           t.op.kind = "create" =>
                /\ t.at = "write" /\ status[t.op.order] = "NONE"
                /\ \A u \in Session \ {s} :
                      Busy(u) /\ tx[u].op.kind = "create" => tx[u].op.order # t.op.order,
           t.at = "item" => t.op.kind = "remove",
           t.at \in {"item", "write"} /\ t.op.kind # "create" => status[t.op.order] # "NONE",
           t.at \in {"item", "write"} /\ VersionChecked(t.op) /\ s \notin stale' =>
                t.status = status[t.op.order]
    PROVE  IInv'
<1>1. /\ DOMAIN tx' = Session /\ tx'[s] = t /\ t # Idle
      /\ \A u \in Session \ {s} : tx'[u] = tx[u]
  BY StepOf, UnitNotIdle DEF IInv
<1>2. UNCHANGED <<status, items, budgetTotal, history, stock, reserved, outbox, processed>>
  BY DEF tables
<1>3. TypeOK'
  <2>1. Saga!TypeOK'
    BY <1>2 DEF IInv, TypeOK, Saga!TypeOK
  <2>2. (stale \subseteq {u \in Session : Busy(u)})'
    BY <1>1 DEF IInv, TypeOK, Busy
  <2>3. ASSUME NEW u \in Session, Busy(u)'
        PROVE  IsUnit(tx'[u])
    BY <1>1, <2>3, UnitType DEF IInv, Busy
  <2> QED
    BY <1>1, <2>1, <2>2, <2>3 DEF TypeOK, IsUnit, UnitOfWork
<1>4. OpeningIsAlone'
  BY <1>1, <1>2 DEF IInv, OpeningIsAlone, Busy
<1>5. WritersFoundIt'
  BY <1>1, <1>2 DEF IInv, WritersFoundIt, Writing, Busy
<1>6. VersionsHold'
  BY <1>1, <1>2 DEF IInv, VersionsHold, Writing, Busy
<1>7. Paths'
  BY <1>2, PathsKept DEF IInv
<1> QED
  BY <1>3, <1>4, <1>5, <1>6, <1>7 DEF IInv
LEMMA BegunType ==
    ASSUME NEW op \in Operation, NEW at \in {"read", "write"}
    PROVE  IsUnit(Begun(op, at)) /\ Begun(op, at).op = op /\ Begun(op, at).at = at
<1>1. NoLines \in Saga!Lines
  BY DEF NoLines, Saga!Lines
<1>2. DOMAIN Begun(op, at).rows = {}
  BY DEF Begun
<1> QED
  BY <1>1, <1>2 DEF IsUnit, UnitOfWork, Begun, Operation

LEMMA RecordMessageKeeps ==
    ASSUME IInv, NEW s \in Session, NEW m \in Message, RecordMessage(s, m)
    PROVE  IInv'
<1>1. m \in Operation /\ m.kind # "create"
  BY OperationAssumption DEF Operation
<1>2. /\ IsUnit(Begun(m, "read")) /\ Begun(m, "read").op = m /\ Begun(m, "read").at = "read"
  BY <1>1, BegunType
<1>3. Step(s, Begun(m, "read")) /\ UNCHANGED tables /\ stale' = stale
  BY DEF RecordMessage
<1> QED
  BY <1>1, <1>2, <1>3, StepKeeps

LEMMA BeginRequestKeeps ==
    ASSUME IInv, NEW s \in Session, NEW op \in StaffRequest, BeginRequest(s, op)
    PROVE  IInv'
<1>1. op \in Operation /\ UNCHANGED tables /\ stale' = stale
  BY DEF Operation, BeginRequest
<1>2. CASE op.kind = "create"
  <2>1. /\ IsUnit(Begun(op, "write")) /\ Begun(op, "write").op = op /\ Begun(op, "write").at = "write"
    BY <1>1, BegunType
  <2>2. Step(s, Begun(op, "write")) /\ status[op.order] = "NONE"
        /\ \A u \in Session : Busy(u) => tx[u].op # op
    BY <1>2 DEF BeginRequest
  <2>3. \A u \in Session \ {s} : Busy(u) /\ tx[u].op.kind = "create" => tx[u].op.order # op.order
    <3> SUFFICES ASSUME NEW u \in Session, Busy(u), tx[u].op.kind = "create", tx[u].op.order = op.order
                 PROVE  FALSE
      OBVIOUS
    <3>1. tx[u].op \in Message \cup StaffRequest
      BY UnitType DEF IInv, Operation
    <3>2. tx[u].op \in StaffRequest
      BY <3>1, OperationAssumption
    <3> QED
      BY <1>2, <2>2, <3>2, OperationAssumption
  <2>4. ~ VersionChecked(op)
    BY <1>2 DEF VersionChecked
  <2> QED
    BY <1>1, <1>2, <2>1, <2>2, <2>3, <2>4, StepKeeps
<1>3. CASE op.kind # "create"
  <2>1. /\ IsUnit(Begun(op, "read")) /\ Begun(op, "read").op = op /\ Begun(op, "read").at = "read"
    BY <1>1, BegunType
  <2>2. Step(s, Begun(op, "read"))
    BY <1>3 DEF BeginRequest
  <2> QED
    BY <1>1, <1>3, <2>1, <2>2, StepKeeps
<1> QED
  BY <1>2, <1>3

\* A unit of work that goes on with the same operation.
LEMMA GoesOn ==
    ASSUME IInv, NEW s \in Session, Busy(s), NEW t, IsUnit(t), Step(s, t), UNCHANGED tables,
           stale' \in {stale, stale \ {s}}, t.op = tx[s].op,
           t.op.kind = "create" => t.at = "write",
           t.at = "item" => t.op.kind = "remove",
           t.at \in {"item", "write"} /\ t.op.kind # "create" => status[t.op.order] # "NONE",
           t.at \in {"item", "write"} /\ VersionChecked(t.op) /\ s \notin stale' =>
                t.status = status[t.op.order]
    PROVE  IInv'
<1>1. t.op.kind = "create" =>
        /\ status[t.op.order] = "NONE"
        /\ \A u \in Session \ {s} :
              Busy(u) /\ tx[u].op.kind = "create" => tx[u].op.order # t.op.order
  BY DEF IInv, OpeningIsAlone
<1> QED
  BY <1>1, StepKeeps

LEMMA ReadOrderKeeps ==
    ASSUME IInv, NEW s \in Session, ReadOrder(s)
    PROVE  IInv'
<1> DEFINE old == tx[s]
           o == old.op.order
           expected == status[o] \in ExpectedStatus(old.op)
           at == CASE ~ expected -> "ignored" [] old.op.kind = "remove" -> "item" [] OTHER -> "write"
           t == [old EXCEPT !.at = at, !.status = status[o], !.lines = items[o]]
<1>1. Busy(s) /\ old.at = "read" /\ Step(s, t) /\ stale' = stale \ {s} /\ UNCHANGED tables
  BY DEF ReadOrder, Busy, Idle
<1>2. /\ IsUnit(old) /\ o \in OrderId /\ old.op \in Operation
      /\ status[o] \in OSStatus \cup {"NONE"} /\ items[o] \in Saga!Lines
  BY <1>1, UnitType DEF IInv, TypeOK, Saga!TypeOK
<1>3. at \in {"ignored", "item", "write"}
  OBVIOUS
<1>4. /\ t.at = at /\ t.status = status[o] /\ t.op = old.op /\ IsUnit(t)
  <2>1. old \in UnitOfWork(old.rows)
    BY <1>2 DEF IsUnit
  <2> HIDE DEF at
  <2> QED
    BY <1>2, <1>3, <2>1 DEF IsUnit, UnitOfWork
<1>5. old.op.kind # "create"
  BY <1>1 DEF IInv, OpeningIsAlone
<1>6. /\ at \in {"item", "write"} => expected
      /\ at = "item" => old.op.kind = "remove"
  BY DEF ReadOrder, IsMessage
<1>7. expected => status[o] # "NONE"
  <2>1. CASE old.op.kind = "reply"
    BY <1>2, <2>1, OperationType DEF ExpectedStatus, EXPECTED_STATUS, SagaReplyType
  <2>2. CASE old.op.kind = "dead"
    BY <1>2, <2>2, OperationType, NoneIsNoStatus DEF ExpectedStatus, ExpectedOfFailed, SagaCommandType
  <2>3. CASE old.op.kind \notin {"reply", "dead"}
    BY <2>3, NoneIsNoStatus DEF ExpectedStatus
  <2> QED
    BY <2>1, <2>2, <2>3
<1> HIDE DEF t, at, expected
<1> QED
  BY <1>1, <1>4, <1>5, <1>6, <1>7, GoesOn

LEMMA ReadItemKeeps ==
    ASSUME IInv, NEW s \in Session, ReadItem(s)
    PROVE  IInv'
<1> DEFINE old == tx[s]
           t == [old EXCEPT !.at = "write", !.reservedSeen = reserved[old.op.item]]
<1>1. Busy(s) /\ old.at = "item" /\ Step(s, t) /\ stale' = stale /\ UNCHANGED tables
  BY DEF ReadItem, Busy, Idle
<1>2. /\ old.op.kind = "remove" /\ status[old.op.order] # "NONE"
      /\ VersionChecked(old.op) /\ s \notin stale => old.status = status[old.op.order]
  BY <1>1 DEF IInv, WritersFoundIt, VersionsHold, Writing
<1>3. IsUnit(old) /\ old.op.item \in ItemId
  BY <1>1, <1>2, UnitType, OperationType DEF IInv
<1>4. reserved[old.op.item] \in Nat
  BY <1>3 DEF IInv, TypeOK, Saga!TypeOK
<1>5. IsUnit(t) /\ t.op = old.op /\ t.at = "write" /\ t.status = old.status
  BY <1>3, <1>4 DEF IsUnit, UnitOfWork
<1> HIDE DEF t
<1> QED
  BY <1>1, <1>2, <1>5, GoesOn

LEMMA WriteItemKeeps ==
    ASSUME IInv, NEW s \in Session, NEW i \in ItemId, WriteItem(s, i)
    PROVE  IInv'
<1> DEFINE old == tx[s]
           row == RowAfter(old, i)
           rows == [j \in DOMAIN old.rows \cup {i} |-> IF j = i THEN row ELSE old.rows[j]]
           t == [old EXCEPT !.rows = rows]
<1>1. Busy(s) /\ old.at = "write" /\ Step(s, t) /\ stale' = stale /\ UNCHANGED tables
      /\ i \in Touched(old) /\ RowFound(old, i) /\ RowCheck(row)
  BY DEF WriteItem, Busy, Idle
<1>2. IsUnit(old) /\ row \in [stock : Nat, reserved : Nat]
  BY <1>1, UnitType, RowType DEF IInv
<1>3. DOMAIN rows \subseteq ItemId /\ \A j \in DOMAIN rows : rows[j] \in [stock : Nat, reserved : Nat]
  <2> HIDE DEF row
  <2> QED
    BY <1>2 DEF IsUnit
<1> HIDE DEF rows
<1>4. IsUnit(t) /\ t.op = old.op /\ t.at = "write" /\ t.status = old.status
  BY <1>1, <1>2, <1>3 DEF IsUnit, UnitOfWork
<1>5. /\ old.op.kind # "create" => status[old.op.order] # "NONE"
      /\ VersionChecked(old.op) /\ s \notin stale => old.status = status[old.op.order]
  BY <1>1 DEF IInv, WritersFoundIt, VersionsHold, Writing
<1> HIDE DEF t
<1> QED
  BY <1>1, <1>4, <1>5, GoesOn
-----------------------------------------------------------------------------
(* The ends of a unit of work.                                             *)

LEMMA RecordedType ==
    ASSUME TypeOK, NEW op \in Operation, Recorded(op)
    PROVE  processed' \subseteq Message
<1>1. IsMessage(op) => op \in Message
  BY OperationAssumption DEF IsMessage, Operation
<1> QED
  BY <1>1 DEF Recorded, TypeOK, Saga!TypeOK

\* A session that is idle again without having written anything but a message id.
LEMMA EndKeeps ==
    ASSUME IInv, NEW s \in Session, Step(s, Idle), stale' = stale \ {s}, processed' \subseteq Message,
           UNCHANGED <<status, items, budgetTotal, history, stock, reserved, outbox>>
    PROVE  IInv'
<1>1. /\ DOMAIN tx' = Session /\ tx'[s] = Idle
      /\ \A u \in Session \ {s} : tx'[u] = tx[u]
  BY StepOf DEF IInv
<1>2. TypeOK'
  <2>1. Saga!TypeOK'
    BY DEF IInv, TypeOK, Saga!TypeOK
  <2>2. (stale \subseteq {u \in Session : Busy(u)})'
    BY <1>1 DEF IInv, TypeOK, Busy
  <2>3. ASSUME NEW u \in Session, Busy(u)'
        PROVE  IsUnit(tx'[u])
    BY <1>1, <2>3, UnitType DEF IInv, Busy
  <2> QED
    BY <1>1, <2>1, <2>2, <2>3 DEF TypeOK, IsUnit, UnitOfWork
<1>3. OpeningIsAlone'
  BY <1>1 DEF IInv, OpeningIsAlone, Busy
<1>4. WritersFoundIt'
  BY <1>1 DEF IInv, WritersFoundIt, Writing, Busy
<1>5. VersionsHold'
  BY <1>1 DEF IInv, VersionsHold, Writing, Busy
<1>6. Paths'
  BY PathsKept DEF IInv
<1> QED
  BY <1>2, <1>3, <1>4, <1>5, <1>6 DEF IInv

LEMMA CommitIgnoredKeeps ==
    ASSUME IInv, NEW s \in Session, CommitIgnored(s)
    PROVE  IInv'
<1>1. Busy(s)
  BY DEF CommitIgnored, Busy, Idle
<1>2. processed' \subseteq Message
  BY <1>1, UnitType, RecordedType DEF IInv, CommitIgnored
<1> QED
  BY <1>2, EndKeeps DEF CommitIgnored

LEMMA AbortKeeps ==
    ASSUME IInv, NEW s \in Session, Abort(s)
    PROVE  IInv'
<1>1. processed' \subseteq Message
  BY DEF IInv, TypeOK, Saga!TypeOK, Abort, tables
<1> QED
  BY <1>1, EndKeeps DEF Abort, tables

LEMMA UpdateStockKeeps ==
    ASSUME IInv, NEW i \in ItemId, NEW n \in StockLevel, UpdateStock(i, n)
    PROVE  IInv'
<1>1. n \in Nat
  BY OperationAssumption
<1>2. UNCHANGED <<status, items, budgetTotal, history, reserved, outbox, processed, tx, stale>>
  BY DEF UpdateStock
<1>3. stock' \in [ItemId -> Nat]
  BY <1>1 DEF UpdateStock, IInv, TypeOK, Saga!TypeOK
<1>4. Saga!TypeOK'
  BY <1>2, <1>3 DEF IInv, TypeOK, Saga!TypeOK
<1>5. TypeOK'
  BY <1>2, <1>4 DEF IInv, TypeOK, UnitOfWork, Busy
<1>6. OpeningIsAlone' /\ WritersFoundIt' /\ VersionsHold'
  BY <1>2 DEF IInv, OpeningIsAlone, WritersFoundIt, VersionsHold, Writing, Busy
<1>7. Paths'
  BY <1>2, PathsKept DEF IInv
<1> QED
  BY <1>5, <1>6, <1>7 DEF IInv
-----------------------------------------------------------------------------
(* The commit.                                                             *)

\* What a commit does to the status of its order.
LEMMA CommitMoves ==
    ASSUME IInv, NEW s \in Session, Commit(s)
    PROVE  LET op == tx[s].op
               o == op.order
               to == NewStatus(op, status[o]) IN
           /\ Busy(s) /\ tx[s].at = "write" /\ o \in OrderId /\ op \in Operation
           /\ to \in OSStatus
           /\ status' = [status EXCEPT ![o] = to]
           /\ history' = [history EXCEPT ![o] = IF to = status[o] THEN @ ELSE Append(@, to)]
           /\ op.kind = "create" => status[o] = "NONE" /\ to = "RECEIVED"
           /\ op.kind # "create" => status[o] # "NONE"
           /\ to # status[o] /\ op.kind # "create" => canTransition(status[o], to) /\ WritesOrder(op)
<1> DEFINE t == tx[s]
           op == tx[s].op
           o == op.order
           to == NewStatus(op, status[o])
<1>1. Busy(s) /\ t.at = "write" /\ Writing(s)
  BY DEF Commit, CommitOf, Busy, Idle, Writing
<1>2. op \in Operation /\ o \in OrderId /\ status[o] \in OSStatus \cup {"NONE"}
  BY <1>1, UnitType DEF IInv
<1>3. /\ to \in OSStatus \cup {"NONE"}
      /\ op.kind = "create" => to = "RECEIVED"
      /\ to # status[o] => to \in OSStatus
      /\ to # status[o] /\ op.kind # "create" => VersionChecked(op)
  BY <1>2, NewStatusType
<1>4. /\ op.kind = "create" => status[o] = "NONE"
      /\ op.kind # "create" => status[o] # "NONE"
  BY <1>1 DEF IInv, OpeningIsAlone, WritersFoundIt
<1>5. "RECEIVED" \in OSStatus
  BY DEF OSStatus
<1>6. to \in OSStatus
  BY <1>2, <1>3, <1>4, <1>5
<1>7. ASSUME to # status[o], op.kind # "create"
      PROVE  canTransition(status[o], to) /\ WritesOrder(op)
  <2>1. VersionChecked(op) /\ s \notin stale
    BY <1>3, <1>7 DEF Commit, CommitOf
  <2>2. t.status = status[o]
    BY <1>1, <2>1 DEF IInv, VersionsHold
  <2>3. canTransition(t.status, to)
    BY <1>7 DEF Commit, CommitOf
  <2> QED
    BY <2>1, <2>2, <2>3 DEF VersionChecked
<1>8. /\ status' = [status EXCEPT ![o] = to]
      /\ history' = [history EXCEPT ![o] = IF to = status[o] THEN @ ELSE Append(@, to)]
  BY DEF Commit, CommitOf
<1> QED
  BY <1>1, <1>2, <1>3, <1>4, <1>6, <1>7, <1>8
\* A move adds one legal step at the end of a path.
LEMMA PathExtended ==
    ASSUME TypeOK, NEW o \in OrderId, NEW to \in OSStatus, PathOK(o),
           canTransition(status[o], to), status'[o] = to, history'[o] = Append(history[o], to)
    PROVE  PathOK(o)'
<1>1. status[o] # "NONE" /\ to # "NONE"
  BY NoneIsNoStatus DEF canTransition
<1>2. /\ history[o] \in Seq(OSStatus) /\ history[o] # <<>>
      /\ history[o][Len(history[o])] = status[o] /\ history[o][1] = "RECEIVED"
  BY <1>1, SameTables DEF PathOK, TypeOK, Saga!TypeOK
<1>3. /\ Len(history'[o]) = Len(history[o]) + 1 /\ Len(history[o]) \in Nat \ {0}
      /\ \A k \in 1 .. Len(history[o]) : history'[o][k] = history[o][k]
      /\ history'[o][Len(history[o]) + 1] = to
  BY <1>2
<1>4. ASSUME NEW k \in 1 .. Len(history'[o]) - 1
      PROVE  canTransition(history'[o][k], history'[o][k + 1])
  <2>1. CASE k = Len(history[o])
    BY <1>2, <1>3, <2>1
  <2>2. CASE k # Len(history[o])
    <3>1. k \in 1 .. Len(history[o]) - 1 /\ k + 1 \in 1 .. Len(history[o]) /\ k \in 1 .. Len(history[o])
      BY <1>3, <2>2
    <3> QED
      BY <1>1, <1>3, <3>1 DEF PathOK
  <2> QED
    BY <2>1, <2>2
<1>5. history'[o] # <<>> /\ history'[o][1] = "RECEIVED" /\ history'[o][Len(history'[o])] = status'[o]
  BY <1>2, <1>3
<1> QED
  BY <1>1, <1>4, <1>5 DEF PathOK

LEMMA CommitPaths ==
    ASSUME IInv, NEW s \in Session, Commit(s)
    PROVE  Paths'
<1> DEFINE op == tx[s].op
           o == op.order
           to == NewStatus(op, status[o])
<1>1. /\ o \in OrderId /\ to \in OSStatus
      /\ status' = [status EXCEPT ![o] = to]
      /\ history' = [history EXCEPT ![o] = IF to = status[o] THEN @ ELSE Append(@, to)]
      /\ op.kind = "create" => status[o] = "NONE" /\ to = "RECEIVED"
      /\ to # status[o] /\ op.kind # "create" => canTransition(status[o], to)
  BY CommitMoves
<1> HIDE DEF op, to
<1>2. /\ status'[o] = to /\ history'[o] = IF to = status[o] THEN history[o] ELSE Append(history[o], to)
      /\ \A p \in OrderId \ {o} : status'[p] = status[p] /\ history'[p] = history[p]
  BY <1>1 DEF IInv, TypeOK, Saga!TypeOK
<1>3. PICK q \in OrderId : q = o
  BY <1>1
<1>4. SUFFICES ASSUME NEW p \in OrderId PROVE PathOK(p)'
  BY DEF Paths
<1>5. PathOK(p)
  BY DEF IInv, Paths
<1>6. CASE p # q \/ to = status[o]
  <2>1. status'[p] = status[p] /\ history'[p] = history[p]
    BY <1>2, <1>3, <1>6
  <2> QED
    BY <1>5, <2>1 DEF PathOK
<1>7. CASE p = q /\ to # status[o] /\ op.kind # "create"
  <2>1. canTransition(status[p], to) /\ status'[p] = to /\ history'[p] = Append(history[p], to)
    BY <1>1, <1>2, <1>3, <1>7
  <2> QED
    BY <1>1, <1>5, <2>1, PathExtended DEF IInv
<1>8. CASE p = q /\ op.kind = "create"
  <2>1. status[p] = "NONE" /\ status'[p] = "RECEIVED" /\ history'[p] = Append(history[p], "RECEIVED")
    BY <1>1, <1>2, <1>3, <1>8
  <2>2. history[p] = <<>>
    BY <1>5, <2>1 DEF PathOK
  <2>3. Len(history'[p]) = 1 /\ history'[p][1] = "RECEIVED"
    BY <2>1, <2>2
  <2> QED
    BY <2>1, <2>3 DEF PathOK
<1> QED
  BY <1>6, <1>7, <1>8

LEMMA CommitOthers ==
    ASSUME IInv, NEW s \in Session, Commit(s)
    PROVE  OpeningIsAlone' /\ WritersFoundIt' /\ VersionsHold'
<1> DEFINE op == tx[s].op
           o == op.order
           to == NewStatus(op, status[o])
<1>1. /\ Busy(s) /\ o \in OrderId /\ to \in OSStatus
      /\ status' = [status EXCEPT ![o] = to]
      /\ op.kind = "create" => status[o] = "NONE"
      /\ op.kind # "create" => status[o] # "NONE"
      /\ to # status[o] /\ op.kind # "create" => WritesOrder(op)
  BY CommitMoves
<1>2. op.kind = "create" => WritesOrder(op)
  BY DEF WritesOrder
<1>3. /\ stale' = (stale \ {s}) \cup
                    {u \in Session \ {s} : Busy(u) /\ tx[u].op.order = o /\ WritesOrder(op)}
      /\ Step(s, Idle)
  BY DEF Commit, CommitOf
<1> HIDE DEF to
<1>4. /\ tx'[s] = Idle
      /\ \A u \in Session \ {s} : tx'[u] = tx[u]
  BY <1>3, StepOf DEF IInv
<1>5. \A p \in OrderId : status'[p] = IF p = o THEN to ELSE status[p]
  BY <1>1 DEF IInv, TypeOK, Saga!TypeOK
<1>6. ASSUME NEW u \in Session, Busy(u)'
      PROVE  /\ u # s /\ Busy(u) /\ tx'[u] = tx[u] /\ tx[u].op.order \in OrderId
             /\ tx[u].op.kind = "create" => tx[u].op.order # o
  <2>1. u # s /\ Busy(u) /\ tx'[u] = tx[u]
    BY <1>4, <1>6 DEF Busy
  <2>2. tx[u].op.order \in OrderId
    BY <2>1, UnitType DEF IInv
  <2>3. tx[u].op.kind = "create" => tx[u].op.order # o
    BY <1>1, <2>1 DEF IInv, OpeningIsAlone
  <2> QED
    BY <2>1, <2>2, <2>3
<1>7. OpeningIsAlone'
  <2> SUFFICES ASSUME NEW u \in Session, Busy(u)', tx'[u].op.kind = "create"
               PROVE  /\ tx'[u].at = "write" /\ status'[tx'[u].op.order] = "NONE"
                      /\ \A v \in Session \ {u} :
                            Busy(v)' /\ tx'[v].op.kind = "create" => tx'[v].op.order # tx'[u].op.order
    BY DEF OpeningIsAlone
  <2> QED
    BY <1>5, <1>6 DEF IInv, OpeningIsAlone
<1>8. WritersFoundIt'
  <2> SUFFICES ASSUME NEW u \in Session, Busy(u)', tx'[u].at \in {"item", "write"}
               PROVE  /\ tx'[u].at = "item" => tx'[u].op.kind = "remove"
                      /\ tx'[u].op.kind # "create" => status'[tx'[u].op.order] # "NONE"
    BY DEF WritersFoundIt, Writing
  <2> QED
    BY <1>1, <1>5, <1>6, NoneIsNoStatus DEF IInv, WritersFoundIt, Writing
<1>9. VersionsHold'
  <2> SUFFICES ASSUME NEW u \in Session, Busy(u)', tx'[u].at \in {"item", "write"},
                      VersionChecked(tx'[u].op), u \notin stale'
               PROVE  tx'[u].status = status'[tx'[u].op.order]
    BY DEF VersionsHold, Writing
  <2>1. /\ u # s /\ Busy(u) /\ tx'[u] = tx[u] /\ tx[u].op.order \in OrderId
    BY <1>6
  <2>2. u \notin stale /\ (tx[u].op.order = o => ~ WritesOrder(op))
    BY <1>3, <2>1
  <2>3. tx[u].status = status[tx[u].op.order]
    BY <2>1, <2>2 DEF IInv, VersionsHold, Writing
  <2>4. tx[u].op.order = o => to = status[o]
    BY <1>1, <1>2, <2>2
  <2> QED
    BY <1>5, <2>1, <2>3, <2>4
<1> QED
  BY <1>7, <1>8, <1>9

\* The CHECK of the lines: an order that is opened has no negative quantity.
LEMMA OpenedLines ==
    ASSUME IInv, NEW s \in Session, Commit(s), tx[s].op.kind = "create"
    PROVE  tx[s].op.lines \in [ItemId -> Nat] /\ tx[s].op.lines \in Saga!RequestedLines
<1> DEFINE op == tx[s].op
<1>1. op.lines \in [ItemId -> Quantity \cup {0}] /\ op.lines \in [ItemId -> Int]
  BY CommitMoves, OperationType
<1>2. PartsEffect(op) = "reserve" /\ LinesAfter(tx[s]) = op.lines
      /\ Touched(tx[s]) = {i \in ItemId : op.lines[i] # 0}
  BY DEF PartsEffect, Compensates, LinesAfter, Touched, Amount
<1>3. \A i \in ItemId : op.lines[i] # 0 => op.lines[i] > 0
  BY <1>2 DEF Commit, CommitOf
<1>4. \A i \in ItemId : op.lines[i] \in (Quantity \cap Nat) \cup {0}
  BY <1>1, <1>3
<1> QED
  BY <1>1, <1>4 DEF Saga!RequestedLines

LEMMA CommitTypes ==
    ASSUME IInv, NEW s \in Session, Commit(s)
    PROVE  TypeOK'
<1> DEFINE t == tx[s]
           op == tx[s].op
           o == op.order
           to == NewStatus(op, status[o])
<1>1. /\ Busy(s) /\ o \in OrderId /\ op \in Operation /\ to \in OSStatus
      /\ status' = [status EXCEPT ![o] = to]
      /\ history' = [history EXCEPT ![o] = IF to = status[o] THEN @ ELSE Append(@, to)]
  BY CommitMoves
<1>2. IsUnit(t) /\ t.lines \in Saga!Lines
  BY <1>1, UnitType DEF IInv
<1>3. /\ op.kind = "add" => LinesAfter(t)[op.item] > 0
      /\ items' = [items EXCEPT ![o] = LinesAfter(t)]
      /\ budgetTotal' = [budgetTotal EXCEPT ![o] =
                            @ \/ (op.kind = "reply" /\ op.type = "BudgetGenerated")]
      /\ outbox' = [outbox EXCEPT ![o] = @ \o Commands(op, t.lines)]
      /\ stale' = (stale \ {s}) \cup
                    {u \in Session \ {s} : Busy(u) /\ tx[u].op.order = o /\ WritesOrder(op)}
      /\ Install(s) /\ Recorded(op) /\ Step(s, Idle)
  <2>1. op.kind = "add" => PartsEffect(op) = "reserve"
    BY DEF PartsEffect, Compensates
  <2>2. op.kind = "add" => Touched(t) = {op.item}
    BY <2>1 DEF Touched
  <2> QED
    BY <2>1, <2>2 DEF Commit, CommitOf
<1>4. status' \in [OrderId -> Saga!OSStatus \cup {"NONE"}] /\ history' \in [OrderId -> Seq(Saga!OSStatus)]
  <2>1. status \in [OrderId -> OSStatus \cup {"NONE"}] /\ history \in [OrderId -> Seq(OSStatus)]
    BY SameTables DEF IInv, TypeOK, Saga!TypeOK
  <2> HIDE DEF to, o
  <2>2. Append(history[o], to) \in Seq(OSStatus)
    BY <1>1, <2>1
  <2> QED
    BY <1>1, <2>1, <2>2, SameTables
<1>5. LinesAfter(t) \in Saga!Lines
  <2>1. items[o] \in Saga!Lines
    BY <1>1 DEF IInv, TypeOK, Saga!TypeOK
  <2>2. CASE op.kind = "create"
    BY <2>2, OpenedLines DEF LinesAfter, Saga!Lines
  <2>3. CASE op.kind = "add"
    <3>1. op.item \in ItemId /\ op.quantity \in Int
      BY <1>1, <2>3, OperationType
    <3>2. LinesAfter(t) = [t.lines EXCEPT ![op.item] = @ + op.quantity]
      BY <2>3 DEF LinesAfter
    <3>3. t.lines[op.item] + op.quantity > 0 /\ t.lines[op.item] \in Nat
      BY <1>2, <1>3, <2>3, <3>1, <3>2 DEF Saga!Lines
    <3> QED
      BY <1>2, <3>1, <3>2, <3>3 DEF Saga!Lines
  <2>4. CASE op.kind = "remove"
    BY <1>1, <1>2, <2>4, OperationType DEF LinesAfter, Saga!Lines
  <2>5. CASE op.kind \notin {"create", "add", "remove"}
    BY <2>1, <2>5 DEF LinesAfter
  <2> QED
    BY <2>2, <2>3, <2>4, <2>5
<1>6. items' \in [OrderId -> Saga!Lines]
  <2> HIDE DEF t
  <2> QED
    BY <1>1, <1>3, <1>5 DEF IInv, TypeOK, Saga!TypeOK
<1>7. budgetTotal' \in [OrderId -> BOOLEAN]
  BY <1>1, <1>3 DEF IInv, TypeOK, Saga!TypeOK
<1>8. outbox' \in [OrderId -> Seq(Saga!Command)]
  <2>1. Commands(op, t.lines) \in Seq(Saga!Command)
    BY <1>1, <1>2, CommandsType
  <2>2. outbox[o] \in Seq(Saga!Command)
    BY <1>1 DEF IInv, TypeOK, Saga!TypeOK
  <2>3. outbox[o] \o Commands(op, t.lines) \in Seq(Saga!Command)
    BY <2>1, <2>2
  <2> QED
    BY <1>1, <1>3, <2>3 DEF IInv, TypeOK, Saga!TypeOK
<1>9. stock' \in [ItemId -> Nat] /\ reserved' \in [ItemId -> Nat]
  BY <1>2, <1>3 DEF Install, IsUnit, IInv, TypeOK, Saga!TypeOK
<1>10. processed' \subseteq Message
  BY <1>1, <1>3, RecordedType DEF IInv
<1>11. Saga!TypeOK'
  BY <1>4, <1>6, <1>7, <1>8, <1>9, <1>10 DEF IInv, TypeOK, Saga!TypeOK
<1>12. /\ DOMAIN tx' = Session /\ tx'[s] = Idle
       /\ \A u \in Session \ {s} : tx'[u] = tx[u]
  BY <1>3, StepOf DEF IInv
<1>13. (stale \subseteq {u \in Session : Busy(u)})'
  BY <1>3, <1>12 DEF IInv, TypeOK, Busy
<1>14. ASSUME NEW u \in Session, Busy(u)'
       PROVE  IsUnit(tx'[u])
  BY <1>12, <1>14, UnitType DEF IInv, Busy
<1> QED
  BY <1>11, <1>12, <1>13, <1>14 DEF TypeOK, IsUnit, UnitOfWork
-----------------------------------------------------------------------------
LEMMA InvInit == Init => IInv
<1> SUFFICES ASSUME Init PROVE IInv
  OBVIOUS
<1>1. stock \in [ItemId -> Nat]
  BY OperationAssumption DEF Init, Saga!Init
<1>2. Saga!TypeOK
  BY <1>1 DEF Init, Saga!Init, Saga!TypeOK, Saga!Lines, Saga!NoLines
<1>3. TypeOK
  BY <1>2 DEF Init, TypeOK, Busy
<1>4. OpeningIsAlone /\ WritersFoundIt /\ VersionsHold
  BY DEF Init, OpeningIsAlone, WritersFoundIt, VersionsHold, Writing, Busy
<1>5. Paths
  BY DEF Init, Saga!Init, Paths, PathOK
<1> QED
  BY <1>3, <1>4, <1>5 DEF IInv

LEMMA InvAlways == Spec => []IInv
<1>1. IInv /\ [Next]_vars => IInv'
  <2> SUFFICES ASSUME IInv, [Next]_vars PROVE IInv'
    OBVIOUS
  <2>1. CASE UNCHANGED vars
    <3>1. UNCHANGED <<status, items, budgetTotal, history, stock, reserved, outbox, processed, tx, stale>>
      BY <2>1 DEF vars, tables
    <3>2. TypeOK'
      BY <3>1 DEF IInv, TypeOK, Saga!TypeOK, UnitOfWork, Busy
    <3>3. OpeningIsAlone' /\ WritersFoundIt' /\ VersionsHold'
      BY <3>1 DEF IInv, OpeningIsAlone, WritersFoundIt, VersionsHold, Writing, Busy
    <3> QED
      BY <3>1, <3>2, <3>3, PathsKept DEF IInv
  <2>2. ASSUME NEW s \in Session, Commit(s)
        PROVE  IInv'
    BY <2>2, CommitTypes, CommitOthers, CommitPaths DEF IInv
  <2>3. CASE Next
    BY <2>2, <2>3, RecordMessageKeeps, BeginRequestKeeps, ReadOrderKeeps, ReadItemKeeps,
       WriteItemKeeps, CommitIgnoredKeeps, AbortKeeps, UpdateStockKeeps DEF Next, Statement
  <2> QED
    BY <2>1, <2>3
<1> QED
  BY InvInit, <1>1, PTL DEF Spec

\* The committed tables and the units of work keep their types for any number of
\* sessions: no stock, reservation or line is negative, although the edits lose
\* updates of each other and callers may send any integer.
THEOREM TypeCorrect == Spec => []TypeOK
<1>1. IInv => TypeOK
  BY DEF IInv
<1> QED
  BY <1>1, InvAlways, PTL

\* The version column does what it is for: however the messages, the requests and
\* the edits of any number of sessions interleave, and whoever aborts, the history
\* of an order is a path of the state machine.
THEOREM HistoryCorrect == Spec => []HistoryIsALegalPath
<1>1. IInv => HistoryIsALegalPath
  <2> SUFFICES ASSUME Paths PROVE HistoryIsALegalPath
    BY DEF IInv
  <2> QED
    BY SameTables DEF Paths, PathOK, HistoryIsALegalPath, Saga!HistoryIsALegalPath
<1> QED
  BY <1>1, InvAlways, PTL
-----------------------------------------------------------------------------
(* Compensation. The facts of ServiceOrderSagaProofs about what the status *)
(* of an order says of its commands hold of the committed tables.          *)

Facts == INSTANCE ServiceOrderSagaProofs WITH
    ServiceId <- {}, services <- [o \in OrderId |-> {}], MessageId <- Message,
    CustomerId <- OrderId, CustomerOf <- [o \in OrderId |-> o], customers <- OrderId

\* What a session read of its order is what its operation expects, and its
\* lines are right for as long as its version is.
ReadsHold ==
    \A s \in Session : Writing(s) /\ tx[s].op.kind # "create" =>
        /\ tx[s].status \in ExpectedStatus(tx[s].op)
        /\ VersionChecked(tx[s].op) /\ s \notin stale => tx[s].lines = items[tx[s].op.order]

\* An updated row is locked: nobody else has it, and the committed row under it
\* is still the one that the WHERE and the CHECKs were evaluated on.
RowsHold ==
    \A s \in Session : Busy(s) =>
        \A i \in DOMAIN tx[s].rows :
            /\ tx[s].at = "write" /\ tx[s].rows[i] = RowAfter(tx[s], i)
            /\ RowFound(tx[s], i) /\ RowCheck(RowAfter(tx[s], i))
            /\ \A u \in Session \ {s} : Busy(u) => i \notin DOMAIN tx[u].rows

\* Two messages that one queue may have handed out at the same time.
Apart(m, n) ==
    IsMessage(m) /\ IsMessage(n) /\ QueueOf(m) = QueueOf(n) => m.order # n.order

\* A message in progress is the only one of its queue for its order, is not
\* recorded yet, and answers a command that was sent; when it was found to come
\* in the wrong status, the order is still not in the status it expects.
MessagesAlone ==
    \A s \in Session : Busy(s) /\ IsMessage(tx[s].op) =>
        /\ tx[s].op \notin processed
        /\ Deliverable(tx[s].op)
        /\ tx[s].at = "ignored" => status[tx[s].op.order] \notin ExpectedStatus(tx[s].op)
        /\ \A u \in Session \ {s} : Busy(u) => Apart(tx[u].op, tx[s].op)

OnlyMessagesAreIgnored ==
    \A s \in Session : Busy(s) /\ tx[s].at = "ignored" => IsMessage(tx[s].op)

\* What an order asked of the participants is decided by its status.
Trails == \A o \in OrderId : Facts!TrailOf(o)

StockCovers == \A i \in ItemId : reserved[i] <= stock[i]

Isolation == /\ ReadsHold /\ RowsHold /\ MessagesAlone /\ OnlyMessagesAreIgnored
             /\ Trails /\ StockCovers
-----------------------------------------------------------------------------
\* The parameters are what ServiceOrderSaga assumes of its own.
LEMMA SagaParameters ==
    /\ [o \in OrderId |-> o] \in [OrderId -> OrderId]
    /\ Quantity \subseteq Int
    /\ StockLevel \subseteq Nat
  BY OperationAssumption

LEMMA FactsType == TypeOK => Facts!TypeOK
  BY DEF TypeOK, Saga!TypeOK, Facts!TypeOK, Saga!OSStatus, Facts!OSStatus, Saga!Lines, Facts!Lines,
     Saga!Command, Facts!Command, Saga!SagaCommandType, Facts!SagaCommandType

LEMMA IsolationInit == Init => Isolation
<1> SUFFICES ASSUME Init PROVE Isolation
  OBVIOUS
<1>1. ReadsHold /\ RowsHold /\ MessagesAlone /\ OnlyMessagesAreIgnored
  BY DEF Init, ReadsHold, RowsHold, MessagesAlone, OnlyMessagesAreIgnored, Writing, Busy
<1>2. Trails
  BY DEF Init, Saga!Init, Trails, Facts!TrailOf, Facts!Sent0, Facts!Paid
<1>3. StockCovers
  <2>1. \A i \in ItemId : stock[i] \in Nat /\ reserved[i] = 0
    BY OperationAssumption DEF Init, Saga!Init
  <2> QED
    BY <2>1 DEF StockCovers
<1> QED
  BY <1>1, <1>2, <1>3 DEF Isolation

\* A session that begins, or goes on, without a commit.
LEMMA StepIsolates ==
    ASSUME IInv, Isolation, NEW s \in Session, NEW t, IsUnit(t), Step(s, t), UNCHANGED tables,
           stale' \in {stale, stale \ {s}},
           t.at \in {"item", "write"} /\ t.op.kind # "create" =>
                /\ t.status \in ExpectedStatus(t.op)
                /\ VersionChecked(t.op) /\ s \notin stale' => t.lines = items[t.op.order],
           \A i \in DOMAIN t.rows :
                /\ t.at = "write" /\ t.rows[i] = RowAfter(t, i) /\ RowFound(t, i) /\ RowCheck(RowAfter(t, i))
                /\ \A u \in Session \ {s} : Busy(u) => i \notin DOMAIN tx[u].rows,
           IsMessage(t.op) =>
                /\ t.op \notin processed /\ Deliverable(t.op)
                /\ \A u \in Session \ {s} :
                      Busy(u) => Apart(tx[u].op, t.op),
           t.at = "ignored" => IsMessage(t.op) /\ status[t.op.order] \notin ExpectedStatus(t.op)
    PROVE  Isolation'
<1>1. /\ DOMAIN tx' = Session /\ tx'[s] = t /\ t # Idle
      /\ \A u \in Session \ {s} : tx'[u] = tx[u]
  BY StepOf, UnitNotIdle DEF IInv
<1>2. UNCHANGED <<status, items, budgetTotal, history, stock, reserved, outbox, processed>>
  BY DEF tables
<1>3. ReadsHold'
  BY <1>1, <1>2 DEF Isolation, ReadsHold, Writing, Busy
<1>4. RowsHold'
  <2>1. ASSUME NEW u \in Session, Busy(u)', NEW i \in DOMAIN tx'[u].rows
        PROVE  /\ tx'[u].at = "write" /\ tx'[u].rows[i] = RowAfter(tx'[u], i)
               /\ RowFound(tx'[u], i) /\ RowCheck(RowAfter(tx'[u], i))
               /\ \A v \in Session \ {u} : Busy(v)' => i \notin DOMAIN tx'[v].rows
    BY <1>1, <2>1 DEF Isolation, RowsHold, Busy
  <2>2. ASSUME NEW u \in Session, NEW i
        PROVE  /\ RowAfter(tx[u], i)' = RowAfter(tx'[u], i)
               /\ RowFound(tx[u], i)' <=> RowFound(tx'[u], i)
    BY <1>2 DEF RowAfter, RowFound
  <2> QED
    BY <2>1, <2>2 DEF RowsHold, RowCheck
<1>5. MessagesAlone' /\ OnlyMessagesAreIgnored'
  <2>1. ASSUME NEW u \in Session, Busy(u)'
        PROVE  /\ IsMessage(tx'[u].op) =>
                    /\ tx'[u].op \notin processed /\ Deliverable(tx'[u].op)
                    /\ tx'[u].at = "ignored" => status[tx'[u].op.order] \notin ExpectedStatus(tx'[u].op)
                    /\ \A v \in Session \ {u} :
                          Busy(v)' => Apart(tx'[v].op, tx'[u].op)
               /\ tx'[u].at = "ignored" => IsMessage(tx'[u].op)
    <3>1. CASE u = s
      BY <1>1, <3>1 DEF Busy
    <3>2. CASE u # s
      <4>1. tx'[u] = tx[u] /\ Busy(u)
        BY <1>1, <2>1, <3>2 DEF Busy
      <4>2. Apart(t.op, tx[u].op)
        BY <3>2, <4>1 DEF Apart, Isolation, MessagesAlone
      <4> QED
        BY <1>1, <3>2, <4>1, <4>2 DEF Isolation, MessagesAlone, OnlyMessagesAreIgnored, Busy
    <3> QED
      BY <3>1, <3>2
  <2>2. ASSUME NEW u \in Session
        PROVE  Deliverable(tx[u].op)' <=> Deliverable(tx'[u].op)
    BY <1>2 DEF Deliverable, Saga!Sent
  <2> QED
    BY <1>2, <2>1, <2>2 DEF MessagesAlone, OnlyMessagesAreIgnored
<1>6. Trails'
  BY <1>2 DEF Isolation, Trails, Facts!TrailOf, Facts!Sent0, Facts!Sent1, Facts!Sent2, Facts!Sent3,
     Facts!Sent4, Facts!Sent5
<1>7. StockCovers'
  BY <1>2 DEF Isolation, StockCovers
<1> QED
  BY <1>3, <1>4, <1>5, <1>6, <1>7 DEF Isolation

LEMMA BegunEmpty == \A op, at : DOMAIN Begun(op, at).rows = {}
  BY DEF Begun

LEMMA RecordMessageIsolates ==
    ASSUME IInv, Isolation, NEW s \in Session, NEW m \in Message, RecordMessage(s, m)
    PROVE  Isolation'
<1> DEFINE t == Begun(m, "read")
<1>1. m \in Operation
  BY DEF Operation
<1>2. /\ IsUnit(t) /\ t.op = m /\ t.at = "read"
      /\ DOMAIN t.rows = {}
  BY <1>1, BegunType, BegunEmpty
<1>3. /\ Step(s, t) /\ UNCHANGED tables /\ stale' = stale
      /\ m \notin processed /\ Deliverable(m)
      /\ \A u \in Session : Busy(u) => Apart(tx[u].op, m)
  BY DEF RecordMessage, NextInQueue, Apart
<1> HIDE DEF t
<1> QED
  BY <1>2, <1>3, StepIsolates

LEMMA BeginRequestIsolates ==
    ASSUME IInv, Isolation, NEW s \in Session, NEW op \in StaffRequest, BeginRequest(s, op)
    PROVE  Isolation'
<1>1. op \in Operation /\ ~ IsMessage(op)
  BY OperationAssumption DEF Operation, IsMessage
<1>2. PICK at \in {"read", "write"} :
         Step(s, Begun(op, at)) /\ (at = "write" => op.kind = "create")
  BY DEF BeginRequest
<1> DEFINE t == Begun(op, at)
<1>3. /\ IsUnit(t) /\ t.op = op /\ t.at = at
      /\ DOMAIN t.rows = {}
  BY <1>1, BegunType, BegunEmpty
<1>4. Step(s, t) /\ UNCHANGED tables /\ stale' = stale
  BY <1>2 DEF BeginRequest
<1> HIDE DEF t
<1> QED
  BY <1>1, <1>2, <1>3, <1>4, StepIsolates

\* A unit of work that goes on with the same operation and the same rows.
LEMMA GoesOnIsolated ==
    ASSUME IInv, Isolation, NEW s \in Session, Busy(s), NEW t, IsUnit(t), Step(s, t),
           UNCHANGED tables, stale' \in {stale, stale \ {s}}, t.op = tx[s].op,
           t.at \in {"item", "write"} /\ t.op.kind # "create" =>
                /\ t.status \in ExpectedStatus(t.op)
                /\ VersionChecked(t.op) /\ s \notin stale' => t.lines = items[t.op.order],
           \A i \in DOMAIN t.rows :
                /\ t.at = "write" /\ t.rows[i] = RowAfter(t, i) /\ RowFound(t, i) /\ RowCheck(RowAfter(t, i))
                /\ \A u \in Session \ {s} : Busy(u) => i \notin DOMAIN tx[u].rows,
           t.at = "ignored" => IsMessage(t.op) /\ status[t.op.order] \notin ExpectedStatus(t.op)
    PROVE  Isolation'
<1>1. IsMessage(t.op) =>
        /\ t.op \notin processed /\ Deliverable(t.op)
        /\ \A u \in Session \ {s} :
              Busy(u) => Apart(tx[u].op, t.op)
  BY DEF Isolation, MessagesAlone
<1> QED
  BY <1>1, StepIsolates

LEMMA ReadOrderIsolates ==
    ASSUME IInv, Isolation, NEW s \in Session, ReadOrder(s)
    PROVE  Isolation'
<1> DEFINE old == tx[s]
           o == old.op.order
           expected == status[o] \in ExpectedStatus(old.op)
           at == CASE ~ expected -> "ignored" [] old.op.kind = "remove" -> "item" [] OTHER -> "write"
           t == [old EXCEPT !.at = at, !.status = status[o], !.lines = items[o]]
<1>1. Busy(s) /\ old.at = "read" /\ Step(s, t) /\ stale' = stale \ {s} /\ UNCHANGED tables
      /\ (IsMessage(old.op) \/ expected)
  BY DEF ReadOrder, Busy, Idle
<1>2. /\ IsUnit(old) /\ o \in OrderId /\ old.op \in Operation
      /\ status[o] \in OSStatus \cup {"NONE"} /\ items[o] \in Saga!Lines
  BY <1>1, UnitType DEF IInv, TypeOK, Saga!TypeOK
<1>3. at \in {"ignored", "item", "write"} /\ (at = "ignored" <=> ~ expected)
  <2> HIDE DEF expected
  <2>1. CASE ~ expected
    BY <1>1, <2>1 DEF IsMessage
  <2>2. CASE expected /\ old.op.kind = "remove"
    BY <2>2
  <2>3. CASE expected /\ old.op.kind # "remove"
    BY <2>3
  <2> QED
    BY <2>1, <2>2, <2>3
<1>4. /\ t.at = at /\ t.status = status[o] /\ t.op = old.op /\ IsUnit(t)
      /\ t.lines = items[o] /\ t.rows = old.rows
  <2>1. old \in UnitOfWork(old.rows)
    BY <1>2 DEF IsUnit
  <2> HIDE DEF at
  <2> QED
    BY <1>2, <1>3, <2>1 DEF IsUnit, UnitOfWork
<1>5. DOMAIN old.rows = {}
  BY <1>1 DEF Isolation, RowsHold
<1> HIDE DEF t, at
<1> QED
  BY <1>1, <1>3, <1>4, <1>5, GoesOnIsolated

LEMMA ReadItemIsolates ==
    ASSUME IInv, Isolation, NEW s \in Session, ReadItem(s)
    PROVE  Isolation'
<1> DEFINE old == tx[s]
           t == [old EXCEPT !.at = "write", !.reservedSeen = reserved[old.op.item]]
<1>1. Busy(s) /\ old.at = "item" /\ Step(s, t) /\ stale' = stale /\ UNCHANGED tables
  BY DEF ReadItem, Busy, Idle
<1>2. /\ old.op.kind = "remove"
      /\ old.status \in ExpectedStatus(old.op)
      /\ VersionChecked(old.op) /\ s \notin stale => old.lines = items[old.op.order]
      /\ DOMAIN old.rows = {}
  BY <1>1 DEF IInv, WritersFoundIt, Isolation, ReadsHold, RowsHold, Writing
<1>3. IsUnit(old) /\ old.op.item \in ItemId
  BY <1>1, <1>2, UnitType, OperationType DEF IInv
<1>4. reserved[old.op.item] \in Nat
  BY <1>3 DEF IInv, TypeOK, Saga!TypeOK
<1>5. /\ IsUnit(t) /\ t.op = old.op /\ t.at = "write" /\ t.status = old.status
      /\ t.lines = old.lines /\ t.rows = old.rows
  BY <1>3, <1>4 DEF IsUnit, UnitOfWork
<1> HIDE DEF t
<1> QED
  BY <1>1, <1>2, <1>5, GoesOnIsolated

\* The row an UPDATE computes depends on what was read, not on the rows it has.
LEMMA WriteItemIsolates ==
    ASSUME IInv, Isolation, NEW s \in Session, NEW i \in ItemId, WriteItem(s, i)
    PROVE  Isolation'
<1> DEFINE old == tx[s]
           row == RowAfter(old, i)
           rows == [j \in DOMAIN old.rows \cup {i} |-> IF j = i THEN row ELSE old.rows[j]]
           t == [old EXCEPT !.rows = rows]
<1>1. Busy(s) /\ old.at = "write" /\ Step(s, t) /\ stale' = stale /\ UNCHANGED tables
      /\ i \in Touched(old) /\ RowFound(old, i) /\ RowCheck(row) /\ ~ Locked(i)
  BY DEF WriteItem, Busy, Idle
<1>2. IsUnit(old) /\ row \in [stock : Nat, reserved : Nat]
  BY <1>1, UnitType, RowType DEF IInv
<1>3. /\ DOMAIN rows = DOMAIN old.rows \cup {i} /\ DOMAIN rows \subseteq ItemId
      /\ rows[i] = row /\ \A j \in DOMAIN old.rows \ {i} : rows[j] = old.rows[j]
      /\ \A j \in DOMAIN rows : rows[j] \in [stock : Nat, reserved : Nat]
  <2> HIDE DEF row
  <2> QED
    BY <1>2 DEF IsUnit
<1> HIDE DEF rows
<1>4. /\ IsUnit(t) /\ t.op = old.op /\ t.at = "write" /\ t.status = old.status
      /\ t.lines = old.lines /\ t.rows = rows /\ t.reservedSeen = old.reservedSeen
  BY <1>1, <1>2, <1>3 DEF IsUnit, UnitOfWork
<1>5. /\ t.op.kind # "create" =>
            /\ t.status \in ExpectedStatus(t.op)
            /\ VersionChecked(t.op) /\ s \notin stale' => t.lines = items[t.op.order]
  BY <1>1, <1>4 DEF Isolation, ReadsHold, Writing
<1> HIDE DEF t
<1>6. \A j : RowAfter(t, j) = RowAfter(old, j) /\ (RowFound(t, j) <=> RowFound(old, j))
  BY <1>4 DEF RowAfter, RowFound, Amount
<1>7. ASSUME NEW j \in DOMAIN t.rows
      PROVE  /\ t.at = "write" /\ t.rows[j] = RowAfter(t, j) /\ RowFound(t, j) /\ RowCheck(RowAfter(t, j))
             /\ \A u \in Session \ {s} : Busy(u) => j \notin DOMAIN tx[u].rows
  <2>1. CASE j = i
    BY <1>1, <1>3, <1>4, <1>6, <2>1 DEF Locked
  <2>2. CASE j # i
    BY <1>1, <1>3, <1>4, <1>6, <2>2 DEF Isolation, RowsHold
  <2> QED
    BY <2>1, <2>2
<1> QED
  BY <1>1, <1>4, <1>5, <1>7, GoesOnIsolated

\* A session that is idle again without having written anything but a message id.
LEMMA EndIsolates ==
    ASSUME IInv, Isolation, NEW s \in Session, Busy(s), Step(s, Idle), stale' = stale \ {s},
           \/ processed' = processed
           \/ IsMessage(tx[s].op) /\ processed' = processed \cup {tx[s].op},
           UNCHANGED <<status, items, budgetTotal, history, stock, reserved, outbox>>
    PROVE  Isolation'
<1>1. /\ DOMAIN tx' = Session /\ tx'[s] = Idle
      /\ \A u \in Session \ {s} : tx'[u] = tx[u]
  BY StepOf DEF IInv
<1>2. ReadsHold'
  BY <1>1 DEF Isolation, ReadsHold, Writing, Busy
<1>3. RowsHold'
  <2>1. ASSUME NEW u \in Session, Busy(u)', NEW i \in DOMAIN tx'[u].rows
        PROVE  /\ tx'[u].at = "write" /\ tx'[u].rows[i] = RowAfter(tx'[u], i)
               /\ RowFound(tx'[u], i) /\ RowCheck(RowAfter(tx'[u], i))
               /\ \A v \in Session \ {u} : Busy(v)' => i \notin DOMAIN tx'[v].rows
    BY <1>1, <2>1 DEF Isolation, RowsHold, Busy
  <2>2. ASSUME NEW u \in Session, NEW i
        PROVE  /\ RowAfter(tx[u], i)' = RowAfter(tx'[u], i)
               /\ RowFound(tx[u], i)' <=> RowFound(tx'[u], i)
    BY DEF RowAfter, RowFound
  <2> QED
    BY <2>1, <2>2 DEF RowsHold, RowCheck
<1>4. MessagesAlone' /\ OnlyMessagesAreIgnored'
  <2>1. ASSUME NEW u \in Session, Busy(u)'
        PROVE  /\ IsMessage(tx'[u].op) =>
                    /\ tx'[u].op \notin processed' /\ Deliverable(tx'[u].op)
                    /\ tx'[u].at = "ignored" => status[tx'[u].op.order] \notin ExpectedStatus(tx'[u].op)
                    /\ \A v \in Session \ {u} :
                          Busy(v)' => Apart(tx'[v].op, tx'[u].op)
               /\ tx'[u].at = "ignored" => IsMessage(tx'[u].op)
    <3>1. u # s /\ tx'[u] = tx[u] /\ Busy(u)
      BY <1>1, <2>1 DEF Busy
    <3>2. IsMessage(tx[u].op) => tx[u].op \notin processed'
      <4>1. IsMessage(tx[u].op) => tx[u].op # tx[s].op
        BY <1>1, <3>1 DEF Apart, Isolation, MessagesAlone
      <4> QED
        BY <3>1, <4>1 DEF Isolation, MessagesAlone
    <3> QED
      BY <1>1, <3>1, <3>2 DEF Isolation, MessagesAlone, OnlyMessagesAreIgnored, Busy
  <2>2. ASSUME NEW u \in Session
        PROVE  Deliverable(tx[u].op)' <=> Deliverable(tx'[u].op)
    BY DEF Deliverable, Saga!Sent
  <2> QED
    BY <2>1, <2>2 DEF MessagesAlone, OnlyMessagesAreIgnored
<1>5. Trails'
  BY DEF Isolation, Trails, Facts!TrailOf, Facts!Sent0, Facts!Sent1, Facts!Sent2, Facts!Sent3,
     Facts!Sent4, Facts!Sent5
<1>6. StockCovers'
  BY DEF Isolation, StockCovers
<1> QED
  BY <1>2, <1>3, <1>4, <1>5, <1>6 DEF Isolation

LEMMA CommitIgnoredIsolates ==
    ASSUME IInv, Isolation, NEW s \in Session, CommitIgnored(s)
    PROVE  Isolation'
<1>1. Busy(s)
  BY DEF CommitIgnored, Busy, Idle
<1> QED
  BY <1>1, EndIsolates DEF CommitIgnored, Recorded

LEMMA AbortIsolates ==
    ASSUME IInv, Isolation, NEW s \in Session, Abort(s)
    PROVE  Isolation'
  BY EndIsolates DEF Abort, tables

LEMMA UpdateStockIsolates ==
    ASSUME IInv, Isolation, NEW i \in ItemId, NEW n \in StockLevel, UpdateStock(i, n)
    PROVE  Isolation'
<1>1. UNCHANGED <<status, items, budgetTotal, history, reserved, outbox, processed, tx, stale>>
  BY DEF UpdateStock
<1>2. \A j \in ItemId : stock'[j] = IF j = i THEN n ELSE stock[j]
  BY DEF UpdateStock, IInv, TypeOK, Saga!TypeOK
<1>3. ReadsHold'
  BY <1>1 DEF Isolation, ReadsHold, Writing, Busy
<1>4. RowsHold'
  <2> SUFFICES ASSUME NEW u \in Session, Busy(u), NEW j \in DOMAIN tx[u].rows
               PROVE  /\ tx[u].at = "write" /\ tx[u].rows[j] = RowAfter(tx[u], j)'
                      /\ RowFound(tx[u], j)' /\ RowCheck(RowAfter(tx[u], j)')
                      /\ \A v \in Session \ {u} : Busy(v) => j \notin DOMAIN tx[v].rows
    BY <1>1 DEF RowsHold, Busy, RowCheck
  <2>1. j # i /\ j \in ItemId
    BY UnitType DEF UpdateStock, Locked, IInv, IsUnit
  <2>2. stock'[j] = stock[j] /\ reserved'[j] = reserved[j] /\ tx'[u] = tx[u]
    BY <1>1, <1>2, <2>1
  <2>3. /\ RowAfter(tx[u], j)' = RowAfter(tx[u], j)
        /\ RowFound(tx[u], j)' <=> RowFound(tx[u], j)
    BY <2>2 DEF RowAfter, RowFound
  <2> QED
    BY <2>3 DEF Isolation, RowsHold
<1>5. MessagesAlone' /\ OnlyMessagesAreIgnored'
  BY <1>1 DEF Isolation, MessagesAlone, OnlyMessagesAreIgnored, Busy, Deliverable, Saga!Sent
<1>6. Trails'
  BY <1>1 DEF Isolation, Trails, Facts!TrailOf, Facts!Sent0, Facts!Sent1, Facts!Sent2, Facts!Sent3,
     Facts!Sent4, Facts!Sent5
<1>7. StockCovers'
  <2>1. n \in Nat
    BY OperationAssumption
  <2> QED
    BY <1>1, <1>2, <2>1 DEF UpdateStock, Isolation, StockCovers
<1> QED
  BY <1>3, <1>4, <1>5, <1>6, <1>7 DEF Isolation
-----------------------------------------------------------------------------
(* The commit.                                                             *)

\* What a session knows of its order when it commits.
LEMMA CommitKnows ==
    ASSUME IInv, Isolation, NEW s \in Session, Commit(s)
    PROVE  LET t == tx[s]
               op == tx[s].op
               o == op.order IN
           /\ Busy(s) /\ t.at = "write" /\ o \in OrderId /\ op \in Operation
           /\ t.lines \in Saga!Lines
           /\ DOMAIN t.rows = Touched(t)
           /\ op.kind # "create" => t.status \in ExpectedStatus(op) /\ status[o] # "NONE"
           /\ op.kind = "create" => status[o] = "NONE" /\ NewStatus(op, status[o]) = "RECEIVED"
           /\ VersionChecked(op) => /\ s \notin stale /\ t.status = status[o] /\ t.lines = items[o]
                                    /\ status[o] \in ExpectedStatus(op)
                                    /\ NewStatus(op, status[o]) # status[o]
                                          => canTransition(status[o], NewStatus(op, status[o]))
           /\ status'[o] = NewStatus(op, status[o])
           /\ Facts!Send(o, Commands(op, t.lines))
           /\ \A p \in OrderId \ {o} : status'[p] = status[p] /\ outbox'[p] = outbox[p]
<1> DEFINE t == tx[s]
           op == tx[s].op
           o == op.order
<1>1. Busy(s) /\ t.at = "write" /\ Writing(s) /\ DOMAIN t.rows = Touched(t)
  BY DEF Commit, CommitOf, Busy, Idle, Writing
<1>2. op \in Operation /\ o \in OrderId /\ t.lines \in Saga!Lines
  BY <1>1, UnitType DEF IInv
<1>3. /\ status' = [status EXCEPT ![o] = NewStatus(op, status[o])]
      /\ op.kind = "create" => status[o] = "NONE" /\ NewStatus(op, status[o]) = "RECEIVED"
      /\ op.kind # "create" => status[o] # "NONE"
      /\ NewStatus(op, status[o]) # status[o] /\ op.kind # "create"
            => canTransition(status[o], NewStatus(op, status[o]))
  BY CommitMoves
<1>4. op.kind # "create" => t.status \in ExpectedStatus(op)
  BY <1>1 DEF Isolation, ReadsHold
<1>5. VersionChecked(op) =>
         /\ s \notin stale /\ t.status = status[o] /\ t.lines = items[o] /\ op.kind # "create"
  BY <1>1 DEF Commit, CommitOf, IInv, VersionsHold, Isolation, ReadsHold, VersionChecked
<1>6. outbox' = [outbox EXCEPT ![o] = @ \o Commands(op, t.lines)]
  BY DEF Commit, CommitOf
<1>7. \A p \in OrderId \ {o} : status'[p] = status[p] /\ outbox'[p] = outbox[p]
  BY <1>3, <1>6 DEF IInv, TypeOK, Saga!TypeOK
<1>8. status'[o] = NewStatus(op, status[o])
  BY <1>2, <1>3 DEF IInv, TypeOK, Saga!TypeOK
<1> QED
  BY <1>1, <1>2, <1>3, <1>4, <1>5, <1>6, <1>7, <1>8 DEF Facts!Send

\* A command without a payload, in both instances.
LEMMA PlainCommands ==
    ASSUME NEW type \in SagaCommandType
    PROVE  /\ Saga!Cmd(type) = Facts!Cmd(type)
           /\ Saga!Cmd(type) \in Facts!Command /\ Saga!Cmd(type).type = type
<1>1. Saga!Cmd(type) = Facts!Cmd(type) /\ Saga!Cmd(type).type = type
  BY DEF Saga!Cmd, Facts!Cmd, Saga!NoLines, Facts!NoLines
<1>2. Facts!NoLines \in Facts!Lines /\ Facts!SagaCommandType = SagaCommandType
  BY DEF Facts!NoLines, Facts!Lines, Facts!SagaCommandType, SagaCommandType
<1> QED
  BY <1>1, <1>2 DEF Facts!Cmd, Facts!Command

\* A budget request with the lines to price.
LEMMA PricedCommand ==
    ASSUME NEW lines \in Saga!Lines
    PROVE  LET command == [Saga!Cmd("GenerateBudget") EXCEPT !.items = lines]
           IN command \in Facts!Command /\ command.type = "GenerateBudget"
<1>1. Facts!SagaCommandType = SagaCommandType /\ lines \in Facts!Lines
  BY DEF Facts!SagaCommandType, SagaCommandType, Facts!Lines, Saga!Lines
<1>2. "GenerateBudget" \in SagaCommandType
  BY DEF SagaCommandType
<1> QED
  BY <1>1, <1>2 DEF Saga!Cmd, Facts!Command

\* The commands of the order that is committed follow its status.
LEMMA CommitTrail ==
    ASSUME IInv, Isolation, NEW s \in Session, Commit(s)
    PROVE  Trails'
<1>0. PICK o \in OrderId, op \in Operation, lines \in Saga!Lines :
         o = tx[s].op.order /\ op = tx[s].op /\ lines = tx[s].lines
  BY CommitKnows
<1>1. /\ op.kind # "create" => status[o] # "NONE"
      /\ op.kind = "create" => status[o] = "NONE" /\ NewStatus(op, status[o]) = "RECEIVED"
      /\ VersionChecked(op) => status[o] \in ExpectedStatus(op)
      /\ status'[o] = NewStatus(op, status[o])
      /\ Facts!Send(o, Commands(op, lines))
      /\ \A p \in OrderId \ {o} : status'[p] = status[p] /\ outbox'[p] = outbox[p]
  BY <1>0, CommitKnows
<1>2. Facts!TypeOK /\ Facts!TrailOf(o) /\ outbox[o] \in Seq(Saga!Command)
  BY <1>0, FactsType DEF IInv, TypeOK, Saga!TypeOK, Isolation, Trails
<1>3. ASSUME NEW p \in OrderId, p # o
      PROVE  Facts!TrailOf(p)'
  <2>1. Facts!TrailOf(p) /\ status'[p] = status[p] /\ outbox'[p] = outbox[p]
    BY <1>1, <1>3 DEF Isolation, Trails
  <2> QED
    BY <2>1, SagaParameters, Facts!TrailOfKept
<1> SUFFICES Facts!TrailOf(o)'
  BY <1>3 DEF Trails
<1>4. ASSUME Commands(op, lines) = <<>>,
             \/ status'[o] = status[o]
             \/ status[o] = "RECEIVED" /\ status'[o] = "DIAGNOSIS"
             \/ status[o] = "RECEIVED" /\ status'[o] = "CANCELLED"
             \/ status[o] \in Facts!Paid /\ status'[o] \in Facts!Paid
      PROVE  Facts!TrailOf(o)'
  <2>1. outbox'[o] = outbox[o]
    BY <1>1, <1>2, <1>4 DEF Facts!Send, IInv, TypeOK, Saga!TypeOK
  <2> QED
    BY <1>1, <1>2, <1>4, <2>1, SagaParameters, Facts!TrailOfKept
<1>5. CASE op.kind = "create"
  <2>1. Facts!Cmd("EnqueueDiagnosis") \in Facts!Command /\ Facts!Cmd("EnqueueDiagnosis").type = "EnqueueDiagnosis"
        /\ Commands(op, lines) = <<Facts!Cmd("EnqueueDiagnosis")>>
    BY <1>5, PlainCommands DEF Commands, SagaCommandType
  <2>2. Len(outbox[o]) = 0
    BY <1>1, <1>2, <1>5 DEF Facts!TrailOf, Facts!Sent0
  <2>3. Len(outbox'[o]) = 1 /\ outbox'[o][1] = Facts!Cmd("EnqueueDiagnosis")
    <3>1. Facts!Send(o, <<Facts!Cmd("EnqueueDiagnosis")>>)
      BY <1>1, <2>1
    <3>2. /\ Len(outbox'[o]) = Len(outbox[o]) + 1
          /\ outbox'[o][Len(outbox[o]) + 1] = Facts!Cmd("EnqueueDiagnosis")
      BY <1>2, <2>1, <3>1, SagaParameters, Facts!SendOne
    <3> QED
      BY <2>2, <3>2
  <2> QED
    BY <1>1, <1>5, <2>1, <2>3 DEF Facts!TrailOf, Facts!Sent1, Facts!Paid
<1>6. CASE op.kind = "deliver"
  <2>1. status[o] = "FINISHED" /\ status'[o] = "DELIVERED"
    BY <1>1, <1>6 DEF VersionChecked, WritesOrder, ExpectedStatus, NewStatus, canTransition,
       VALID_TRANSITIONS, OSStatus
  <2>2. Commands(op, lines) = <<>>
    BY <1>6 DEF Commands
  <2> QED
    BY <1>4, <2>1, <2>2 DEF Facts!Paid
<1>7. CASE op.kind \in {"add", "remove"}
  BY <1>1, <1>4, <1>7 DEF NewStatus, Commands
\* one command for an order that moves on
<1>8. ASSUME NEW command \in Facts!Command, Commands(op, lines) = <<command>>,
             \/ /\ status[o] = "DIAGNOSIS" /\ status'[o] = "WAITING_APPROVAL"
                /\ command.type = "GenerateBudget"
             \/ /\ status[o] = "WAITING_APPROVAL" /\ status'[o] = "APPROVED"
                /\ command.type = "RequestPayment"
             \/ /\ status[o] = "WAITING_APPROVAL" /\ status'[o] \in {"REJECTED", "CANCELLED"}
                /\ command.type = "CancelExecution"
             \/ /\ status[o] = "APPROVED" /\ status'[o] = "PAID"
                /\ command.type = "EnqueueRepair"
      PROVE  Facts!TrailOf(o)'
  BY <1>1, <1>2, <1>8, SagaParameters, Facts!TrailOfExtended
<1>9. ASSUME Commands(op, lines) = <<Saga!Cmd("CancelExecution"), Saga!Cmd("CancelBudget")>>,
             status[o] = "APPROVED", status'[o] = "CANCELLED"
      PROVE  Facts!TrailOf(o)'
  <2>1. Facts!Send(o, <<Facts!Cmd("CancelExecution"), Facts!Cmd("CancelBudget")>>)
    BY <1>1, <1>9, PlainCommands DEF SagaCommandType
  <2> QED
    BY <1>2, <1>9, <2>1, SagaParameters, Facts!TrailOfCompensated
<1>10. CASE op.kind = "reply"
  <2>1. op.type \in SagaReplyType
    BY <1>10, OperationType
  <2>2. CASE op.type = "DiagnosisStarted"
    BY <1>1, <1>4, <1>10, <2>2 DEF VersionChecked, WritesOrder, ExpectedStatus, EXPECTED_STATUS,
       NewStatus, Saga!Target, Commands
  <2>3. CASE op.type = "DiagnosisCompleted"
    <3>1. status[o] = "DIAGNOSIS" /\ status'[o] = "WAITING_APPROVAL"
      BY <1>1, <1>10, <2>3 DEF VersionChecked, WritesOrder, ExpectedStatus, EXPECTED_STATUS,
         NewStatus, Saga!Target
    <3>2. Commands(op, lines) = <<[Saga!Cmd("GenerateBudget") EXCEPT !.items = lines]>>
      BY <1>10, <2>3 DEF Commands
    <3> QED
      BY <1>8, <3>1, <3>2, PricedCommand
  <2>4. CASE op.type = "BudgetGenerated"
    BY <1>1, <1>4, <1>10, <2>4 DEF NewStatus, Saga!Target, Commands
  <2>5. CASE op.type = "BudgetApproved"
    <3>1. status[o] = "WAITING_APPROVAL" /\ status'[o] = "APPROVED"
      BY <1>1, <1>10, <2>5 DEF VersionChecked, WritesOrder, ExpectedStatus, EXPECTED_STATUS,
         NewStatus, Saga!Target
    <3>2. Commands(op, lines) = <<Saga!Cmd("RequestPayment")>>
      BY <1>10, <2>5 DEF Commands
    <3> QED
      BY <1>8, <3>1, <3>2, PlainCommands DEF SagaCommandType
  <2>6. CASE op.type = "BudgetRejected"
    <3>1. status[o] = "WAITING_APPROVAL" /\ status'[o] = "REJECTED"
      BY <1>1, <1>10, <2>6 DEF VersionChecked, WritesOrder, ExpectedStatus, EXPECTED_STATUS,
         NewStatus, Saga!Target
    <3>2. Commands(op, lines) = <<Saga!Cmd("CancelExecution")>>
      BY <1>10, <2>6 DEF Commands
    <3> QED
      BY <1>8, <3>1, <3>2, PlainCommands DEF SagaCommandType
  <2>7. CASE op.type = "PaymentConfirmed"
    <3>1. status[o] = "APPROVED" /\ status'[o] = "PAID"
      BY <1>1, <1>10, <2>7 DEF VersionChecked, WritesOrder, ExpectedStatus, EXPECTED_STATUS,
         NewStatus, Saga!Target
    <3>2. Commands(op, lines) = <<Saga!Cmd("EnqueueRepair")>>
      BY <1>10, <2>7 DEF Commands
    <3> QED
      BY <1>8, <3>1, <3>2, PlainCommands DEF SagaCommandType
  <2>8. CASE op.type = "PaymentFailed"
    BY <1>1, <1>9, <1>10, <2>8 DEF VersionChecked, WritesOrder, ExpectedStatus, EXPECTED_STATUS,
       NewStatus, Saga!Target, Commands
  <2>9. CASE op.type = "RepairStarted"
    BY <1>1, <1>4, <1>10, <2>9 DEF VersionChecked, WritesOrder, ExpectedStatus, EXPECTED_STATUS,
       NewStatus, Saga!Target, Commands, Facts!Paid
  <2>10. CASE op.type = "RepairCompleted"
    BY <1>1, <1>4, <1>10, <2>10 DEF VersionChecked, WritesOrder, ExpectedStatus, EXPECTED_STATUS,
       NewStatus, Saga!Target, Commands, Facts!Paid
  <2>11. CASE op.type \in {"ExecutionCancelled", "BudgetCancelled"}
    BY <1>1, <1>4, <1>10, <2>11 DEF NewStatus, Saga!Target, Commands
  <2> QED
    BY <2>1, <2>2, <2>3, <2>4, <2>5, <2>6, <2>7, <2>8, <2>9, <2>10, <2>11 DEF SagaReplyType
<1>11. CASE op.kind = "dead"
  <2>1. CASE op.type = "EnqueueDiagnosis"
    BY <1>1, <1>4, <1>11, <2>1 DEF VersionChecked, WritesOrder, Compensable, ExpectedStatus,
       ExpectedOfFailed, NewStatus, Commands, Saga!CancelCommands
  <2>2. CASE op.type = "GenerateBudget"
    <3>1. status[o] = "WAITING_APPROVAL" /\ status'[o] = "CANCELLED"
      BY <1>1, <1>11, <2>2 DEF VersionChecked, WritesOrder, Compensable, ExpectedStatus,
         ExpectedOfFailed, NewStatus
    <3>2. Commands(op, lines) = <<Saga!Cmd("CancelExecution")>>
      BY <1>11, <2>2 DEF Commands, Compensable, Saga!CancelCommands
    <3> QED
      BY <1>8, <3>1, <3>2, PlainCommands DEF SagaCommandType
  <2>3. CASE op.type = "RequestPayment"
    BY <1>1, <1>9, <1>11, <2>3 DEF VersionChecked, WritesOrder, Compensable, ExpectedStatus,
       ExpectedOfFailed, NewStatus, Commands, Saga!CancelCommands
  <2>4. CASE op.type \notin Compensable
    BY <1>1, <1>4, <1>11, <2>4 DEF NewStatus, Commands
  <2> QED
    BY <2>1, <2>2, <2>3, <2>4 DEF Compensable
<1> QED
  BY <1>5, <1>6, <1>7, <1>10, <1>11, OperationType

\* What a command that was sent says of the status of its order.
LEMMA SentSays ==
    ASSUME IInv, Isolation, NEW o \in OrderId, NEW c \in Saga!Sent(o)
    PROVE  /\ status[o] \in OSStatus
           /\ c = "GenerateBudget" => status[o] # "DIAGNOSIS"
           /\ c = "RequestPayment" => status[o] \notin {"DIAGNOSIS", "WAITING_APPROVAL"}
           /\ c = "EnqueueRepair" => status[o] \notin {"DIAGNOSIS", "WAITING_APPROVAL", "APPROVED"}
           /\ c = "CancelExecution" => status[o] \in {"REJECTED", "CANCELLED"}
           /\ c = "CancelBudget" => status[o] = "CANCELLED"
<1>1. Facts!TypeOK /\ Facts!TrailOf(o) /\ c \in Facts!Sent(o) /\ status[o] \in OSStatus \cup {"NONE"}
  BY FactsType, SameTables DEF IInv, TypeOK, Saga!TypeOK, Isolation, Trails, Saga!Sent, Facts!Sent
<1>2. /\ Facts!Sent0(o) => Facts!Sent(o) = {}
      /\ Facts!Sent1(o) => Facts!Sent(o) = {"EnqueueDiagnosis"}
      /\ Facts!Sent2(o) => Facts!Sent(o) = {"EnqueueDiagnosis", "GenerateBudget"}
      /\ \A last : Facts!Sent3(o, last) => Facts!Sent(o) = {"EnqueueDiagnosis", "GenerateBudget", last}
      /\ Facts!Sent4(o) => Facts!Sent(o) = {"EnqueueDiagnosis", "GenerateBudget", "RequestPayment",
                                            "EnqueueRepair"}
      /\ Facts!Sent5(o) => Facts!Sent(o) = {"EnqueueDiagnosis", "GenerateBudget", "RequestPayment",
                                            "CancelExecution", "CancelBudget"}
  BY <1>1, SagaParameters, Facts!TrailTypes
<1>3. CASE status[o] = "NONE"
  BY <1>1, <1>2, <1>3 DEF Facts!TrailOf
<1>4. CASE status[o] \in {"RECEIVED", "DIAGNOSIS"}
  BY <1>1, <1>2, <1>4 DEF Facts!TrailOf, OSStatus
<1>5. CASE status[o] = "WAITING_APPROVAL"
  BY <1>1, <1>2, <1>5 DEF Facts!TrailOf, OSStatus
<1>6. CASE status[o] = "APPROVED"
  BY <1>1, <1>2, <1>6 DEF Facts!TrailOf, OSStatus
<1>7. CASE status[o] \in Facts!Paid
  BY <1>1, <1>2, <1>7 DEF Facts!TrailOf, Facts!Paid, OSStatus
<1>8. CASE status[o] = "REJECTED"
  BY <1>1, <1>2, <1>8 DEF Facts!TrailOf, OSStatus
<1>9. CASE status[o] = "CANCELLED"
  BY <1>1, <1>2, <1>9 DEF Facts!TrailOf, OSStatus
<1> QED
  BY <1>1, <1>3, <1>4, <1>5, <1>6, <1>7, <1>8, <1>9 DEF OSStatus, Facts!Paid

\* A message found in the wrong status stays in the wrong status: the other
\* messages of its queue wait, and nobody else moves the order where it expects it.
LEMMA NeverExpectedAgain ==
    ASSUME IInv, Isolation, NEW s \in Session, Commit(s), NEW u \in Session \ {s}, Busy(u),
           IsMessage(tx[u].op), status[tx[u].op.order] \notin ExpectedStatus(tx[u].op),
           tx[u].op.order = tx[s].op.order
    PROVE  status'[tx[u].op.order] \notin ExpectedStatus(tx[u].op)
<1>0. PICK o \in OrderId, op \in Operation, m \in Message :
         o = tx[s].op.order /\ op = tx[s].op /\ m = tx[u].op /\ m.order = o
  BY CommitKnows, UnitType, OperationType DEF IInv, Operation
<1>1. /\ op.kind # "create" => status[o] # "NONE"
      /\ op.kind = "create" => status[o] = "NONE"
      /\ VersionChecked(op) /\ NewStatus(op, status[o]) # status[o]
            => canTransition(status[o], NewStatus(op, status[o]))
      /\ status'[o] = NewStatus(op, status[o])
      /\ Busy(s)
  BY <1>0, CommitKnows
<1>2. /\ Deliverable(m) /\ status[o] \notin ExpectedStatus(m) /\ Apart(op, m)
  BY <1>0, <1>1 DEF Isolation, MessagesAlone
<1>3. m \in Operation /\ m.kind \in {"reply", "dead"}
      /\ (m.kind = "reply" => m.type \in SagaReplyType)
      /\ (m.kind = "dead" => m.type \in SagaCommandType)
  BY <1>0, OperationType, OperationAssumption DEF Operation
<1> DEFINE c == IF m.kind = "dead" THEN m.type ELSE Answered(m.type)
<1>4. c \in Saga!Sent(o)
  BY <1>0, <1>2 DEF Deliverable
<1> HIDE DEF c
<1>5. /\ status[o] \in OSStatus
      /\ c = "GenerateBudget" => status[o] # "DIAGNOSIS"
      /\ c = "RequestPayment" => status[o] \notin {"DIAGNOSIS", "WAITING_APPROVAL"}
      /\ c = "EnqueueRepair" => status[o] \notin {"DIAGNOSIS", "WAITING_APPROVAL", "APPROVED"}
      /\ c = "CancelExecution" => status[o] \in {"REJECTED", "CANCELLED"}
      /\ c = "CancelBudget" => status[o] = "CANCELLED"
  BY <1>4, SentSays
<1>6. op.kind # "create"
  BY <1>1, <1>5, NoneIsNoStatus
<1> SUFFICES ASSUME status'[o] # status[o] PROVE status'[o] \notin ExpectedStatus(m)
  BY <1>0, <1>2
<1>7. op.kind # "create" /\ VersionChecked(op) /\ canTransition(status[o], status'[o])
  BY <1>1, <1>5, <1>6, NewStatusType
<1>8. CASE m.kind = "reply"
  <2>1. status'[o] \in {"CANCELLED", "DELIVERED"}
    <3>1. op.kind # "reply"
      BY <1>0, <1>2, <1>8 DEF Apart, IsMessage, QueueOf
    <3> QED
      BY <1>1, <1>6, <3>1, OperationType DEF NewStatus
  <2>2. m.type = "ExecutionCancelled" => status[o] \in {"REJECTED", "CANCELLED"}
    BY <1>5, <1>8 DEF c, Answered
  <2>3. m.type = "BudgetCancelled" => status[o] = "CANCELLED"
    BY <1>5, <1>8 DEF c, Answered
  <2> QED
    BY <1>2, <1>3, <1>8, <2>1, <2>2, <2>3 DEF ExpectedStatus, EXPECTED_STATUS, SagaReplyType
<1>9. CASE m.kind = "dead"
  <2>1. c = m.type
    BY <1>9 DEF c
  <2>2. m.type \notin {"CancelExecution", "CancelBudget"}
    BY <1>2, <1>5, <1>9 DEF ExpectedStatus, ExpectedOfFailed
  <2>3. /\ status'[o] # "RECEIVED"
        /\ status'[o] = "WAITING_APPROVAL" => status[o] = "DIAGNOSIS"
        /\ status'[o] = "APPROVED" => status[o] = "WAITING_APPROVAL"
        /\ status'[o] = "PAID" => status[o] = "APPROVED"
    BY <1>7 DEF canTransition, VALID_TRANSITIONS, OSStatus
  <2> QED
    BY <1>3, <1>5, <1>9, <2>1, <2>2, <2>3 DEF ExpectedStatus, ExpectedOfFailed, SagaCommandType
<1> QED
  BY <1>3, <1>8, <1>9

\* What was sent stays sent.
LEMMA SentGrows ==
    ASSUME IInv, Isolation, NEW s \in Session, Commit(s), NEW p \in OrderId
    PROVE  Saga!Sent(p) \subseteq Saga!Sent(p)'
<1>0. PICK o \in OrderId, op \in Operation, lines \in Saga!Lines :
         o = tx[s].op.order /\ op = tx[s].op /\ lines = tx[s].lines
  BY CommitKnows
<1>1. Facts!Send(o, Commands(op, lines)) /\ (p # o => outbox'[p] = outbox[p])
  BY <1>0, CommitKnows
<1>2. Commands(op, lines) \in Seq(Saga!Command) /\ outbox[o] \in Seq(Saga!Command)
  BY CommandsType DEF IInv, TypeOK, Saga!TypeOK
<1>3. CASE p # o
  BY <1>1, <1>3 DEF Saga!Sent
<1>4. CASE p = o
  <2>1. outbox'[o] = outbox[o] \o Commands(op, lines)
    BY <1>1 DEF Facts!Send, IInv, TypeOK, Saga!TypeOK
  <2>2. \A k \in DOMAIN outbox[o] : k \in DOMAIN outbox'[o] /\ outbox'[o][k] = outbox[o][k]
    BY <1>2, <2>1
  <2> QED
    BY <1>4, <2>2 DEF Saga!Sent
<1> QED
  BY <1>3, <1>4

LEMMA CommitIsolates ==
    ASSUME IInv, Isolation, NEW s \in Session, Commit(s)
    PROVE  Isolation'
<1>0. PICK o \in OrderId, op \in Operation :
         /\ o = tx[s].op.order /\ op = tx[s].op /\ Busy(s) /\ tx[s].at = "write"
         /\ \A p \in OrderId \ {o} : status'[p] = status[p]
  BY CommitKnows
<1>1. /\ DOMAIN tx' = Session /\ tx'[s] = Idle
      /\ \A u \in Session \ {s} : tx'[u] = tx[u]
  BY StepOf DEF IInv, Commit, CommitOf
<1>2. ASSUME NEW u \in Session, Busy(u)'
      PROVE  u # s /\ tx'[u] = tx[u] /\ Busy(u) /\ tx[u].op.order \in OrderId /\ IsUnit(tx[u])
             /\ tx[u].op \in Operation
  <2>1. u # s /\ tx'[u] = tx[u] /\ Busy(u)
    BY <1>1, <1>2 DEF Busy
  <2> QED
    BY <2>1, UnitType DEF IInv
<1>3. ReadsHold'
  <2> SUFFICES ASSUME NEW u \in Session, Busy(u)', tx[u].at \in {"item", "write"},
                      tx[u].op.kind # "create"
               PROVE  /\ tx[u].status \in ExpectedStatus(tx[u].op)
                      /\ VersionChecked(tx[u].op) /\ u \notin stale' =>
                            tx[u].lines = items'[tx[u].op.order]
    BY <1>2 DEF ReadsHold, Writing
  <2>1. /\ tx[u].status \in ExpectedStatus(tx[u].op)
        /\ VersionChecked(tx[u].op) /\ u \notin stale => tx[u].lines = items[tx[u].op.order]
    BY <1>2 DEF Isolation, ReadsHold, Writing
  <2>2. /\ stale' = (stale \ {s}) \cup
                       {v \in Session \ {s} : Busy(v) /\ tx[v].op.order = o /\ WritesOrder(op)}
        /\ items' = [items EXCEPT ![o] = LinesAfter(tx[s])]
    BY <1>0 DEF Commit, CommitOf
  <2>3. ~ WritesOrder(op) => LinesAfter(tx[s]) = items[o]
    BY <1>0 DEF WritesOrder, LinesAfter
  <2>4. tx[u].op.order # o \/ ~ WritesOrder(op) => items'[tx[u].op.order] = items[tx[u].op.order]
    BY <1>2, <2>2, <2>3 DEF IInv, TypeOK, Saga!TypeOK
  <2> QED
    BY <1>2, <2>1, <2>2, <2>4
<1>4. RowsHold'
  <2> SUFFICES ASSUME NEW u \in Session, Busy(u)', NEW j \in DOMAIN tx[u].rows
               PROVE  /\ tx[u].at = "write" /\ tx[u].rows[j] = RowAfter(tx[u], j)'
                      /\ RowFound(tx[u], j)' /\ RowCheck(RowAfter(tx[u], j)')
                      /\ \A v \in Session \ {u} : Busy(v)' => j \notin DOMAIN tx[v].rows
    BY <1>2 DEF RowsHold, RowCheck
  <2>1. j \in ItemId /\ j \notin DOMAIN tx[s].rows
    BY <1>0, <1>2 DEF IsUnit, Isolation, RowsHold
  <2>2. stock'[j] = stock[j] /\ reserved'[j] = reserved[j] /\ tx'[u] = tx[u]
    BY <1>2, <2>1 DEF Commit, CommitOf, Install
  <2>3. /\ RowAfter(tx[u], j)' = RowAfter(tx[u], j)
        /\ RowFound(tx[u], j)' <=> RowFound(tx[u], j)
    BY <2>2 DEF RowAfter, RowFound
  <2> QED
    BY <1>2, <2>3 DEF Isolation, RowsHold
<1>5. MessagesAlone' /\ OnlyMessagesAreIgnored'
  <2>1. ASSUME NEW u \in Session, Busy(u)', IsMessage(tx[u].op)
        PROVE  /\ tx[u].op \notin processed' /\ Deliverable(tx[u].op)'
               /\ tx[u].at = "ignored" => status'[tx[u].op.order] \notin ExpectedStatus(tx[u].op)
               /\ \A v \in Session \ {u} :
                     Busy(v)' => Apart(tx[v].op, tx[u].op)
    <3>1. /\ tx[u].op \notin processed /\ Deliverable(tx[u].op)
          /\ tx[u].at = "ignored" => status[tx[u].op.order] \notin ExpectedStatus(tx[u].op)
          /\ \A v \in Session \ {u} :
                Busy(v) => Apart(tx[v].op, tx[u].op)
      BY <1>2, <2>1 DEF Isolation, MessagesAlone
    <3>2. tx[u].op # op
      BY <1>0, <1>2, <2>1, <3>1 DEF Apart
    <3>3. tx[u].op \notin processed'
      BY <1>0, <3>1, <3>2 DEF Commit, CommitOf, Recorded
    <3>4. Deliverable(tx[u].op)'
      BY <1>2, <2>1, <3>1, SentGrows DEF Deliverable
    <3>5. tx[u].at = "ignored" => status'[tx[u].op.order] \notin ExpectedStatus(tx[u].op)
      BY <1>0, <1>2, <2>1, <3>1, NeverExpectedAgain
    <3> QED
      BY <1>2, <3>1, <3>3, <3>4, <3>5
  <2>2. OnlyMessagesAreIgnored'
    BY <1>2 DEF Isolation, OnlyMessagesAreIgnored
  <2> QED
    BY <1>2, <2>1, <2>2 DEF MessagesAlone
<1>6. Trails'
  BY CommitTrail
<1>7. StockCovers'
  <2> SUFFICES ASSUME NEW i \in ItemId PROVE reserved'[i] <= stock'[i]
    BY DEF StockCovers
  <2>1. CASE i \in DOMAIN tx[s].rows
    <3>1. RowCheck(tx[s].rows[i])
      BY <1>0, <2>1 DEF Isolation, RowsHold
    <3> QED
      BY <2>1, <3>1 DEF RowCheck, Commit, CommitOf, Install
  <2>2. CASE i \notin DOMAIN tx[s].rows
    BY <2>2 DEF Commit, CommitOf, Install, Isolation, StockCovers
  <2> QED
    BY <2>1, <2>2
<1> QED
  BY <1>3, <1>4, <1>5, <1>6, <1>7 DEF Isolation

LEMMA IsolationAlways == Spec => []Isolation
<1>1. IInv /\ Isolation /\ [Next]_vars => Isolation'
  <2> SUFFICES ASSUME IInv, Isolation, [Next]_vars PROVE Isolation'
    OBVIOUS
  <2>1. CASE UNCHANGED vars
    <3>1. UNCHANGED <<status, items, budgetTotal, history, stock, reserved, outbox, processed, tx, stale>>
      BY <2>1 DEF vars, tables
    <3>2. ReadsHold' /\ RowsHold' /\ MessagesAlone' /\ OnlyMessagesAreIgnored' /\ StockCovers'
      BY <3>1 DEF Isolation, ReadsHold, RowsHold, MessagesAlone, OnlyMessagesAreIgnored, StockCovers,
         Writing, Busy, RowAfter, RowFound, Deliverable, Saga!Sent
    <3>3. Trails'
      BY <3>1 DEF Isolation, Trails, Facts!TrailOf, Facts!Sent0, Facts!Sent1, Facts!Sent2,
         Facts!Sent3, Facts!Sent4, Facts!Sent5
    <3> QED
      BY <3>2, <3>3 DEF Isolation
  <2>2. CASE Next
    BY <2>2, RecordMessageIsolates, BeginRequestIsolates, ReadOrderIsolates, ReadItemIsolates,
       WriteItemIsolates, CommitIsolates, CommitIgnoredIsolates, AbortIsolates, UpdateStockIsolates
    DEF Next, Statement
  <2> QED
    BY <2>1, <2>2
<1> QED
  BY InvAlways, IsolationInit, <1>1, PTL DEF Spec

\* Of a payment's answer and its dead request handled at once only one commits.
THEOREM CompensationCorrect == Spec => []CompensationIsComplete
<1>1. IInv /\ Isolation => CompensationIsComplete
  <2> SUFFICES ASSUME IInv, Isolation PROVE CompensationIsComplete
    OBVIOUS
  <2>1. Facts!TypeOK /\ \A o \in OrderId : Facts!TrailOf(o)
    BY FactsType DEF IInv, Isolation, Trails
  <2>2. Facts!CompensationIsComplete
    BY <2>1, SagaParameters, Facts!TrailCompensates
  <2> QED
    BY <2>2 DEF CompensationIsComplete, Saga!CompensationIsComplete, Facts!CompensationIsComplete,
       Saga!Sent, Facts!Sent, Saga!Paid, Facts!Paid
<1> QED
  BY <1>1, InvAlways, IsolationAlways, PTL
-----------------------------------------------------------------------------
(* The units of work that send a command for one order follow each other.  *)

\* Operations that put a command into the outbox.
Sends(op) == Commands(op, NoLines) # <<>>

\* What no longer adds a command, whatever its session does next: it will find
\* another status, has found it, or has read a version that is not the last.
Spent(u) ==
    \/ ~ Sends(tx[u].op)
    \/ tx[u].at = "ignored"
    \/ tx[u].at = "read" /\ status[tx[u].op.order] \notin ExpectedStatus(tx[u].op)
    \/ Writing(u) /\ VersionChecked(tx[u].op) /\ u \in stale

\* When a command of an order commits, the other units of work on that order that
\* run at the time are spent; and what is spent ends without adding a command.
NoLateSender ==
    /\ \A o \in OrderId : outbox'[o] # outbox[o] =>
          \A u \in Session : Busy(u)' /\ tx'[u].op.order = o => Spent(u)'
    /\ \A u \in Session : Busy(u) /\ Spent(u) =>
          \/ Busy(u)' /\ tx'[u].op = tx[u].op /\ Spent(u)'
          \/ ~ Busy(u)' /\ outbox' = outbox

LEMMA Senders ==
    ASSUME NEW op \in Operation
    PROVE  /\ Sends(op) <=>
                 \/ op.kind = "create"
                 \/ op.kind = "dead" /\ op.type \in {"GenerateBudget", "RequestPayment"}
                 \/ op.kind = "reply" /\ op.type \in {"DiagnosisCompleted", "BudgetApproved", "BudgetRejected",
                                                      "PaymentConfirmed", "PaymentFailed"}
           /\ \A lines : ~ Sends(op) => Commands(op, lines) = <<>>
           /\ Sends(op) /\ op.kind # "create" => VersionChecked(op)
<1>1. op.kind \in {"reply", "dead", "create", "add", "remove", "deliver"}
  BY OperationType
<1>2. ASSUME NEW lines
      PROVE  Commands(op, lines) = <<>> <=>
                ~ \/ op.kind = "create"
                  \/ op.kind = "dead" /\ op.type \in {"GenerateBudget", "RequestPayment"}
                  \/ op.kind = "reply" /\ op.type \in {"DiagnosisCompleted", "BudgetApproved", "BudgetRejected",
                                                       "PaymentConfirmed", "PaymentFailed"}
  <2>1. \A a, b : <<a>> # <<>> /\ <<a, b>> # <<>>
    OBVIOUS
  <2> QED
    BY <1>1, <2>1 DEF Commands, Compensable, Saga!CancelCommands
<1> QED
  BY <1>1, <1>2 DEF Sends, VersionChecked, WritesOrder, Compensable

\* A message that began before a command of its order committed finds the order
\* past the status that it expects.
LEMMA LateFindsItPast ==
    ASSUME IInv, Isolation, NEW s \in Session, Commit(s), Sends(tx[s].op), NEW u \in Session \ {s},
           Busy(u), Sends(tx[u].op), IsMessage(tx[u].op), tx[u].op.order = tx[s].op.order
    PROVE  status'[tx[u].op.order] \notin ExpectedStatus(tx[u].op)
<1>1. PICK o \in OrderId, op \in Operation, m \in Message :
         o = tx[s].op.order /\ op = tx[s].op /\ m = tx[u].op /\ m.order = o
  BY CommitKnows, UnitType, OperationType DEF IInv, Operation
<1>2. /\ op.kind # "create" => status[o] \in ExpectedStatus(op)
      /\ op.kind = "create" => status[o] = "NONE"
      /\ status'[o] = NewStatus(op, status[o])
      /\ Busy(s)
  BY <1>1, CommitKnows, Senders
<1>3. Deliverable(m) /\ Apart(op, m)
  BY <1>1, <1>2 DEF Isolation, MessagesAlone
<1>4. m \in Operation /\ m.kind \in {"reply", "dead"}
  BY <1>1, OperationType, OperationAssumption DEF Operation
<1> DEFINE c == IF m.kind = "dead" THEN m.type ELSE Answered(m.type)
<1>5. c \in Saga!Sent(o)
  BY <1>1, <1>3 DEF Deliverable
<1> HIDE DEF c
<1>6. /\ status[o] \in OSStatus
      /\ c = "GenerateBudget" => status[o] # "DIAGNOSIS"
      /\ c = "RequestPayment" => status[o] \notin {"DIAGNOSIS", "WAITING_APPROVAL"}
  BY <1>5, SentSays
<1>7. op.kind # "create"
  BY <1>2, <1>6, NoneIsNoStatus
<1>8. CASE m.kind = "reply"
  <2>1. op.kind = "dead" /\ op.type \in {"GenerateBudget", "RequestPayment"}
    <3>1. op.kind # "reply"
      BY <1>1, <1>3, <1>8 DEF Apart, IsMessage, QueueOf
    <3> QED
      BY <1>1, <1>7, <3>1, Senders
  <2>2. status'[o] = "CANCELLED"
    BY <1>2, <2>1 DEF NewStatus, Compensable
  <2>3. m.type \in {"DiagnosisCompleted", "BudgetApproved", "BudgetRejected", "PaymentConfirmed", "PaymentFailed"}
    BY <1>1, <1>4, <1>8, Senders
  <2> QED
    BY <1>1, <1>8, <2>2, <2>3 DEF ExpectedStatus, EXPECTED_STATUS
<1>9. CASE m.kind = "dead"
  <2>1. c = m.type /\ m.type \in {"GenerateBudget", "RequestPayment"}
    BY <1>1, <1>4, <1>9, Senders DEF c
  <2>2. CASE op.kind = "dead"
    <3>1. status'[o] = "CANCELLED"
      BY <1>1, <1>2, <2>2, Senders DEF NewStatus, Compensable
    <3> QED
      BY <1>1, <1>9, <2>1, <3>1 DEF ExpectedStatus, ExpectedOfFailed
  <2>3. CASE op.kind # "dead"
    <3>1. op.kind = "reply" /\ op.type \in {"DiagnosisCompleted", "BudgetApproved", "BudgetRejected",
                                            "PaymentConfirmed", "PaymentFailed"}
      BY <1>1, <1>7, <2>3, Senders
    <3>2. /\ op.type = "DiagnosisCompleted" => status[o] \in {"DIAGNOSIS"}
          /\ op.type = "BudgetApproved" => status[o] = "WAITING_APPROVAL"
      BY <1>2, <1>7, <3>1 DEF ExpectedStatus, EXPECTED_STATUS
    <3>3. status'[o] = Saga!Target[op.type]
      BY <1>2, <3>1 DEF NewStatus, Saga!Target
    <3> QED
      BY <1>1, <1>6, <1>9, <2>1, <3>1, <3>2, <3>3 DEF ExpectedStatus, ExpectedOfFailed, Saga!Target
  <2> QED
    BY <2>2, <2>3
<1> QED
  BY <1>4, <1>8, <1>9

LEMMA CommitIsNotLate ==
    ASSUME IInv, Isolation, NEW s \in Session, Commit(s)
    PROVE  NoLateSender
<1>1. PICK o \in OrderId, op \in Operation, lines \in Saga!Lines :
         /\ o = tx[s].op.order /\ op = tx[s].op /\ lines = tx[s].lines
         /\ Busy(s) /\ tx[s].at = "write"
  BY CommitKnows
<1>2. /\ VersionChecked(op) => s \notin stale
      /\ outbox' = [outbox EXCEPT ![o] = @ \o Commands(op, lines)]
      /\ \A p \in OrderId \ {o} : status'[p] = status[p] /\ outbox'[p] = outbox[p]
  BY <1>1, CommitKnows DEF Commit, CommitOf
<1>3. /\ tx'[s] = Idle /\ \A u \in Session \ {s} : tx'[u] = tx[u]
      /\ stale' = (stale \ {s}) \cup
                     {u \in Session \ {s} : Busy(u) /\ tx[u].op.order = o /\ WritesOrder(op)}
  BY <1>1, StepOf DEF IInv, Commit, CommitOf
<1>4. ~ Sends(op) => outbox' = outbox
  <2> HAVE ~ Sends(op)
  <2>1. Commands(op, lines) = <<>> /\ outbox \in [OrderId -> Seq(Saga!Command)]
    BY Senders DEF IInv, TypeOK, Saga!TypeOK
  <2> QED
    BY <1>2, <2>1
<1>5. ASSUME NEW u \in Session, u # s, Busy(u)
      PROVE  /\ Busy(u)' /\ tx'[u] = tx[u] /\ tx[u].op \in Operation /\ tx[u].op.order \in OrderId
             /\ tx[u].at \in {"read", "item", "write", "ignored"}
             /\ Writing(u)' <=> Writing(u)
             /\ tx[u].at = "ignored" => IsMessage(tx[u].op)
             /\ tx[u].at = "read" /\ Sends(tx[u].op) => IsMessage(tx[u].op)
  <2>1. Busy(u)' /\ tx'[u] = tx[u]
    BY <1>3, <1>5 DEF Busy
  <2>2. /\ tx[u].op \in Operation /\ tx[u].op.order \in OrderId
        /\ tx[u].at \in {"read", "item", "write", "ignored"}
    <3>1. IsUnit(tx[u]) /\ tx[u].op \in Operation /\ tx[u].op.order \in OrderId
      BY <1>5, UnitType DEF IInv
    <3> QED
      BY <3>1 DEF IsUnit, UnitOfWork
  <2>3. tx[u].at = "ignored" => IsMessage(tx[u].op)
    BY <1>5 DEF Isolation, OnlyMessagesAreIgnored
  <2>4. tx[u].at = "read" => tx[u].op.kind # "create"
    BY <1>5 DEF IInv, OpeningIsAlone
  <2>5. tx[u].at = "read" /\ Sends(tx[u].op) => IsMessage(tx[u].op)
    BY <2>2, <2>4, Senders DEF IsMessage
  <2>6. Writing(u)' <=> Writing(u)
    BY <1>5, <2>1 DEF Writing
  <2> QED
    BY <2>1, <2>2, <2>3, <2>5, <2>6
<1>6. ASSUME NEW p \in OrderId, outbox'[p] # outbox[p], NEW u \in Session, Busy(u)', tx'[u].op.order = p
      PROVE  Spent(u)'
  <2>1. p = o /\ Sends(op)
    BY <1>2, <1>4, <1>6
  <2>2. u # s /\ Busy(u) /\ tx'[u] = tx[u] /\ tx[u].op.order = o
    BY <1>3, <1>5, <1>6, <2>1 DEF Busy
  <2>3. WritesOrder(op)
    BY <2>1, Senders DEF VersionChecked, WritesOrder
  <2>4. CASE ~ Sends(tx[u].op)
    BY <2>2, <2>4 DEF Spent
  <2>5. CASE Sends(tx[u].op) /\ tx[u].at = "read"
    BY <1>1, <1>5, <2>1, <2>2, <2>5, LateFindsItPast DEF Spent
  <2>6. CASE tx[u].at = "ignored"
    BY <2>2, <2>6 DEF Spent
  <2>7. CASE Sends(tx[u].op) /\ tx[u].at \in {"item", "write"}
    <3>1. u \in stale'
      BY <1>3, <2>2, <2>3
    <3>2. tx[u].op.kind # "create"
      <4>1. tx[u].op.kind = "create" => status[o] = "NONE"
        BY <2>2 DEF IInv, OpeningIsAlone
      <4>2. op.kind = "create" => tx[u].op.kind # "create"
        BY <1>1, <2>2 DEF IInv, OpeningIsAlone
      <4>3. op.kind # "create" => status[o] # "NONE"
        BY <1>1, CommitKnows
      <4> QED
        BY <4>1, <4>2, <4>3
    <3>3. VersionChecked(tx[u].op)
      BY <1>5, <2>2, <2>7, <3>2, Senders
    <3> QED
      BY <1>5, <2>2, <2>7, <3>1, <3>3 DEF Spent, Writing
  <2> QED
    BY <1>5, <2>2, <2>4, <2>5, <2>6, <2>7
<1>7. ASSUME NEW u \in Session, Busy(u), Spent(u)
      PROVE  \/ Busy(u)' /\ tx'[u].op = tx[u].op /\ Spent(u)'
             \/ ~ Busy(u)' /\ outbox' = outbox
  <2>1. CASE u = s
    <3>1. ~ Sends(op)
      BY <1>1, <1>2, <1>7, <2>1 DEF Spent
    <3> QED
      BY <1>3, <1>4, <2>1, <3>1 DEF Busy
  <2>2. CASE u # s
    <3>1. tx[u].at = "read" /\ Sends(tx[u].op) /\ status[tx[u].op.order] \notin ExpectedStatus(tx[u].op)
             => status'[tx[u].op.order] \notin ExpectedStatus(tx[u].op)
      <4>1. CASE tx[u].op.order # o
        BY <1>2, <1>5, <1>7, <2>2, <4>1
      <4>2. CASE tx[u].op.order = o
        BY <1>1, <1>5, <1>7, <2>2, <4>2, NeverExpectedAgain
      <4> QED
        BY <4>1, <4>2
    <3>2. u \in stale => u \in stale'
      BY <1>3, <2>2
    <3> QED
      BY <1>5, <1>7, <2>2, <3>1, <3>2 DEF Spent
  <2> QED
    BY <2>1, <2>2
<1> QED
  BY <1>6, <1>7 DEF NoLateSender

\* The other steps leave the orders alone.
LEMMA OthersAreNotLate ==
    ASSUME IInv, Isolation, NEW s \in Session, UNCHANGED <<status, outbox>>,
           \A u \in Session \ {s} : tx'[u] = tx[u], stale \ {s} \subseteq stale',
           Busy(s) /\ Spent(s) => ~ Busy(s)' \/ (tx'[s].op = tx[s].op /\ Spent(s)')
    PROVE  NoLateSender
<1> SUFFICES ASSUME NEW u \in Session, Busy(u), Spent(u)
             PROVE  \/ Busy(u)' /\ tx'[u].op = tx[u].op /\ Spent(u)'
                    \/ ~ Busy(u)' /\ outbox' = outbox
  BY DEF NoLateSender
<1>1. CASE u = s
  BY <1>1
<1>2. CASE u # s
  BY <1>2 DEF Spent, Busy, Writing
<1> QED
  BY <1>1, <1>2

LEMMA NextIsNotLate ==
    ASSUME IInv, Isolation, [Next]_vars
    PROVE  NoLateSender
<1>1. CASE UNCHANGED vars
  BY <1>1 DEF vars, tables, NoLateSender, Spent, Busy, Writing
<1>2. ASSUME NEW i \in ItemId, NEW n \in StockLevel, UpdateStock(i, n)
      PROVE  NoLateSender
  BY <1>2 DEF UpdateStock, NoLateSender, Spent, Busy, Writing
<1>3. ASSUME NEW s \in Session, Statement(s), ~ Commit(s)
      PROVE  NoLateSender
  <2>1. UNCHANGED <<status, outbox>> /\ stale \ {s} \subseteq stale'
    BY <1>3 DEF Statement, RecordMessage, BeginRequest, ReadOrder, ReadItem, WriteItem, CommitIgnored,
       Abort, tables
  <2>2. \A u \in Session \ {s} : tx'[u] = tx[u]
    BY <1>3, StepOf DEF IInv, Statement, RecordMessage, BeginRequest, ReadOrder, ReadItem, WriteItem,
       CommitIgnored, Abort
  <2>3. ASSUME Busy(s), Spent(s)
        PROVE  ~ Busy(s)' \/ (tx'[s].op = tx[s].op /\ Spent(s)')
    <3>1. tx[s].op \in Operation /\ DOMAIN tx = Session /\ IsUnit(tx[s])
      BY <2>3, UnitType DEF IInv, TypeOK
    <3>2. CASE ReadOrder(s)
      <4>1. tx[s].at = "read" /\ (~ Sends(tx[s].op) \/ status[tx[s].op.order] \notin ExpectedStatus(tx[s].op))
        BY <2>3, <3>2 DEF ReadOrder, Spent, Writing
      <4>2. tx'[s].op = tx[s].op /\ (status[tx[s].op.order] \notin ExpectedStatus(tx[s].op)
                                        => tx'[s].at = "ignored")
        <5> DEFINE o == tx[s].op.order
                   next == CASE status[o] \notin ExpectedStatus(tx[s].op) -> "ignored"
                             [] tx[s].op.kind = "remove" -> "item"
                             [] OTHER -> "write"
        <5>1. tx'[s] = [tx[s] EXCEPT !.at = next, !.status = status[o], !.lines = items[o]]
          BY <3>1, <3>2 DEF ReadOrder, Step
        <5>2. status[o] \notin ExpectedStatus(tx[s].op) => tx[s].op.kind # "remove"
          BY <3>2 DEF ReadOrder, IsMessage
        <5>3. status[o] \notin ExpectedStatus(tx[s].op) => next = "ignored"
          BY <5>2
        <5> HIDE DEF next
        <5>4. tx'[s].op = tx[s].op /\ tx'[s].at = next
          BY <3>1, <5>1 DEF IsUnit, UnitOfWork
        <5> QED
          BY <5>3, <5>4
      <4> QED
        BY <4>1, <4>2 DEF Spent
    <3>3. CASE ReadItem(s) \/ \E i \in ItemId : WriteItem(s, i)
      <4>1. tx'[s].op = tx[s].op /\ Writing(s) /\ Writing(s)' /\ stale' = stale
        <5>1. tx[s].at \in {"item", "write"} /\ stale' = stale
          BY <3>3 DEF ReadItem, WriteItem
        <5>2. tx'[s].op = tx[s].op /\ tx'[s].at = "write"
          <6>1. CASE ReadItem(s)
            BY <3>1, <6>1 DEF ReadItem, Step, IsUnit, UnitOfWork
          <6>2. ASSUME NEW i \in ItemId, WriteItem(s, i)
                PROVE  tx'[s].op = tx[s].op /\ tx'[s].at = "write"
            BY <3>1, <6>2 DEF WriteItem, Step, IsUnit, UnitOfWork
          <6> QED
            BY <3>3, <6>1, <6>2
        <5>3. Busy(s)'
          BY <5>2 DEF Busy, Idle
        <5> QED
          BY <2>3, <5>1, <5>2, <5>3 DEF Writing
      <4> QED
        BY <2>1, <2>3, <4>1 DEF Spent, Writing
    <3>4. CASE CommitIgnored(s) \/ Abort(s)
      BY <3>1, <3>4, StepOf DEF CommitIgnored, Abort, Busy, IInv
    <3> QED
      BY <1>3, <2>3, <3>2, <3>3, <3>4 DEF Statement, RecordMessage, BeginRequest
  <2> QED
    BY <2>1, <2>2, <2>3, OthersAreNotLate
<1> QED
  BY <1>1, <1>2, <1>3, CommitIsNotLate DEF Next

\* What OutboxRelay takes for granted of the transactions that write for one
\* order: one that adds a command began after the one before it had committed.
THEOREM SendersFollowEachOther == Spec => [][NoLateSender]_vars
<1> QED
  BY InvAlways, IsolationAlways, NextIsNotLate, PTL DEF Spec
-----------------------------------------------------------------------------
(* Without edits every commit is one step of ServiceOrderSaga.             *)

\* The handlers of the saga take the tables of the state machine.
LEMMA SameExpectations ==
    /\ \A r : Saga!EXPECTED_STATUS(r) = EXPECTED_STATUS(r)
    /\ \A c : Saga!ExpectedOfFailed(c) = ExpectedOfFailed(c)
    /\ Saga!SagaReplyType = SagaReplyType
    /\ Saga!Compensable = Compensable
<1>1. \A r : Saga!EXPECTED_STATUS(r) = EXPECTED_STATUS(r)
  BY DEF Saga!EXPECTED_STATUS, EXPECTED_STATUS
<1>2. \A c : Saga!ExpectedOfFailed(c) = ExpectedOfFailed(c)
  BY DEF Saga!ExpectedOfFailed, ExpectedOfFailed, Saga!OSStatus, OSStatus
<1>3. Saga!SagaReplyType = SagaReplyType /\ Saga!Compensable = Compensable
  BY DEF Saga!SagaReplyType, SagaReplyType, Saga!Compensable, Compensable
<1> QED
  BY <1>1, <1>2, <1>3

\* Of the parts that a commit did not touch nothing was to be taken or given back.
LEMMA RowsInstalled ==
    ASSUME IInv, Isolation, NEW s \in Session, Commit(s), tx[s].op.kind \notin {"add", "remove"},
           NEW lines \in [ItemId -> Nat], \A i \in ItemId : Amount(tx[s], i) = lines[i]
    PROVE  LET effect == PartsEffect(tx[s].op) IN
           /\ effect = "none" => stock' = stock /\ reserved' = reserved
           /\ effect = "reserve" =>
                /\ \A i \in ItemId : lines[i] <= stock[i] - reserved[i]
                /\ stock' = stock /\ reserved' = [i \in ItemId |-> reserved[i] + lines[i]]
           /\ effect = "release" =>
                /\ \A i \in ItemId : lines[i] <= reserved[i]
                /\ stock' = stock /\ reserved' = [i \in ItemId |-> reserved[i] - lines[i]]
           /\ effect = "consume" =>
                /\ \A i \in ItemId : lines[i] <= reserved[i] /\ lines[i] <= stock[i]
                /\ stock' = [i \in ItemId |-> stock[i] - lines[i]]
                /\ reserved' = [i \in ItemId |-> reserved[i] - lines[i]]
<1> DEFINE t == tx[s]
           effect == PartsEffect(t.op)
<1>1. /\ Busy(s) /\ DOMAIN t.rows = Touched(t)
      /\ \A i \in DOMAIN t.rows : t.rows[i] = RowAfter(t, i) /\ RowFound(t, i)
      /\ stock \in [ItemId -> Nat] /\ reserved \in [ItemId -> Nat]
      /\ \A i \in ItemId : reserved[i] <= stock[i]
  BY CommitKnows DEF Isolation, RowsHold, StockCovers, IInv, TypeOK, Saga!TypeOK
<1>2. /\ stock' = [i \in ItemId |-> IF i \in DOMAIN t.rows THEN t.rows[i].stock ELSE stock[i]]
      /\ reserved' = [i \in ItemId |-> IF i \in DOMAIN t.rows THEN t.rows[i].reserved ELSE reserved[i]]
  BY DEF Commit, CommitOf, Install
<1>3. CASE effect = "none"
  <2>1. DOMAIN t.rows = {}
    BY <1>1, <1>3 DEF Touched
  <2> QED
    BY <1>1, <1>2, <1>3, <2>1
<1>4. ASSUME effect # "none", NEW i \in ItemId
      PROVE  /\ i \notin DOMAIN t.rows => lines[i] = 0
             /\ i \in DOMAIN t.rows => t.rows[i] = RowAfter(t, i) /\ RowFound(t, i)
  <2>1. Touched(t) = {j \in ItemId : Amount(t, j) # 0}
    BY <1>4 DEF Touched
  <2> QED
    BY <1>1, <2>1
<1> HIDE DEF effect
<1>a. ASSUME NEW i \in ItemId, RowFound(t, i)
      PROVE  /\ effect = "reserve" =>
                  RowAfter(t, i).stock = stock[i] /\ RowAfter(t, i).reserved = reserved[i] + lines[i]
                  /\ lines[i] <= stock[i] - reserved[i]
             /\ effect = "release" =>
                  RowAfter(t, i).stock = stock[i] /\ RowAfter(t, i).reserved = reserved[i] - lines[i]
                  /\ lines[i] <= reserved[i]
             /\ effect = "consume" =>
                  /\ RowAfter(t, i).stock = stock[i] - lines[i]
                  /\ RowAfter(t, i).reserved = reserved[i] - lines[i]
                  /\ lines[i] <= reserved[i] /\ lines[i] <= stock[i]
  <2>1. Amount(t, i) = lines[i]
    OBVIOUS
  <2> HIDE DEF t
  <2> QED
    BY <1>a, <2>1 DEF RowAfter, RowFound, effect
<1>5. ASSUME effect = "reserve"
      PROVE  /\ \A i \in ItemId : lines[i] <= stock[i] - reserved[i]
             /\ stock' = stock /\ reserved' = [i \in ItemId |-> reserved[i] + lines[i]]
  <2>1. ASSUME NEW i \in ItemId
        PROVE  lines[i] <= stock[i] - reserved[i] /\ stock'[i] = stock[i] /\ reserved'[i] = reserved[i] + lines[i]
    <3>1. i \in DOMAIN t.rows => t.rows[i].stock = stock[i] /\ t.rows[i].reserved = reserved[i] + lines[i]
                                 /\ lines[i] <= stock[i] - reserved[i]
      BY <1>4, <1>5, <1>a
    <3> QED
      BY <1>1, <1>2, <1>4, <1>5, <3>1
  <2> QED
    BY <1>1, <1>2, <1>5, <2>1
<1>6. ASSUME effect = "release"
      PROVE  /\ \A i \in ItemId : lines[i] <= reserved[i]
             /\ stock' = stock /\ reserved' = [i \in ItemId |-> reserved[i] - lines[i]]
  <2>1. ASSUME NEW i \in ItemId
        PROVE  lines[i] <= reserved[i] /\ stock'[i] = stock[i] /\ reserved'[i] = reserved[i] - lines[i]
    <3>1. i \in DOMAIN t.rows => t.rows[i].stock = stock[i] /\ t.rows[i].reserved = reserved[i] - lines[i]
                                 /\ lines[i] <= reserved[i]
      BY <1>4, <1>6, <1>a
    <3> QED
      BY <1>1, <1>2, <1>4, <1>6, <3>1
  <2> QED
    BY <1>1, <1>2, <1>6, <2>1
<1>7. ASSUME effect = "consume"
      PROVE  /\ \A i \in ItemId : lines[i] <= reserved[i] /\ lines[i] <= stock[i]
             /\ stock' = [i \in ItemId |-> stock[i] - lines[i]]
             /\ reserved' = [i \in ItemId |-> reserved[i] - lines[i]]
  <2>1. ASSUME NEW i \in ItemId
        PROVE  /\ lines[i] <= reserved[i] /\ lines[i] <= stock[i]
               /\ stock'[i] = stock[i] - lines[i] /\ reserved'[i] = reserved[i] - lines[i]
    <3>1. i \in DOMAIN t.rows => /\ t.rows[i].stock = stock[i] - lines[i]
                                 /\ t.rows[i].reserved = reserved[i] - lines[i]
                                 /\ lines[i] <= reserved[i] /\ lines[i] <= stock[i]
      BY <1>4, <1>7, <1>a
    <3> QED
      BY <1>1, <1>2, <1>4, <1>7, <3>1
  <2> QED
    BY <1>1, <1>2, <1>7, <2>1
<1> QED
  BY <1>3, <1>5, <1>6, <1>7 DEF effect

\* What a commit leaves in the tables but the rows of items.
LEMMA CommitWrites ==
    ASSUME IInv, Isolation, NEW s \in Session, Commit(s), tx[s].op.kind \notin {"add", "remove"}
    PROVE  LET op == tx[s].op
               o == op.order
               to == NewStatus(op, status[o]) IN
           /\ status' = [status EXCEPT ![o] = to]
           /\ history' = [history EXCEPT ![o] = IF to = status[o] THEN @ ELSE Append(@, to)]
           /\ op.kind = "create" => items' = [items EXCEPT ![o] = op.lines]
           /\ op.kind # "create" => items' = items
           /\ budgetTotal' = [budgetTotal EXCEPT ![o] =
                                 @ \/ (op.kind = "reply" /\ op.type = "BudgetGenerated")]
           /\ outbox' = [outbox EXCEPT ![o] = @ \o Commands(op, tx[s].lines)]
           /\ IsMessage(op) => op \notin processed /\ processed' = processed \cup {op}
           /\ ~ IsMessage(op) => processed' = processed
<1> DEFINE op == tx[s].op
           o == op.order
<1>1. Busy(s) /\ o \in OrderId /\ op \in Operation
  BY CommitKnows
<1>2. /\ op.kind = "create" => LinesAfter(tx[s]) = op.lines
      /\ op.kind # "create" => LinesAfter(tx[s]) = items[o]
  BY DEF LinesAfter
<1>3. items' = [items EXCEPT ![o] = LinesAfter(tx[s])] /\ items \in [OrderId -> Saga!Lines]
  BY DEF Commit, CommitOf, IInv, TypeOK, Saga!TypeOK
<1>4. op.kind # "create" => items' = items
  BY <1>1, <1>2, <1>3
<1>5. IsMessage(op) => op \notin processed
  BY <1>1 DEF Isolation, MessagesAlone
<1> QED
  BY <1>2, <1>3, <1>4, <1>5 DEF Commit, CommitOf, Recorded

\* Only openings, deliveries and messages: no part is added to or removed from an order.
NoEdits == \A op \in StaffRequest : op.kind \notin {"add", "remove"}

LEMMA NoEditRuns ==
    ASSUME NoEdits, NEW op \in Operation
    PROVE  op.kind \in {"reply", "dead", "create", "deliver"}
  BY OperationType, OperationAssumption DEF NoEdits, Operation

\* The part of an operation that moves the order to another status.
LEMMA CommitMovesOn ==
    ASSUME IInv, Isolation, NEW s \in Session, Commit(s), VersionChecked(tx[s].op),
           NEW to \in OSStatus, NewStatus(tx[s].op, status[tx[s].op.order]) = to,
           to \notin ExpectedStatus(tx[s].op)
    PROVE  LET o == tx[s].op.order IN
           /\ Saga!MoveTo(o, to)
           /\ status[o] \in ExpectedStatus(tx[s].op)
<1> DEFINE op == tx[s].op
           o == op.order
<1>1. /\ status[o] \in ExpectedStatus(op)
      /\ NewStatus(op, status[o]) # status[o] => canTransition(status[o], NewStatus(op, status[o]))
  BY CommitKnows
<1>2. to # status[o] /\ canTransition(status[o], to)
  BY <1>1
<1>3. op.kind \notin {"add", "remove"}
  BY DEF VersionChecked
<1>4. /\ status' = [status EXCEPT ![o] = to]
      /\ history' = [history EXCEPT ![o] = Append(@, to)]
  BY <1>2, <1>3, CommitWrites
<1> QED
  BY <1>1, <1>2, <1>4, SameTables DEF Saga!MoveTo

\* The opening of an order.
LEMMA CommitOpens ==
    ASSUME IInv, Isolation, NEW s \in Session, Commit(s), tx[s].op.kind = "create"
    PROVE  Saga!CreateServiceOrder(tx[s].op.order, tx[s].op.lines, {})
<1> DEFINE op == tx[s].op
           o == op.order
<1>0. op \in Operation /\ o \in OrderId /\ op.lines \in [ItemId -> Nat]
  BY CommitKnows, OpenedLines
<1>1. status[o] = "NONE" /\ NewStatus(op, status[o]) = "RECEIVED" /\ ~ IsMessage(op)
  BY CommitKnows DEF IsMessage
<1>2. history[o] = <<>> /\ history \in [OrderId -> Seq(OSStatus)] /\ budgetTotal \in [OrderId -> BOOLEAN]
  BY <1>0, <1>1, SameTables DEF IInv, Paths, PathOK, TypeOK, Saga!TypeOK
<1>3. /\ \A i \in ItemId : op.lines[i] <= stock[i] - reserved[i]
      /\ stock' = stock /\ reserved' = [i \in ItemId |-> reserved[i] + op.lines[i]]
  <2>1. \A i \in ItemId : Amount(tx[s], i) = op.lines[i]
    BY DEF Amount
  <2>2. PartsEffect(op) = "reserve"
    BY DEF PartsEffect, Compensates
  <2> QED
    BY <1>0, <2>1, <2>2, RowsInstalled
<1>4. Commands(op, tx[s].lines) = <<Saga!Cmd("EnqueueDiagnosis")>>
  BY DEF Commands
<1>5. /\ status' = [status EXCEPT ![o] = "RECEIVED"]
      /\ history' = [history EXCEPT ![o] = Append(@, "RECEIVED")]
      /\ items' = [items EXCEPT ![o] = op.lines]
      /\ budgetTotal' = [budgetTotal EXCEPT ![o] = @ \/ FALSE]
      /\ outbox' = [outbox EXCEPT ![o] = @ \o <<Saga!Cmd("EnqueueDiagnosis")>>]
      /\ processed' = processed
  BY <1>1, <1>4, CommitWrites
<1>6. history' = [history EXCEPT ![o] = <<"RECEIVED">>] /\ budgetTotal' = budgetTotal
  <2>1. Append(<<>>, "RECEIVED") = <<"RECEIVED">>
    OBVIOUS
  <2>2. (budgetTotal[o] \/ FALSE) = budgetTotal[o]
    BY <1>0, <1>2
  <2> QED
    BY <1>0, <1>2, <1>5, <2>1, <2>2
<1>7. \A i \in ItemId : op.lines[i] >= 0
  BY <1>0
<1> QED
  BY <1>0, <1>1, <1>3, <1>5, <1>6, <1>7 DEF Saga!CreateServiceOrder, Saga!Send

LEMMA CommitDelivers ==
    ASSUME IInv, Isolation, NEW s \in Session, Commit(s), tx[s].op.kind = "deliver"
    PROVE  Saga!Deliver(tx[s].op.order)
<1> DEFINE op == tx[s].op
           o == op.order
<1>0. op \in Operation /\ o \in OrderId /\ tx[s].lines \in Saga!Lines
  BY CommitKnows
<1>1. VersionChecked(op) /\ NewStatus(op, status[o]) = "DELIVERED" /\ PartsEffect(op) = "none"
      /\ Commands(op, tx[s].lines) = <<>> /\ ~ IsMessage(op)
  BY DEF VersionChecked, WritesOrder, NewStatus, PartsEffect, Compensates, Commands, IsMessage
<1>2. "DELIVERED" \in OSStatus /\ ExpectedStatus(op) = {s0 \in OSStatus : canTransition(s0, "DELIVERED")}
  BY DEF OSStatus, ExpectedStatus
<1>3. ~ canTransition("DELIVERED", "DELIVERED")
  BY DEF canTransition, OSStatus, VALID_TRANSITIONS
<1>4. Saga!MoveTo(o, "DELIVERED")
  BY <1>1, <1>2, <1>3, CommitMovesOn
<1>5. stock' = stock /\ reserved' = reserved
  <2>1. \A i \in ItemId : Amount(tx[s], i) = tx[s].lines[i]
    BY DEF Amount
  <2> QED
    BY <1>0, <1>1, <2>1, RowsInstalled DEF Saga!Lines
<1>6. items' = items /\ budgetTotal' = budgetTotal /\ outbox' = outbox /\ processed' = processed
  <2>1. outbox \in [OrderId -> Seq(Saga!Command)] /\ budgetTotal \in [OrderId -> BOOLEAN]
    BY DEF IInv, TypeOK, Saga!TypeOK
  <2>2. /\ items' = items /\ processed' = processed
        /\ budgetTotal' = [budgetTotal EXCEPT ![o] = @ \/ FALSE]
        /\ outbox' = [outbox EXCEPT ![o] = @ \o <<>>]
    BY <1>1, CommitWrites
  <2>3. (budgetTotal[o] \/ FALSE) = budgetTotal[o] /\ outbox[o] \o <<>> = outbox[o]
    BY <1>0, <2>1
  <2> QED
    BY <1>0, <2>1, <2>2, <2>3
<1> QED
  BY <1>4, <1>5, <1>6 DEF Saga!Deliver, Saga!lineVars, Saga!stockVars

\* The part that the messages share.
LEMMA CommitOfMessage ==
    ASSUME IInv, Isolation, NEW s \in Session, Commit(s), IsMessage(tx[s].op)
    PROVE  LET op == tx[s].op
               o == op.order IN
           /\ op \in Message /\ o \in OrderId /\ Saga!Record(op) /\ items' = items
           /\ VersionChecked(op) => tx[s].lines = items[o] /\ status[o] \in ExpectedStatus(op)
           /\ op.kind = "dead" \/ op.type # "BudgetGenerated" => budgetTotal' = budgetTotal
           /\ op.kind = "reply" /\ op.type = "BudgetGenerated" =>
                budgetTotal' = [budgetTotal EXCEPT ![o] = TRUE]
           /\ NewStatus(op, status[o]) = status[o] => UNCHANGED Saga!orderVars
           /\ Saga!Send(o, Commands(op, tx[s].lines))
           /\ Commands(op, tx[s].lines) = <<>> => outbox' = outbox
           /\ PartsEffect(op) = "none" => UNCHANGED Saga!stockVars
           /\ PartsEffect(op) = "release" => Saga!ReleaseReservations(o)
           /\ PartsEffect(op) = "consume" => Saga!Consume(o)
<1> DEFINE op == tx[s].op
           o == op.order
           lines == tx[s].lines
<1>0. op \in Operation /\ o \in OrderId /\ lines \in Saga!Lines
      /\ (VersionChecked(op) => lines = items[o] /\ status[o] \in ExpectedStatus(op))
  BY CommitKnows
<1>1. op \in Message /\ op.kind \in {"reply", "dead"}
  BY <1>0, OperationAssumption DEF Operation, IsMessage
<1>2. /\ status' = [status EXCEPT ![o] = NewStatus(op, status[o])]
      /\ history' = [history EXCEPT ![o] = IF NewStatus(op, status[o]) = status[o] THEN @
                                           ELSE Append(@, NewStatus(op, status[o]))]
      /\ items' = items /\ Saga!Record(op)
      /\ budgetTotal' = [budgetTotal EXCEPT ![o] = @ \/ (op.kind = "reply" /\ op.type = "BudgetGenerated")]
      /\ outbox' = [outbox EXCEPT ![o] = @ \o Commands(op, lines)]
  BY <1>1, CommitWrites DEF Saga!Record
<1>3. /\ status \in [OrderId -> OSStatus \cup {"NONE"}] /\ history \in [OrderId -> Seq(OSStatus)]
      /\ outbox \in [OrderId -> Seq(Saga!Command)] /\ budgetTotal \in [OrderId -> BOOLEAN]
  BY SameTables DEF IInv, TypeOK, Saga!TypeOK
<1>4. NewStatus(op, status[o]) = status[o] => status' = status /\ history' = history
  BY <1>0, <1>2, <1>3
<1>5. op.kind = "dead" \/ op.type # "BudgetGenerated" => budgetTotal' = budgetTotal
  <2> SUFFICES ASSUME op.kind = "dead" \/ op.type # "BudgetGenerated" PROVE budgetTotal' = budgetTotal
    OBVIOUS
  <2>1. (budgetTotal[o] \/ (op.kind = "reply" /\ op.type = "BudgetGenerated")) = budgetTotal[o]
    BY <1>0, <1>3
  <2> QED
    BY <1>0, <1>2, <1>3, <2>1
<1>6. Commands(op, lines) = <<>> => outbox' = outbox
  <2>1. outbox[o] \o <<>> = outbox[o]
    BY <1>0, <1>3
  <2> QED
    BY <1>0, <1>2, <1>3, <2>1
<1>7. \A i \in ItemId : Amount(tx[s], i) = lines[i]
  BY <1>1 DEF Amount
<1>8. LET effect == PartsEffect(op) IN
      /\ effect = "none" => stock' = stock /\ reserved' = reserved
      /\ effect = "release" =>
           /\ \A i \in ItemId : lines[i] <= reserved[i]
           /\ stock' = stock /\ reserved' = [i \in ItemId |-> reserved[i] - lines[i]]
      /\ effect = "consume" =>
           /\ \A i \in ItemId : lines[i] <= reserved[i] /\ lines[i] <= stock[i]
           /\ stock' = [i \in ItemId |-> stock[i] - lines[i]]
           /\ reserved' = [i \in ItemId |-> reserved[i] - lines[i]]
  BY <1>0, <1>1, <1>7, RowsInstalled DEF Saga!Lines
<1>9. PartsEffect(op) \in {"release", "consume"} => lines = items[o]
  BY <1>0, <1>1 DEF PartsEffect, Compensates, VersionChecked, WritesOrder
<1>10. PartsEffect(op) = "none" => UNCHANGED Saga!stockVars
  BY <1>8 DEF Saga!stockVars
<1>11. PartsEffect(op) = "release" => Saga!ReleaseReservations(o)
  BY <1>8, <1>9 DEF Saga!ReleaseReservations, Saga!CanRelease
<1>12. PartsEffect(op) = "consume" => Saga!Consume(o)
  BY <1>8, <1>9 DEF Saga!Consume, Saga!CanConsume
<1> QED
  BY <1>0, <1>1, <1>2, <1>4, <1>5, <1>6, <1>10, <1>11, <1>12 DEF Saga!orderVars, Saga!Send

\* A message that expects the status it finds, or writes nothing, as one step.
LEMMA CommitConfirms ==
    ASSUME IInv, Isolation, NEW s \in Session, Commit(s), IsMessage(tx[s].op), ~ WritesOrder(tx[s].op)
    PROVE  LET op == tx[s].op IN
           Saga!HandleReply(op, op.order) \/ Saga!HandleFailedCommand(op, op.order)
<1> DEFINE op == tx[s].op
           o == op.order
<1>1. op \in Operation /\ op \in Message /\ Saga!Record(op) /\ items' = items
      /\ (op.kind = "reply" => op.type \in SagaReplyType)
      /\ (op.kind = "dead" => op.type \in SagaCommandType)
  BY CommitKnows, CommitOfMessage, OperationType
<1>2. \/ op.kind = "reply" /\ op.type \in {"ExecutionCancelled", "BudgetCancelled"}
      \/ op.kind = "dead" /\ op.type \notin Compensable
  BY DEF WritesOrder
<1>3. NewStatus(op, status[o]) = status[o] /\ Commands(op, tx[s].lines) = <<>> /\ PartsEffect(op) = "none"
  BY <1>2 DEF NewStatus, Commands, PartsEffect, Compensates, Saga!Target
<1>4. UNCHANGED <<Saga!orderVars, Saga!lineVars, budgetTotal, Saga!stockVars, outbox>>
  BY <1>1, <1>2, <1>3, CommitOfMessage DEF Saga!lineVars
<1>5. CASE op.kind = "reply"
  <2>1. Saga!CompensationConfirmed(op, o, op.type) \/ Saga!IgnoredReply(op, o, op.type)
    BY <1>1, <1>2, <1>4, <1>5, SameExpectations
       DEF Saga!CompensationConfirmed, Saga!IgnoredReply, Saga!Ignored, Saga!Accepted, Saga!Record
  <2> QED
    BY <1>1, <1>5, <2>1, SameExpectations DEF Saga!HandleReply
<1>6. CASE op.kind = "dead"
  <2>1. Saga!ReportStuck(op, o, op.type) \/ Saga!IgnoredFailure(op, o, op.type)
    BY <1>1, <1>2, <1>4, <1>6, SameExpectations, SameTables
       DEF Saga!ReportStuck, Saga!IgnoredFailure, Saga!Ignored, Saga!Accepted, Saga!Record
  <2> QED
    BY <1>1, <1>6, <2>1, SameTables DEF Saga!HandleFailedCommand
<1> QED
  BY <1>2, <1>5, <1>6

LEMMA CommitReplies ==
    ASSUME IInv, Isolation, NEW s \in Session, Commit(s),
           tx[s].op.kind = "reply", WritesOrder(tx[s].op)
    PROVE  Saga!HandleReply(tx[s].op, tx[s].op.order)
<1> DEFINE op == tx[s].op
           o == op.order
           r == op.type
           lines == tx[s].lines
<1>0. op \in Operation /\ r \in SagaReplyType /\ IsMessage(op) /\ VersionChecked(op)
  BY CommitKnows, OperationType DEF IsMessage, VersionChecked
<1>1. /\ Saga!Record(op) /\ o \in OrderId /\ items' = items /\ lines = items[o]
      /\ status[o] \in ExpectedStatus(op)
      /\ r # "BudgetGenerated" => budgetTotal' = budgetTotal
      /\ Saga!Send(o, Commands(op, lines))
      /\ Commands(op, lines) = <<>> => outbox' = outbox
      /\ PartsEffect(op) = "none" => UNCHANGED Saga!stockVars
  BY <1>0, CommitOfMessage
<1>2. /\ ExpectedStatus(op) = EXPECTED_STATUS(r)
      /\ Saga!Accepted(op, o, Saga!EXPECTED_STATUS(r))
      /\ UNCHANGED Saga!lineVars
  BY <1>1, SameExpectations DEF ExpectedStatus, Saga!Accepted, Saga!Record, Saga!lineVars
<1>3. r \in DOMAIN Saga!Target => NewStatus(op, status[o]) = Saga!Target[r]
  BY DEF NewStatus
<1>4. ASSUME NEW to \in OSStatus, r \in DOMAIN Saga!Target, Saga!Target[r] = to, to \notin EXPECTED_STATUS(r)
      PROVE  Saga!MoveTo(o, to)
  BY <1>0, <1>2, <1>3, <1>4, CommitMovesOn
<1>5. CASE r = "DiagnosisStarted"
  <2>1. /\ Commands(op, lines) = <<>>
        /\ PartsEffect(op) = "none"
    BY <1>5 DEF Commands, PartsEffect, Compensates
  <2>2. Saga!MoveTo(o, "DIAGNOSIS")
    <3>1. r \in DOMAIN Saga!Target /\ Saga!Target[r] = "DIAGNOSIS"
      BY <1>5 DEF Saga!Target
    <3>2. "DIAGNOSIS" \in OSStatus /\ "DIAGNOSIS" \notin EXPECTED_STATUS(r)
      BY <1>5 DEF OSStatus, EXPECTED_STATUS
    <3> QED
      BY <1>4, <3>1, <3>2
  <2> QED
    BY <1>1, <1>2, <1>5, <2>1, <2>2 DEF Saga!DiagnosisStarted, Saga!HandleReply
<1>6. CASE r = "DiagnosisCompleted"
  <2>1. /\ Commands(op, lines) = <<[Saga!Cmd("GenerateBudget") EXCEPT !.items = lines]>>
        /\ PartsEffect(op) = "none"
    BY <1>6 DEF Commands, PartsEffect, Compensates
  <2>2. Saga!MoveTo(o, "WAITING_APPROVAL")
    <3>1. r \in DOMAIN Saga!Target /\ Saga!Target[r] = "WAITING_APPROVAL"
      BY <1>6 DEF Saga!Target
    <3>2. "WAITING_APPROVAL" \in OSStatus /\ "WAITING_APPROVAL" \notin EXPECTED_STATUS(r)
      BY <1>6 DEF OSStatus, EXPECTED_STATUS
    <3> QED
      BY <1>4, <3>1, <3>2
  <2>3. [Saga!Cmd("GenerateBudget") EXCEPT !.items = items[o]]
          = [type |-> "GenerateBudget", items |-> items[o], services |-> {}]
    BY DEF Saga!Cmd
  <2> QED
    BY <1>1, <1>2, <1>6, <2>1, <2>2, <2>3 DEF Saga!DiagnosisCompleted, Saga!HandleReply
<1>7. CASE r = "BudgetApproved"
  <2>1. /\ Commands(op, lines) = <<Saga!Cmd("RequestPayment")>>
        /\ PartsEffect(op) = "none"
    BY <1>7 DEF Commands, PartsEffect, Compensates
  <2>2. Saga!MoveTo(o, "APPROVED")
    <3>1. r \in DOMAIN Saga!Target /\ Saga!Target[r] = "APPROVED"
      BY <1>7 DEF Saga!Target
    <3>2. "APPROVED" \in OSStatus /\ "APPROVED" \notin EXPECTED_STATUS(r)
      BY <1>7 DEF OSStatus, EXPECTED_STATUS
    <3> QED
      BY <1>4, <3>1, <3>2
  <2> QED
    BY <1>1, <1>2, <1>7, <2>1, <2>2 DEF Saga!BudgetApproved, Saga!HandleReply
<1>8. CASE r = "BudgetRejected"
  <2>1. /\ Commands(op, lines) = <<Saga!Cmd("CancelExecution")>>
        /\ PartsEffect(op) = "release"
    BY <1>8 DEF Commands, PartsEffect, Compensates
  <2>2. Saga!MoveTo(o, "REJECTED")
    <3>1. r \in DOMAIN Saga!Target /\ Saga!Target[r] = "REJECTED"
      BY <1>8 DEF Saga!Target
    <3>2. "REJECTED" \in OSStatus /\ "REJECTED" \notin EXPECTED_STATUS(r)
      BY <1>8 DEF OSStatus, EXPECTED_STATUS
    <3> QED
      BY <1>4, <3>1, <3>2
  <2>3. Saga!ReleaseReservations(o)
    BY <1>0, <2>1, CommitOfMessage
  <2> QED
    BY <1>1, <1>2, <1>8, <2>1, <2>2, <2>3 DEF Saga!BudgetRejected, Saga!HandleReply
<1>9. CASE r = "PaymentConfirmed"
  <2>1. /\ Commands(op, lines) = <<Saga!Cmd("EnqueueRepair")>>
        /\ PartsEffect(op) = "consume"
    BY <1>9 DEF Commands, PartsEffect, Compensates
  <2>2. Saga!MoveTo(o, "PAID")
    <3>1. r \in DOMAIN Saga!Target /\ Saga!Target[r] = "PAID"
      BY <1>9 DEF Saga!Target
    <3>2. "PAID" \in OSStatus /\ "PAID" \notin EXPECTED_STATUS(r)
      BY <1>9 DEF OSStatus, EXPECTED_STATUS
    <3> QED
      BY <1>4, <3>1, <3>2
  <2>3. Saga!Consume(o)
    BY <1>0, <2>1, CommitOfMessage
  <2> QED
    BY <1>1, <1>2, <1>9, <2>1, <2>2, <2>3 DEF Saga!PaymentConfirmed, Saga!Cmd, Saga!HandleReply
<1>10. CASE r = "PaymentFailed"
  <2>1. /\ Commands(op, lines) = <<Saga!Cmd("CancelExecution"), Saga!Cmd("CancelBudget")>>
        /\ PartsEffect(op) = "release"
    BY <1>10 DEF Commands, PartsEffect, Compensates
  <2>2. Saga!MoveTo(o, "CANCELLED")
    <3>1. r \in DOMAIN Saga!Target /\ Saga!Target[r] = "CANCELLED"
      BY <1>10 DEF Saga!Target
    <3>2. "CANCELLED" \in OSStatus /\ "CANCELLED" \notin EXPECTED_STATUS(r)
      BY <1>10 DEF OSStatus, EXPECTED_STATUS
    <3> QED
      BY <1>4, <3>1, <3>2
  <2>3. Saga!ReleaseReservations(o)
    BY <1>0, <2>1, CommitOfMessage
  <2> QED
    BY <1>1, <1>2, <1>10, <2>1, <2>2, <2>3 DEF Saga!PaymentFailed, Saga!HandleReply
<1>11. CASE r = "RepairStarted"
  <2>1. /\ Commands(op, lines) = <<>>
        /\ PartsEffect(op) = "none"
    BY <1>11 DEF Commands, PartsEffect, Compensates
  <2>2. Saga!MoveTo(o, "EXECUTION")
    <3>1. r \in DOMAIN Saga!Target /\ Saga!Target[r] = "EXECUTION"
      BY <1>11 DEF Saga!Target
    <3>2. "EXECUTION" \in OSStatus /\ "EXECUTION" \notin EXPECTED_STATUS(r)
      BY <1>11 DEF OSStatus, EXPECTED_STATUS
    <3> QED
      BY <1>4, <3>1, <3>2
  <2> QED
    BY <1>1, <1>2, <1>11, <2>1, <2>2 DEF Saga!RepairStarted, Saga!HandleReply
<1>12. CASE r = "RepairCompleted"
  <2>1. /\ Commands(op, lines) = <<>>
        /\ PartsEffect(op) = "none"
    BY <1>12 DEF Commands, PartsEffect, Compensates
  <2>2. Saga!MoveTo(o, "FINISHED")
    <3>1. r \in DOMAIN Saga!Target /\ Saga!Target[r] = "FINISHED"
      BY <1>12 DEF Saga!Target
    <3>2. "FINISHED" \in OSStatus /\ "FINISHED" \notin EXPECTED_STATUS(r)
      BY <1>12 DEF OSStatus, EXPECTED_STATUS
    <3> QED
      BY <1>4, <3>1, <3>2
  <2> QED
    BY <1>1, <1>2, <1>12, <2>1, <2>2 DEF Saga!RepairCompleted, Saga!HandleReply
<1>13. CASE r = "BudgetGenerated"
  <2>1. Commands(op, lines) = <<>> /\ PartsEffect(op) = "none" /\ NewStatus(op, status[o]) = status[o]
    BY <1>13 DEF Commands, PartsEffect, Compensates, NewStatus, Saga!Target
  <2>2. budgetTotal' = [budgetTotal EXCEPT ![o] = TRUE] /\ UNCHANGED Saga!orderVars
    BY <1>0, <1>13, <2>1, CommitOfMessage
  <2> QED
    BY <1>1, <1>2, <1>13, <2>1, <2>2 DEF Saga!BudgetGenerated, Saga!HandleReply
<1>14. r \notin {"ExecutionCancelled", "BudgetCancelled"}
  BY DEF WritesOrder
<1> QED
  BY <1>0, <1>5, <1>6, <1>7, <1>8, <1>9, <1>10, <1>11, <1>12, <1>13, <1>14 DEF SagaReplyType

LEMMA CommitFails ==
    ASSUME IInv, Isolation, NEW s \in Session, Commit(s),
           tx[s].op.kind = "dead", WritesOrder(tx[s].op)
    PROVE  Saga!HandleFailedCommand(tx[s].op, tx[s].op.order)
<1> DEFINE op == tx[s].op
           o == op.order
           c == op.type
<1>0. /\ op \in Operation /\ c \in SagaCommandType /\ c \in Compensable
      /\ IsMessage(op) /\ VersionChecked(op)
  BY CommitKnows, OperationType DEF IsMessage, VersionChecked, WritesOrder
<1>1. /\ Commands(op, tx[s].lines) = Saga!CancelCommands(c) /\ PartsEffect(op) = "release"
      /\ NewStatus(op, status[o]) = "CANCELLED" /\ ExpectedStatus(op) = ExpectedOfFailed(c)
  BY <1>0 DEF Commands, PartsEffect, Compensates, NewStatus, ExpectedStatus
<1>2. /\ Saga!Record(op) /\ items' = items /\ status[o] \in ExpectedStatus(op)
      /\ budgetTotal' = budgetTotal /\ Saga!Send(o, Saga!CancelCommands(c))
      /\ Saga!ReleaseReservations(o)
  BY <1>0, <1>1, CommitOfMessage
<1>3. "CANCELLED" \in OSStatus /\ "CANCELLED" \notin ExpectedOfFailed(c)
  BY <1>0 DEF OSStatus, ExpectedOfFailed, Compensable
<1>4. Saga!MoveTo(o, "CANCELLED")
  BY <1>0, <1>1, <1>3, CommitMovesOn
<1>5. Saga!StepFailed(op, o, c)
  BY <1>0, <1>1, <1>2, <1>4, SameExpectations DEF Saga!StepFailed, Saga!Accepted, Saga!Record, Saga!lineVars
<1> QED
  BY <1>0, <1>5, SameTables DEF Saga!HandleFailedCommand

\* One commit, whatever the operation, is one step of the saga.
LEMMA CommitIsOneStep ==
    ASSUME NoEdits, IInv, Isolation, NEW s \in Session, Commit(s)
    PROVE  Saga!Next
<1> DEFINE op == tx[s].op
           o == op.order
<1>1. op \in Operation /\ o \in OrderId /\ op.kind \in {"reply", "dead", "create", "deliver"}
  BY CommitKnows, NoEditRuns
<1>2. CASE op.kind = "create"
  <2>1. op.lines \in Saga!RequestedLines
    BY <1>2, OpenedLines
  <2> QED
    BY <1>1, <1>2, <2>1, CommitOpens DEF Saga!Next, Saga!Request
<1>3. CASE op.kind = "deliver"
  BY <1>1, <1>3, CommitDelivers DEF Saga!Next, Saga!Request
<1>4. CASE IsMessage(op)
  <2>1. op \in Message
    BY <1>4, CommitOfMessage
  <2>2. Saga!HandleReply(op, o) \/ Saga!HandleFailedCommand(op, o)
    BY <1>4, CommitConfirms, CommitReplies, CommitFails DEF IsMessage
  <2> QED
    BY <1>1, <2>1, <2>2 DEF Saga!Next
<1> QED
  BY <1>1, <1>2, <1>3, <1>4 DEF IsMessage

\* A message dropped for its status is one step of the saga too.
LEMMA IgnoringIsOneStep ==
    ASSUME IInv, Isolation, NEW s \in Session, CommitIgnored(s)
    PROVE  Saga!Next
<1> DEFINE op == tx[s].op
           o == op.order
<1>1. Busy(s) /\ tx[s].at = "ignored"
  BY DEF CommitIgnored, Busy, Idle
<1>2. IsMessage(op) /\ op \notin processed /\ status[o] \notin ExpectedStatus(op)
  BY <1>1 DEF Isolation, MessagesAlone, OnlyMessagesAreIgnored
<1>3. op \in Operation /\ o \in OrderId /\ op \in Message
  <2>1. op \in Operation /\ o \in OrderId
    BY <1>1, UnitType DEF IInv
  <2> QED
    BY <1>2, <2>1, OperationAssumption DEF Operation, IsMessage
<1>4. UNCHANGED <<Saga!orderVars, Saga!lineVars, budgetTotal, Saga!stockVars, outbox>> /\ Saga!Record(op)
  BY <1>2 DEF CommitIgnored, Recorded, Saga!Record, Saga!orderVars, Saga!lineVars, Saga!stockVars
<1>5. CASE op.kind = "reply"
  <2>1. op.type \in SagaReplyType /\ ExpectedStatus(op) = EXPECTED_STATUS(op.type)
    BY <1>3, <1>5, OperationType DEF ExpectedStatus
  <2>2. Saga!IgnoredReply(op, o, op.type)
    BY <1>2, <1>4, <2>1, SameExpectations DEF Saga!IgnoredReply, Saga!Ignored
  <2> QED
    BY <1>3, <2>1, <2>2, SameExpectations DEF Saga!Next, Saga!HandleReply
<1>6. CASE op.kind = "dead"
  <2>1. op.type \in SagaCommandType /\ ExpectedStatus(op) = ExpectedOfFailed(op.type)
    BY <1>3, <1>6, OperationType DEF ExpectedStatus
  <2>2. Saga!IgnoredFailure(op, o, op.type)
    BY <1>2, <1>4, <2>1, SameExpectations DEF Saga!IgnoredFailure, Saga!Ignored
  <2> QED
    BY <1>3, <2>1, <2>2, SameTables DEF Saga!Next, Saga!HandleFailedCommand
<1> QED
  BY <1>2, <1>5, <1>6 DEF IsMessage

LEMMA UpdateStockIsOneStep ==
    ASSUME IInv, Isolation, NEW i \in ItemId, NEW n \in StockLevel, UpdateStock(i, n)
    PROVE  Saga!Next
<1>1. stock \in [ItemId -> Nat] /\ reserved \in [ItemId -> Nat] /\ n \in Nat
  BY OperationAssumption DEF IInv, TypeOK, Saga!TypeOK
<1>2. \A j \in ItemId : reserved[j] <= stock[j]
  BY DEF Isolation, StockCovers
<1>3. Saga!StockCheck
  BY <1>1, <1>2 DEF UpdateStock, Saga!StockCheck
<1>4. Saga!UpdateStock(i, n)
  BY <1>3 DEF UpdateStock, Saga!UpdateStock, Saga!orderVars, Saga!lineVars
<1> QED
  BY <1>4 DEF Saga!Next, Saga!Request

\* Run statement by statement and interleaved in any way, the units of work of the
\* messages, the openings and the deliveries act as if each ran alone: every
\* commit is one step of ServiceOrderSaga, and every other statement is none.
THEOREM SagaImplemented ==
    ASSUME NoEdits
    PROVE  Spec => ImplementsSaga
<1>1. Init => Saga!Init
  BY DEF Init
<1>2. IInv /\ Isolation /\ [Next]_vars => [Saga!Next]_(Saga!vars)
  <2> SUFFICES ASSUME IInv, Isolation, [Next]_vars PROVE [Saga!Next]_(Saga!vars)
    OBVIOUS
  <2>1. CASE UNCHANGED tables
    BY <2>1 DEF tables, Saga!vars
  <2>2. ASSUME NEW s \in Session, Statement(s)
        PROVE  UNCHANGED tables \/ Saga!Next
    BY <2>2, CommitIsOneStep, IgnoringIsOneStep
       DEF Statement, RecordMessage, BeginRequest, ReadOrder, ReadItem, WriteItem, Abort
  <2> QED
    BY <2>1, <2>2, UpdateStockIsOneStep DEF Next, vars
<1> QED
  BY <1>1, <1>2, InvAlways, IsolationAlways, PTL DEF Spec, ImplementsSaga, Saga!Spec
-----------------------------------------------------------------------------
(* What is proved of the saga holds then of the committed tables.          *)

LEMMA SameSaga ==
    /\ Saga!Init => Facts!Init
    /\ Saga!Next => Facts!Next
<1>1. Saga!Init => Facts!Init
  BY DEF Saga!Init, Facts!Init, Saga!NoLines, Facts!NoLines
<1>2. Saga!Request => Facts!Request
  BY DEF Saga!Request, Facts!Request,
      Saga!CreateServiceOrder, Facts!CreateServiceOrder, Saga!AddItem, Facts!AddItem,
      Saga!RemoveItem, Facts!RemoveItem, Saga!AddService, Facts!AddService, Saga!RemoveService,
      Facts!RemoveService, Saga!Deliver, Facts!Deliver, Saga!UpdateStock, Facts!UpdateStock,
      Saga!DeleteCustomer, Facts!DeleteCustomer, Saga!Editable, Facts!Editable, Saga!MoveTo,
      Facts!MoveTo, Saga!canTransition, Facts!canTransition, Saga!OSStatus, Facts!OSStatus,
      Saga!VALID_TRANSITIONS, Facts!VALID_TRANSITIONS, Saga!StockCheck, Facts!StockCheck,
      Saga!RequestedLines, Facts!RequestedLines, Saga!Send, Facts!Send, Saga!Cmd, Facts!Cmd,
      Saga!NoLines, Facts!NoLines, Saga!orderVars, Facts!orderVars, Saga!lineVars, Facts!lineVars,
      Saga!stockVars, Facts!stockVars
<1>3. ASSUME NEW id \in Message, NEW o \in OrderId, Saga!HandleReply(id, o)
      PROVE  Facts!HandleReply(id, o)
  BY <1>3 DEF Saga!HandleReply, Facts!HandleReply,
      Saga!DiagnosisStarted, Facts!DiagnosisStarted, Saga!DiagnosisCompleted,
      Facts!DiagnosisCompleted, Saga!BudgetGenerated, Facts!BudgetGenerated, Saga!BudgetApproved,
      Facts!BudgetApproved, Saga!BudgetRejected, Facts!BudgetRejected, Saga!PaymentConfirmed,
      Facts!PaymentConfirmed, Saga!PaymentFailed, Facts!PaymentFailed, Saga!RepairStarted,
      Facts!RepairStarted, Saga!RepairCompleted, Facts!RepairCompleted,
      Saga!CompensationConfirmed, Facts!CompensationConfirmed, Saga!IgnoredReply,
      Facts!IgnoredReply, Saga!Ignored, Facts!Ignored, Saga!Accepted, Facts!Accepted, Saga!Record,
      Facts!Record, Saga!EXPECTED_STATUS, Facts!EXPECTED_STATUS, Saga!SagaReplyType,
      Facts!SagaReplyType, Saga!ReleaseReservations, Facts!ReleaseReservations, Saga!CanRelease,
      Facts!CanRelease, Saga!Consume, Facts!Consume, Saga!CanConsume, Facts!CanConsume,
      Saga!MoveTo, Facts!MoveTo, Saga!canTransition, Facts!canTransition, Saga!OSStatus,
      Facts!OSStatus, Saga!VALID_TRANSITIONS, Facts!VALID_TRANSITIONS, Saga!Send, Facts!Send,
      Saga!Cmd, Facts!Cmd, Saga!NoLines, Facts!NoLines, Saga!orderVars, Facts!orderVars,
      Saga!lineVars, Facts!lineVars, Saga!stockVars, Facts!stockVars
<1>4. ASSUME NEW id \in Message, NEW o \in OrderId, Saga!HandleFailedCommand(id, o)
      PROVE  Facts!HandleFailedCommand(id, o)
  BY <1>4 DEF Saga!HandleFailedCommand, Facts!HandleFailedCommand,
      Saga!StepFailed, Facts!StepFailed, Saga!ReportStuck, Facts!ReportStuck, Saga!IgnoredFailure,
      Facts!IgnoredFailure, Saga!Ignored, Facts!Ignored, Saga!Accepted, Facts!Accepted,
      Saga!Record, Facts!Record, Saga!ExpectedOfFailed, Facts!ExpectedOfFailed, Saga!Compensable,
      Facts!Compensable, Saga!SagaCommandType, Facts!SagaCommandType, Saga!CancelCommands,
      Facts!CancelCommands, Saga!ReleaseReservations, Facts!ReleaseReservations, Saga!CanRelease,
      Facts!CanRelease, Saga!MoveTo, Facts!MoveTo, Saga!canTransition, Facts!canTransition,
      Saga!OSStatus, Facts!OSStatus, Saga!VALID_TRANSITIONS, Facts!VALID_TRANSITIONS, Saga!Send,
      Facts!Send, Saga!Cmd, Facts!Cmd, Saga!NoLines, Facts!NoLines, Saga!orderVars,
      Facts!orderVars, Saga!lineVars, Facts!lineVars, Saga!stockVars, Facts!stockVars
<1>5. ASSUME NEW id \in Message, Saga!Duplicate(id)
      PROVE  Facts!Duplicate(id)
  BY <1>5 DEF Saga!Duplicate, Facts!Duplicate, Saga!vars, Facts!vars
<1> QED
  BY <1>1, <1>2, <1>3, <1>4, <1>5 DEF Saga!Next, Facts!Next

\* Without edits the reservations hold, as they do when each unit of work runs alone.
THEOREM ReservationsHold ==
    ASSUME NoEdits
    PROVE  Spec => []ReservationsBackOpenOrders
<1>1. Spec => Saga!Spec
  BY SagaImplemented DEF ImplementsSaga
<1>2. Saga!Spec => Facts!Spec
  <2>1. Saga!vars = Facts!vars
    BY DEF Saga!vars, Facts!vars
  <2>2. [Saga!Next]_(Saga!vars) => [Facts!Next]_(Facts!vars)
    BY <2>1, SameSaga DEF Saga!vars, Facts!vars
  <2> QED
    BY <2>2, SameSaga, PTL DEF Saga!Spec, Facts!Spec
<1>3. Facts!Spec => []Facts!ReservationsBackOpenOrders
  BY SagaParameters, Facts!ReservationsCorrect
<1>4. Facts!ReservationsBackOpenOrders => ReservationsBackOpenOrders
  BY DEF Facts!ReservationsBackOpenOrders, ReservationsBackOpenOrders, Saga!ReservationsBackOpenOrders,
     Facts!Holding, Saga!Holding, Saga!MapThenSumSet, Facts!MapThenSumSet, Saga!MapThenFoldSet, Facts!MapThenFoldSet
<1> QED
  BY <1>1, <1>2, <1>3, <1>4, PTL
=============================================================================
