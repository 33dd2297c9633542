---------------------------- MODULE OutboxRelay ----------------------------
(***************************************************************************)
(* The transactional outbox: the transactions that add rows to it, the     *)
(* relays that publish it and the command queues they send to.             *)
(*   use-cases/messaging/PublishPendingMessagesUseCase.ts                  *)
(*   frameworks/messaging/OutboxRelay.ts                                   *)
(*   adapters/gateways/PrismaOutbox.ts, PrismaOutboxStore.ts               *)
(*   adapters/messaging/SqsMessageSender.ts                                *)
(*                                                                         *)
(* Every replica of the service runs a relay and nothing keeps two of them *)
(* from reading the same rows.  A relay may stop anywhere, a send may fail *)
(* or succeed without the answer coming back, and the queue recognizes a   *)
(* repeated message only for a while.                                      *)
(***************************************************************************)
EXTENDS Naturals, Sequences

CONSTANTS
    Order,            \* service orders
    Queue,            \* 'billing-commands', 'execution-commands'
    Relay,            \* one relay per replica
    BatchSize,        \* OutboxRelayOptions.batchSize
    MaxTransactions,  \* bound: transactions that write to the outbox
    MaxCopies         \* bound: copies of a message that reach a queue

ASSUME OutboxAssumption ==
    /\ BatchSize \in Nat \ {0}
    /\ MaxTransactions \in Nat
    /\ MaxCopies \in Nat

VARIABLES
    clock,       \* created_at of the newest transaction
    open,        \* rows of transactions not committed yet
    rows,        \* outbox_messages
    published,   \* rows whose published_at is set
    phase,       \* where each relay is
    batch,       \* rows each relay found and has not marked yet
    queue,       \* messages each queue accepted, per message group
    remembered   \* message ids inside the deduplication window

tableVars == <<clock, open, rows>>
relayVars == <<phase, batch>>
queueVars == <<queue, remembered>>
vars == <<tableVars, published, relayVars, queueVars>>

\* An outbox row. The rows of one transaction share created_at.
Row == [order : Order, queue : Queue, at : Nat]

Group == Order \X Queue

TypeOK ==
    /\ clock \in Nat
    /\ open \subseteq Row
    /\ rows \subseteq Row
    /\ published \subseteq rows
    /\ phase \in [Relay -> {"off", "idle", "send", "mark"}]
    /\ batch \in [Relay -> Seq(Row)]
    /\ queue \in [Group -> Seq(Row)]
    /\ remembered \subseteq Row

Init ==
    /\ clock = 0
    /\ open = {}
    /\ rows = {}
    /\ published = {}
    /\ phase = [r \in Relay |-> "off"]
    /\ batch = [r \in Relay |-> <<>>]
    /\ queue = [g \in Group |-> <<>>]
    /\ remembered = {}

-----------------------------------------------------------------------------
(* Units of work that call outbox.add.                                     *)

\* The transactions that write for one order follow each other: each claims the
\* version of the order, and one that runs while another commits a command will
\* not add any (SendersFollowEachOther in OrderTransactionsProofs).
Begin(o, queues) ==
    /\ clock < MaxTransactions
    /\ \A x \in open : x.order # o
    /\ clock' = clock + 1
    /\ open' = open \cup {[order |-> o, queue |-> q, at |-> clock + 1] : q \in queues}
    /\ UNCHANGED <<rows, published, relayVars, queueVars>>

\* Two transactions of different orders may commit in either order, whatever
\* their created_at.
Commit(o) ==
    /\ \E x \in open : x.order = o
    /\ rows' = rows \cup {x \in open : x.order = o}
    /\ open' = {x \in open : x.order # o}
    /\ UNCHANGED <<clock, published, relayVars, queueVars>>

Rollback(o) ==
    /\ \E x \in open : x.order = o
    /\ open' = {x \in open : x.order # o}
    /\ UNCHANGED <<clock, rows, published, relayVars, queueVars>>

-----------------------------------------------------------------------------
(* The relay: one cycle after another, each of them execute().             *)

Pending == rows \ published

\* findPending: the oldest unpublished rows, as many as fit; rows of the same
\* created_at come in any order.
IsBatch(s) ==
    /\ \A i, j \in DOMAIN s : i < j => s[i] # s[j] /\ s[i].at <= s[j].at
    /\ \A m \in Pending :
          \/ \E i \in DOMAIN s : s[i] = m
          \/ Len(s) = BatchSize /\ \A i \in DOMAIN s : s[i].at <= m.at

Sequences(n) == UNION {[1 .. k -> Pending] : k \in 1 .. n}

Start(r) ==
    /\ phase[r] = "off"
    /\ phase' = [phase EXCEPT ![r] = "idle"]
    /\ UNCHANGED <<tableVars, published, batch, queueVars>>

FindPending(r) ==
    /\ phase[r] = "idle"
    /\ \E s \in Sequences(BatchSize) :
          IsBatch(s) /\ batch' = [batch EXCEPT ![r] = s]
    /\ phase' = [phase EXCEPT ![r] = "send"]
    /\ UNCHANGED <<tableVars, published, queueVars>>

\* The queue takes a message once per deduplication window.
Accept(m) ==
    /\ queue' = IF m \in remembered THEN queue
                ELSE [queue EXCEPT ![<<m.order, m.queue>>] = Append(@, m)]
    /\ remembered' = remembered \cup {m}

Send(r) ==
    /\ phase[r] = "send"
    /\ Accept(Head(batch[r]))
    /\ phase' = [phase EXCEPT ![r] = "mark"]
    /\ UNCHANGED <<tableVars, published, batch>>

\* The cycle ends with an exception, which runOnce catches.
EndCycle(r) ==
    /\ phase' = [phase EXCEPT ![r] = "idle"]
    /\ batch' = [batch EXCEPT ![r] = <<>>]

\* A slip: the message that failed is skipped and the batch goes on.
SendFails_GoesOn(r) ==
    /\ phase[r] = "send"
    /\ batch' = [batch EXCEPT ![r] = Tail(@)]
    /\ phase' = [phase EXCEPT ![r] = IF Len(batch[r]) = 1 THEN "idle" ELSE "send"]
    /\ UNCHANGED <<tableVars, published, queueVars>>

\* A slip: the exception leaves runOnce, and no further cycle is scheduled.
SendFails_EndsLoop(r) ==
    /\ phase[r] = "send"
    /\ phase' = [phase EXCEPT ![r] = "dead"]
    /\ batch' = [batch EXCEPT ![r] = <<>>]
    /\ UNCHANGED <<tableVars, published, queueVars>>

SendFails(r) ==
    /\ phase[r] = "send"
    /\ EndCycle(r)
    /\ UNCHANGED <<tableVars, published, queueVars>>

\* The queue has the message, and the sender an error.
AnswerLost(r) ==
    /\ phase[r] = "send"
    /\ Accept(Head(batch[r]))
    /\ EndCycle(r)
    /\ UNCHANGED <<tableVars, published>>

\* A slip: the whole batch is marked after the first message is sent.
MarkPublished_Batch(r) ==
    /\ phase[r] = "mark"
    /\ published' = published \cup {batch[r][i] : i \in DOMAIN batch[r]}
    /\ batch' = [batch EXCEPT ![r] = Tail(@)]
    /\ phase' = [phase EXCEPT ![r] = IF Len(batch[r]) = 1 THEN "idle" ELSE "send"]
    /\ UNCHANGED <<tableVars, queueVars>>

MarkPublished(r) ==
    /\ phase[r] = "mark"
    /\ published' = published \cup {Head(batch[r])}
    /\ batch' = [batch EXCEPT ![r] = Tail(@)]
    /\ phase' = [phase EXCEPT ![r] = IF Len(batch[r]) = 1 THEN "idle" ELSE "send"]
    /\ UNCHANGED <<tableVars, queueVars>>

MarkFails(r) ==
    /\ phase[r] = "mark"
    /\ EndCycle(r)
    /\ UNCHANGED <<tableVars, published, queueVars>>

\* The process ends. A stop that is asked for waits for the cycle, so it is
\* the case of an idle relay.
Crash(r) ==
    /\ phase[r] # "off"
    /\ phase' = [phase EXCEPT ![r] = "off"]
    /\ batch' = [batch EXCEPT ![r] = <<>>]
    /\ UNCHANGED <<tableVars, published, queueVars>>

Copies(m) ==
    LET q == queue[<<m.order, m.queue>>] IN Len(SelectSeq(q, LAMBDA n : n = m))

\* Five minutes pass.
Forget(m) ==
    /\ m \in remembered
    /\ Copies(m) < MaxCopies
    /\ remembered' = remembered \ {m}
    /\ UNCHANGED <<tableVars, published, relayVars, queue>>

-----------------------------------------------------------------------------
Work(r) ==
    \/ Start(r) \/ FindPending(r) \/ Send(r) \/ MarkPublished(r)
    \/ SendFails(r) \/ AnswerLost(r) \/ MarkFails(r) \/ Crash(r)

Next ==
    \/ \E o \in Order, queues \in SUBSET Queue \ {{}} : Begin(o, queues)
    \/ \E o \in Order : Commit(o) \/ Rollback(o)
    \/ \E r \in Relay : Work(r)
    \/ \E m \in remembered : Forget(m)

Spec == Init /\ [][Next]_vars

\* A relay runs cycle after cycle for ever, whatever happened in the last one
\* (schedule), and a process that stopped is started again (WF). The queue and
\* the database may be away, or the process stop, any number of times, but not
\* at the same call for ever: hence SF for the three calls of a cycle.
Fairness ==
    \A r \in Relay :
        /\ WF_vars(Start(r))
        /\ SF_vars(FindPending(r)) /\ SF_vars(Send(r)) /\ SF_vars(MarkPublished(r))

FairSpec == Spec /\ Fairness
-----------------------------------------------------------------------------
(* Properties.                                                             *)

Accepted(m) ==
    \E k \in DOMAIN queue[<<m.order, m.queue>>] : queue[<<m.order, m.queue>>][k] = m

\* A row marked published is in its queue, wherever processes stopped and
\* whatever failed: no message is lost, since a row not marked is found again.
PublishedIsAccepted == \A m \in published : Accepted(m)

\* However many relays send the same rows, and however late, a queue receives
\* the messages of an order for the first time in the order in which they were
\* requested, only committed ones, and all else it receives are repeats.
Commands == INSTANCE CommandChannel WITH requested <- rows, channel <- queue

ImplementsChannel == Commands!Spec

\* Every committed message reaches its queue, even if its transaction commits
\* after ones with a later created_at, and is marked, so the backlog drains.
EveryRowIsPublished ==
    \A o \in Order, q \in Queue, t \in 1 .. MaxTransactions :
        LET m == [order |-> o, queue |-> q, at |-> t] IN
        m \in rows ~> Accepted(m) /\ m \in published
=============================================================================
