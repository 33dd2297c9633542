----------------------------- MODULE ReplyQueue -----------------------------
(***************************************************************************)
(* A FIFO queue of SQS and the pollers that read it, one per replica.      *)
(*   frameworks/messaging/SqsQueuePoller.ts                                *)
(*   adapters/messaging/parseEnvelope.ts, SagaReplyHandler.ts,             *)
(*   FailedCommandHandler.ts                                               *)
(*   scripts/localstack/create-queues.sh (the settings of the queues)        *)
(*                                                                         *)
(* The module stands for saga-replies and, with no limit of receives, for  *)
(* the two dead-letter queues of commands, which have no redrive policy    *)
(* and are read by the same poller with another handler.                   *)
(***************************************************************************)
EXTENDS Naturals, Sequences, FiniteSets

CONSTANTS
    Order,         \* a service order is a message group
    Replica,       \* one poller of this queue per replica
    MaxMessages,   \* QueuePollerOptions.maxMessages
    MaxReceives,   \* maxReceiveCount of the redrive policies; 0 is none
    MaxSent        \* bound: messages sent

ASSUME QueueAssumption ==
    /\ MaxMessages \in Nat \ {0}
    /\ MaxReceives \subseteq Nat
    /\ MaxSent \in Nat

VARIABLES
    limit,      \* the limit of receives of this queue
    sent,       \* messages the queue accepted
    waiting,    \* messages in the queue, hidden or not
    receives,   \* how often each was received, if that is limited
    inflight,   \* messages a receive hides, with the poller that received them
    dead,       \* the dead-letter queue
    handled,    \* processed_messages, recorded with the effect
    phase,      \* where each poller is
    batch       \* what each poller received and has not handled yet

queueVars == <<sent, waiting, receives, inflight, dead>>
pollerVars == <<phase, batch>>
vars == <<queueVars, handled, pollerVars>>    \* limit never changes

Message == [order : Order, n : 1 .. MaxSent, valid : BOOLEAN]

TypeOK ==
    /\ sent \subseteq Message
    /\ waiting \subseteq sent
    /\ limit \in MaxReceives
    /\ receives \in [Message -> 0 .. limit]
    /\ inflight \subseteq waiting \X Replica
    /\ dead \subseteq sent \ waiting
    /\ handled \subseteq sent
    /\ phase \in [Replica -> {"off", "idle", "handle", "delete"}]
    /\ batch \in [Replica -> Seq(sent)]

Init ==
    /\ limit \in MaxReceives
    /\ sent = {}
    /\ waiting = {}
    /\ receives = [m \in Message |-> 0]
    /\ inflight = {}
    /\ dead = {}
    /\ handled = {}
    /\ phase = [r \in Replica |-> "off"]
    /\ batch = [r \in Replica |-> <<>>]

-----------------------------------------------------------------------------
(* The queue.                                                              *)

\* The next message about an order arrives. It is valid when parseEnvelope
\* finds an envelope in it, of a type its handler knows.
Send(o, valid) ==
    LET n == Cardinality({m \in sent : m.order = o}) + 1
        m == [order |-> o, n |-> n, valid |-> valid] IN
    /\ Cardinality(sent) < MaxSent
    /\ sent' = sent \cup {m}
    /\ waiting' = waiting \cup {m}
    /\ UNCHANGED <<receives, inflight, dead, handled, pollerVars>>

\* Nothing of an order is received while a message of it is in flight.
Unlocked(o) == \A f \in inflight : f[1].order # o

Before(m) == {k \in waiting : k.order = m.order /\ k.n < m.n}

\* The visibility timeout of a message passes, handled meanwhile or not.
Expire(f) ==
    /\ inflight' = inflight \ {f}
    /\ UNCHANGED <<sent, waiting, receives, dead, handled, pollerVars>>

\* A slip: one receive too many.
Exhausted_OffByOne(m) == limit # 0 /\ receives[m] > limit

Exhausted(m) == limit # 0 /\ receives[m] = limit

\* A receive that comes to a message received as often as the queue allows
\* moves it to the dead-letter queue.
Redrive(r, m) ==
    /\ phase[r] = "idle"
    /\ Unlocked(m.order)
    /\ Before(m) = {}
    /\ Exhausted(m)
    /\ waiting' = waiting \ {m}
    /\ dead' = dead \cup {m}
    /\ UNCHANGED <<sent, receives, inflight, handled, pollerVars>>

\* A receive takes the oldest messages of each order that is not locked, in
\* their order, and mixes the orders as it likes.
IsReceive(s) ==
    \A i \in DOMAIN s :
        /\ \A j \in DOMAIN s : i # j => s[i] # s[j]
        /\ Unlocked(s[i].order)
        /\ ~ Exhausted(s[i])
        /\ \A k \in Before(s[i]) : \E j \in 1 .. i - 1 : s[j] = k

Receives == {s \in UNION {[1 .. k -> waiting] : k \in 1 .. MaxMessages} : IsReceive(s)}

\* What a receive does to the queue.
TakeOut(r, s) ==
    LET taken == {s[i] : i \in DOMAIN s} IN
    /\ inflight' = inflight \cup taken \X {r}
    /\ receives' = [m \in Message |->
          IF m \in taken /\ limit # 0 THEN receives[m] + 1 ELSE receives[m]]
    /\ UNCHANGED <<sent, waiting, dead>>

-----------------------------------------------------------------------------
(* A poller: run, pollOnce and handle.                                     *)

Start(r) ==
    /\ phase[r] = "off"
    /\ phase' = [phase EXCEPT ![r] = "idle"]
    /\ UNCHANGED <<queueVars, handled, batch>>

Receive(r) ==
    /\ phase[r] = "idle"
    /\ \E s \in Receives : TakeOut(r, s) /\ batch' = [batch EXCEPT ![r] = s]
    /\ phase' = [phase EXCEPT ![r] = "handle"]
    /\ UNCHANGED <<handled>>

\* The receive is cancelled (stop), or its answer does not arrive: the queue
\* hides messages that nobody has.
ReceiveLost(r) ==
    /\ phase[r] = "idle"
    /\ \E s \in Receives : TakeOut(r, s)
    /\ UNCHANGED <<handled, pollerVars>>

Current(r) == Head(batch[r])

GoOn(r) ==
    /\ phase' = [phase EXCEPT ![r] = IF Len(batch[r]) = 1 THEN "idle" ELSE "handle"]
    /\ batch' = [batch EXCEPT ![r] = Tail(@)]

\* A slip: a failure is passed over and the batch goes on.
Break_GoesOn(r) == GoOn(r)

\* A slip: the message that failed is tried again at once, with its old receipt.
Break_TriesAgain(r) == UNCHANGED <<phase, batch>>

\* A failure stops the batch.
Break(r) ==
    /\ phase' = [phase EXCEPT ![r] = "idle"]
    /\ batch' = [batch EXCEPT ![r] = <<>>]

Try(r) ==
    /\ phase[r] = "handle"

\* A slip: what cannot be read is deleted.
Refuse_Deletes(r) ==
    /\ Try(r)
    /\ ~ Current(r).valid
    /\ waiting' = waiting \ {Current(r)}
    /\ inflight' = {f \in inflight : f[1] # Current(r)}
    /\ GoOn(r)
    /\ UNCHANGED <<sent, receives, dead, handled>>

\* Not an envelope, or of a type the handler does not know: it never succeeds.
Refuse(r) ==
    /\ Try(r)
    /\ ~ Current(r).valid
    /\ Break(r)
    /\ UNCHANGED <<queueVars, handled>>

\* The saga handles the message, or finds that it already did.
Handle(r) ==
    /\ Try(r)
    /\ Current(r).valid
    /\ handled' = handled \cup {Current(r)}
    /\ phase' = [phase EXCEPT ![r] = "delete"]
    /\ UNCHANGED <<queueVars, batch>>

\* The unit of work rolls back (a conflict, the database away), or it commits
\* and an error comes after it (its answer lost, the notification).
HandleFails(r) ==
    /\ Try(r)
    /\ Current(r).valid
    /\ handled' \in {handled, handled \cup {Current(r)}}
    /\ Break(r)
    /\ UNCHANGED queueVars

Deleted(m) ==
    /\ waiting' = waiting \ {m}
    /\ inflight' = {f \in inflight : f[1] # m}
    /\ UNCHANGED <<sent, receives, dead>>

\* The receipt is that of the receive, and lasts as long as it hides the message.
InTime(r) == batch[r] # <<>> /\ <<Current(r), r>> \in inflight

Delete(r) ==
    /\ phase[r] = "delete"
    /\ InTime(r)
    /\ Deleted(Current(r))
    /\ GoOn(r)
    /\ UNCHANGED <<handled>>

\* The call fails, its answer is lost, or the receipt is no longer good.
DeleteFails(r) ==
    /\ phase[r] = "delete"
    /\ \/ UNCHANGED queueVars
       \/ InTime(r) /\ Deleted(Current(r))
    /\ Break(r)
    /\ UNCHANGED <<handled>>

Crash(r) ==
    /\ phase[r] # "off"
    /\ phase' = [phase EXCEPT ![r] = "off"]
    /\ batch' = [batch EXCEPT ![r] = <<>>]
    /\ UNCHANGED <<queueVars, handled>>

-----------------------------------------------------------------------------
Work ==
    \/ \E o \in Order, valid \in BOOLEAN : Send(o, valid)
    \/ \E f \in inflight : Expire(f)
    \/ \E r \in Replica :
          \/ Start(r) \/ Receive(r) \/ Refuse(r) \/ Handle(r) \/ Delete(r)
          \/ \E m \in waiting : Redrive(r, m)

Fault ==
    \E r \in Replica : ReceiveLost(r) \/ HandleFails(r) \/ DeleteFails(r) \/ Crash(r)

Next == Work \/ Fault

Spec == Init /\ [][Next /\ UNCHANGED limit]_<<vars, limit>>

\* A poller receives again and again, whatever came of the last batch (run),
\* every call ends, well or not, and a process that stopped is started again
\* (WF). Processes, calls and the database may fail any number of times, and a
\* message come back while it is handled, but not at the same point for ever (SF).
Fairness ==
    /\ \A o \in Order : WF_vars(\E f \in inflight : f[1].order = o /\ Expire(f))
    /\ \A r \in Replica :
          /\ WF_vars(Start(r)) /\ WF_vars(Refuse(r))
          /\ WF_vars(Handle(r) \/ HandleFails(r)) /\ WF_vars(Delete(r) \/ DeleteFails(r))
          /\ SF_vars(Receive(r)) /\ SF_vars(InTime(r) /\ Handle(r)) /\ SF_vars(Delete(r))
          /\ SF_vars(\E m \in waiting : Redrive(r, m))

FairSpec == Spec /\ Fairness
-----------------------------------------------------------------------------
(* Properties.                                                             *)

\* The messages of an order take effect once each and in their order, however
\* receives, retries, expired receipts and pollers overlap, and one is passed
\* over only when it was given up.
Inbox == INSTANCE OrderedInbox

ImplementsInbox == Inbox!Spec

\* No message leaves the queue unless it was handled or given up, so a crash
\* or a failure at any point of a batch loses nothing.
NothingIsLost == sent \ waiting \subseteq handled \cup dead

Numbered(messages, o, n) == \E m \in messages : m.order = o /\ m.n = n

\* Every reply is in the end handled or given up and no longer waits: one that
\* cannot be handled does not hold its order up for ever. On a queue without a
\* limit of receives every dead command is handled, unless a message that is
\* not a command stays in front of the batches.
EveryMessageIsSettled ==
    \A o \in Order, n \in 1 .. MaxSent :
        Numbered(sent, o, n) ~>
            \/ Numbered((handled \cup dead) \ waiting, o, n)
            \/ limit = 0 /\ \E m \in waiting : ~ m.valid
=============================================================================
