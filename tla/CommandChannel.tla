--------------------------- MODULE CommandChannel ---------------------------
(***************************************************************************)
(* What the outbox, its relays and the command queues promise together:    *)
(* one channel per order and queue.  Every message requested is delivered, *)
(* for the first time in the order of the requests, and any number of      *)
(* times again (use-cases/messaging/PublishPendingMessagesUseCase.ts:9-17).*)
(***************************************************************************)
EXTENDS Naturals, Sequences

CONSTANTS Order, Queue

\* A message is told from the others of its order and queue by when it was
\* created.
Message == [order : Order, queue : Queue, at : Nat]

VARIABLES
    requested,   \* messages written by committed transactions
    channel      \* what each queue was handed for each order, repeats included

channelVars == <<requested, channel>>

Channel(m) == channel[<<m.order, m.queue>>]

Delivered(m) == \E k \in DOMAIN Channel(m) : Channel(m)[k] = m

Earlier(n, m) == n.order = m.order /\ n.queue = m.queue /\ n.at < m.at

Init ==
    /\ requested = {}
    /\ channel = [g \in Order \X Queue |-> <<>>]

Put(m) == channel' = [channel EXCEPT ![<<m.order, m.queue>>] = Append(@, m)]

\* Whatever is requested comes after what was requested for the same channel.
Request ==
    /\ requested \subseteq requested'
    /\ \A m \in requested' \ requested : \A n \in requested : ~ Earlier(m, n)
    /\ UNCHANGED channel

Deliver(m) ==
    /\ m \in requested
    /\ ~ Delivered(m)
    /\ \A n \in requested : Earlier(n, m) => Delivered(n)
    /\ Put(m)
    /\ UNCHANGED requested

Repeat(m) ==
    /\ Delivered(m)
    /\ Put(m)
    /\ UNCHANGED requested

Next ==
    \/ Request
    \/ \E m \in requested : Deliver(m) \/ Repeat(m)

Spec == Init /\ [][Next]_channelVars
=============================================================================
