---------------------------- MODULE OrderedInbox ----------------------------
(***************************************************************************)
(* What a FIFO queue and the pollers that read it promise the saga         *)
(* together (frameworks/messaging/SqsQueuePoller.ts:23-28, 75-76): the      *)
(* messages of one order take effect once each and one after the other,    *)
(* and a message is passed over only when it was given up.                 *)
(***************************************************************************)
EXTENDS Naturals, FiniteSets

CONSTANT Order   \* a service order is a message group

\* The n-th message sent about an order. Some cannot be handled at all.
Message == [order : Order, n : Nat, valid : BOOLEAN]

VARIABLES
    sent,      \* messages the queue accepted
    handled,   \* messages whose effect is committed
    dead       \* messages in the dead-letter queue

inboxVars == <<sent, handled, dead>>

Earlier(m) == {k \in sent : k.order = m.order /\ k.n < m.n}

Init == sent = {} /\ handled = {} /\ dead = {}

Send(m) ==
    /\ m \notin sent
    /\ \A k \in sent : k.order = m.order => k.n < m.n
    /\ sent' = sent \cup {m}
    /\ UNCHANGED <<handled, dead>>

Handle(m) ==
    /\ m.valid
    /\ m \notin handled
    /\ Earlier(m) \subseteq handled \cup dead
    /\ handled' = handled \cup {m}
    /\ UNCHANGED <<sent, dead>>

GiveUp(m) ==
    /\ m \notin dead
    /\ Earlier(m) \subseteq handled \cup dead
    /\ dead' = dead \cup {m}
    /\ UNCHANGED <<sent, handled>>

Next ==
    \/ \E m \in sent' : Send(m)
    \/ \E m \in sent : Handle(m) \/ GiveUp(m)

Spec == Init /\ [][Next]_inboxVars
=============================================================================
