------------------------ MODULE MCServiceOrderSaga ------------------------
(* Small instances of ServiceOrderSaga for TLC. *)
EXTENDS ServiceOrderSaga, TLC

CONSTANTS o1, o2, part1, part2, wash, ana

\* Both orders are Ana's, so that deleting one customer stops both.
AnasOrders == [o \in OrderId |-> ana]

SomeMessages == 1 .. 9
FewerMessages == 1 .. 8

\* A quantity of 0, a negative one and two positive ones.
Quantities == {-1, 0, 1, 2}
SomeStock == 0 .. 2
MoreStock == 0 .. 3

\* Ids are taken in order: they are interchangeable, only how many were
\* recorded matters to what happens next.
IdsInOrder == \E n \in 0 .. Cardinality(MessageId) : processed = 1 .. n
=============================================================================
