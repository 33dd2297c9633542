--------------------------- MODULE MCOutboxRelay ---------------------------
(* An instance of OutboxRelay for TLC. *)
EXTENDS OutboxRelay

CONSTANTS o1, o2, billing, execution

\* A transaction that asks both participants, two of any order, or three of one
\* order, more rows than a batch takes. Nothing makes a transaction begin, so
\* leaving some out takes nothing from fairness.
FewRows ==
    CASE clock = 3 -> \A m \in open \cup rows : m.order = o1 /\ m.queue = billing
      [] clock = 2 -> \A m \in open \cup rows : m.queue = billing
      [] OTHER -> TRUE
=============================================================================
