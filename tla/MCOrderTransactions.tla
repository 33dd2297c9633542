----------------------- MODULE MCOrderTransactions -----------------------
(* Small instances of OrderTransactions for TLC. *)
EXTENDS OrderTransactions, TLC

CONSTANTS o1, o2, part1, s1, s2

Sessions == Permutations(Session)

Replies(o, types) == {[kind |-> "reply", type |-> r, order |-> o] : r \in types}
Dead(o, types)    == {[kind |-> "dead", type |-> c, order |-> o] : c \in types}

Open(o, q)        == [kind |-> "create", order |-> o, lines |-> [i \in ItemId |-> q]]
AddPart(o, q)     == [kind |-> "add", order |-> o, item |-> part1, quantity |-> q]
RemovePart(o)     == [kind |-> "remove", order |-> o, item |-> part1]
HandOver(o)       == [kind |-> "deliver", order |-> o]

UpToTwo     == 0 .. 2
AnyQuantity == -1 .. 2
TwoOrThree  == 2 .. 3
TwoInStock  == {2}

\* One order from the opening to every end it can have. Confirmations and
\* reports only record their id; the dead EnqueueRepair stands for them all.
EveryPath ==
    Replies(o1, SagaReplyType \ {"ExecutionCancelled", "BudgetCancelled"})
    \cup Dead(o1, {"GenerateBudget", "RequestPayment", "EnqueueRepair"})
OneOrder == {Open(o1, 1), HandOver(o1)}

\* Two orders for the same part, one that may be paid and one that may not.
TwoPaths ==
    Replies(o1, {"DiagnosisStarted", "DiagnosisCompleted", "BudgetApproved", "PaymentConfirmed"})
    \cup Dead(o1, {"RequestPayment"})
    \cup Replies(o2, {"DiagnosisStarted", "DiagnosisCompleted", "BudgetRejected"})
    \cup Dead(o2, {"EnqueueDiagnosis", "GenerateBudget"})
TwoOrders == {Open(o1, 1), Open(o2, 2)}

\* One order whose parts are added and removed on the way, and one that is asked
\* for with a quantity which only the CHECK of its line refuses.
PaidOrNot ==
    Replies(o1, {"DiagnosisStarted", "DiagnosisCompleted", "BudgetApproved",
                 "PaymentConfirmed", "PaymentFailed"})
    \cup Dead(o1, {"GenerateBudget", "RequestPayment"})
Edits == {Open(o1, 1), AddPart(o1, 1), RemovePart(o1), Open(o2, -1)}

\* Edits that lose each other's reservations can add parts without end: stop at
\* one more than the stock.
FewParts == \A o \in OrderId, i \in ItemId : items[o][i] <= 3

\* The two are told apart by the orders that are opened.
Messages == EveryPath \cup TwoPaths
Requests == OneOrder \cup TwoOrders

Operations == processed \cup {tx[s].op : s \in {t \in Session : Busy(t)}}

OneOrTwo ==
    \/ Operations \subseteq EveryPath \cup OneOrder /\ stock[part1] <= 2 /\ status[o2] = "NONE"
    \/ Operations \subseteq TwoPaths \cup TwoOrders

\* What it takes to show an edit meeting another order over the same part.
ToTheDiagnosis == Replies(o1, {"DiagnosisStarted"})
OpenTwiceAndRemove == {Open(o1, 1), Open(o2, 1), RemovePart(o1)}
=============================================================================
