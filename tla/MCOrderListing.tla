--------------------------- MODULE MCOrderListing ---------------------------
(* Small instances of OrderListing for TLC. *)
EXTENDS OrderListing

CONSTANTS o1, o2, o3, ana, bia

Orders == Permutations(OrderId)

Times == {1, 2}

\* Orders in work, with and without a place in STATUS_PRIORITY, and ended ones.
Statuses == {"RECEIVED", "PAID", "EXECUTION", "FINISHED", "CANCELLED"}

Everything == [status |-> None, customerId |-> None, from |-> NoTime, to |-> NoTime]

Queries == {Everything, [Everything EXCEPT !.status = "FINISHED"],
            [Everything EXCEPT !.customerId = ana], [Everything EXCEPT !.from = 2],
            [Everything EXCEPT !.from = 1, !.to = 1]}
=============================================================================
