---------------------------- MODULE OrderListing ----------------------------
(***************************************************************************)
(* The list of service orders.                                             *)
(*   use-cases/service-orders/ListServiceOrdersUseCase.ts                  *)
(*   PostgresServiceOrderRepository.findAll, buildWhere                    *)
(*                                                                         *)
(* The query has no ORDER BY: the rows come in any order, and the use case *)
(* sorts them.  Orders move on between the query and the answer.           *)
(***************************************************************************)
EXTENDS ServiceOrderStateMachine, Integers, SequencesExt

CONSTANTS
    OrderId,
    CustomerId,
    Time,      \* times of opening
    Reached,   \* bound: the statuses of the orders
    Filters    \* bound: the query strings

VARIABLES
    orders,   \* the table: a set of Order, one for each identifier
    filter,   \* how far the request is, with its query string, a Filter
    listed    \* the rows of Order that were found, in the order they are in by now

listingVars == <<orders, filter, listed>>

None == "none"
NoTime == 0

Order == [id : OrderId, status : OSStatus, createdAt : Time, customerId : CustomerId]

\* The earliest and the latest creation time asked for are inclusive.
Filter == [status : OSStatus \cup {None}, customerId : CustomerId \cup {None},
           from : Time \cup {NoTime}, to : Time \cup {NoTime}]

NoRequest == [step |-> "idle"]

ASSUME ListingAssumption ==
    /\ IsFiniteSet(OrderId)
    /\ Time \subseteq Nat \ {0} /\ Reached \subseteq OSStatus /\ Filters \subseteq Filter

\* Orders at any place of their lives.
ListingInit ==
    /\ \E table \in [OrderId -> [status : Reached, createdAt : Time, customerId : CustomerId]] :
          orders = {[id |-> o, status |-> table[o].status, createdAt |-> table[o].createdAt,
                     customerId |-> table[o].customerId] : o \in OrderId}
    /\ filter = NoRequest
    /\ listed = <<>>

-----------------------------------------------------------------------------
Move(o, s) ==
    /\ canTransition(o.status, s)
    /\ orders' = (orders \ {o}) \cup {[o EXCEPT !.status = s]}
    /\ UNCHANGED <<filter, listed>>

Ask(where) ==
    /\ filter = NoRequest
    /\ filter' = [step |-> "find", where |-> where]
    /\ UNCHANGED <<orders, listed>>

\* A slip: the two ends of the period are left out.
buildWhere_Exclusive(where, o) ==
    /\ IF where.status # None THEN o.status = where.status
       ELSE o.status \notin {"FINISHED", "DELIVERED"}
    /\ where.customerId # None => o.customerId = where.customerId
    /\ where.from # NoTime => o.createdAt > where.from
    /\ where.to # NoTime => o.createdAt < where.to

\* The filter of the use case, as the repository reads it.
buildWhere(where, o) ==
    /\ IF where.status # None THEN o.status = where.status
       ELSE o.status \notin {"FINISHED", "DELIVERED"}
    /\ where.customerId # None => o.customerId = where.customerId
    /\ where.from # NoTime => o.createdAt >= where.from
    /\ where.to # NoTime => o.createdAt <= where.to

FindAll ==
    /\ filter # NoRequest /\ filter.step = "find"
    /\ \E rows \in SetToSeqs({o \in orders : buildWhere(filter.where, o)}) : listed' = rows
    /\ filter' = [filter EXCEPT !.step = "sort"]
    /\ UNCHANGED orders

STATUS_PRIORITY ==
    [EXECUTION |-> 1, PAID |-> 2, WAITING_APPROVAL |-> 3, DIAGNOSIS |-> 4, RECEIVED |-> 5]

\* A slip: without the default a difference is NaN, which sort() takes for 0.
compare_NoDefault(a, b) ==
    IF {a.status, b.status} \subseteq DOMAIN STATUS_PRIORITY
    THEN IF a.status # b.status THEN STATUS_PRIORITY[a.status] - STATUS_PRIORITY[b.status]
         ELSE a.createdAt - b.createdAt
    ELSE IF a.status = b.status THEN a.createdAt - b.createdAt ELSE 0

compare(a, b) ==
    LET priority(s) == IF s \in DOMAIN STATUS_PRIORITY THEN STATUS_PRIORITY[s] ELSE 99 IN
    IF priority(a.status) # priority(b.status) THEN priority(a.status) - priority(b.status)
    ELSE a.createdAt - b.createdAt

\* sort() is stable: each row goes in front of the first one that follows it.
Place(sorted, o) ==
    LET after == {i \in DOMAIN sorted : compare(o, sorted[i]) < 0} IN
    IF after = {} THEN Append(sorted, o) ELSE InsertAt(sorted, Min(after), o)

sortByPriority ==
    /\ filter # NoRequest /\ filter.step = "sort"
    /\ LET sorted[n \in 0 .. Len(listed)] ==
               IF n = 0 THEN <<>> ELSE Place(sorted[n - 1], listed[n])
       IN  listed' = sorted[Len(listed)]
    /\ filter' = [filter EXCEPT !.step = "answered"]
    /\ UNCHANGED orders

\* Orders that are opened while a list is made are left out: the query has not
\* seen them, and the properties are about those that were there.
ListingNext ==
    \/ \E o \in orders, s \in Reached : Move(o, s)
    \/ \E where \in Filters : Ask(where)
    \/ FindAll
    \/ sortByPriority

ListingSpec == ListingInit /\ [][ListingNext]_listingVars
-----------------------------------------------------------------------------
(* Properties.                                                             *)

Answered == filter # NoRequest /\ filter.step = "answered"

\* The order in which the workshop looks at the statuses: those without a place
\* in the table come last, all as one.
Waits(o) ==
    LET line == <<"EXECUTION", "PAID", "WAITING_APPROVAL", "DIAGNOSIS", "RECEIVED">> IN
    IF \E k \in 1 .. 5 : line[k] = o.status THEN CHOOSE k \in 1 .. 5 : line[k] = o.status ELSE 6

\* In whatever order the rows come, no order of the list has one behind it that
\* is more urgent, or as urgent and older.
MostUrgentFirst ==
    Answered => \A i, j \in DOMAIN listed : i < j =>
        \/ Waits(listed[i]) < Waits(listed[j])
        \/ Waits(listed[i]) = Waits(listed[j]) /\ listed[i].createdAt <= listed[j].createdAt

\* Both ends of the period belong to it.
Period(where) ==
    {t \in Time : ~ (where.from # NoTime /\ t < where.from) /\ ~ (where.to # NoTime /\ where.to < t)}

\* An order at work that is asked for is in the list, once, although orders move
\* on while it is made: what the query left out cannot have come back since.
WorkIsListedOnce ==
    Answered => \A o \in orders :
        /\ o.status \notin {"FINISHED", "DELIVERED"}
        /\ filter.where.status = None
        /\ filter.where.customerId \in {None, o.customerId}
        /\ o.createdAt \in Period(filter.where)
        => Cardinality({i \in DOMAIN listed : listed[i].id = o.id}) = 1
=============================================================================
