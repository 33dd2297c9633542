---------------------- MODULE ListingAndLifecycleProofs ----------------------
(***************************************************************************)
(* Theorems about two components that have to do with no other module: the *)
(* start and shutdown of the replicas (Lifecycle), and the list of orders  *)
(* (OrderListing, whose specification is ListingSpec).                     *)
(***************************************************************************)
EXTENDS Lifecycle, OrderListing, FiniteSetTheorems, TLAPS

(***************************************************************************)
(* Start and shutdown, for any replicas, times and requests.               *)
(***************************************************************************)

\* After a SIGTERM that came when main() was through nothing is received any
\* more, and stop() waits for the message that was being handled.
NothingIsReceived ==
    \A p \in Pod : closing[p] # "no" /\ ~ early[p] =>
        boot[p] = "done" /\ ~ polling[p] /\ (handling[p] => awaits[p] /\ closing[p] = "messaging")

\* process.exit(0) comes after the loops and the server have stopped.
ExitIsLast == \A p \in Pod : proc[p] = "exit 0" => closing[p] = "server" /\ requests[p] = 0

IInv == TypeOK /\ NothingIsReceived /\ ExitIsLast
-----------------------------------------------------------------------------
LEMMA NotYetIsATime == NotYet \in Nat /\ Grace \in 0 .. NotYet /\ NotYet \in 0 .. NotYet /\ 0 \in 0 .. NotYet
  BY LifecycleAssumption DEF NotYet

LEMMA NoneIsANumber == 0 \in 0 .. MaxRequests
  BY LifecycleAssumption

LEMMA InvInit == Init => IInv
<1> SUFFICES ASSUME Init PROVE IInv
  OBVIOUS
<1>1. elapsed \in [Pod -> 0 .. NotYet]
  BY NotYetIsATime DEF Init
<1>2. requests \in [Pod -> 0 .. MaxRequests]
  BY LifecycleAssumption DEF Init
<1>3. TypeOK
  BY <1>1, <1>2 DEF Init, TypeOK
<1>4. NothingIsReceived /\ ExitIsLast
  BY DEF Init, NothingIsReceived, ExitIsLast
<1> QED
  BY <1>3, <1>4 DEF IInv

LEMMA InvBoot ==
    ASSUME IInv, NEW p \in Pod, Boot(p)
    PROVE  IInv'
<1> USE DEF IInv, Up, BootTo
<1>1. TypeOK'
  BY DEF TypeOK, Boot, Connect, Look, Insert, StartMessaging, StartupFails, Ends
<1>2. NothingIsReceived'
  BY DEF TypeOK, NothingIsReceived, Boot, Connect, Look, Insert, StartMessaging, StartupFails, Ends
<1>3. ExitIsLast'
  BY DEF TypeOK, ExitIsLast, Boot, Connect, Look, Insert, StartMessaging, StartupFails, Ends
<1> QED
  BY <1>1, <1>2, <1>3

LEMMA InvServe ==
    ASSUME IInv, NEW p \in Pod, Serve(p)
    PROVE  IInv'
<1> USE LifecycleAssumption DEF IInv, Up
<1>1. TypeOK'
  <2>1. requests[p] \in 0 .. MaxRequests
    BY DEF TypeOK
  <2>2. CASE Receive(p) \/ Handled(p)
    BY <2>2 DEF TypeOK, Receive, Handled
  <2>3. CASE Request(p)
    <3>1. requests[p] + 1 \in 0 .. MaxRequests
      BY <2>1, <2>3 DEF Request
    <3> QED
      BY <2>3, <3>1 DEF TypeOK, Request
  <2>4. CASE Respond(p)
    <3>1. requests[p] - 1 \in 0 .. MaxRequests
      BY <2>1, <2>4 DEF Respond
    <3> QED
      BY <2>4, <3>1 DEF TypeOK, Respond
  <2> QED
    BY <2>2, <2>3, <2>4 DEF Serve
<1>2. NothingIsReceived'
  BY DEF TypeOK, NothingIsReceived, Serve, Receive, Handled, Request, Respond
<1>3. ExitIsLast'
  BY DEF TypeOK, ExitIsLast, Serve, Receive, Handled, Request, Respond
<1> QED
  BY <1>1, <1>2, <1>3

LEMMA InvShutdown ==
    ASSUME IInv, NEW p \in Pod, Shutdown(p)
    PROVE  IInv'
<1> USE LifecycleAssumption DEF IInv, Up, Ends
<1>1. CASE Terminate(p) \/ Tick(p)
  <2>1. elapsed' \in [Pod -> 0 .. NotYet]
    <3>1. elapsed \in [Pod -> 0 .. NotYet]
      BY DEF TypeOK
    <3>2. CASE Terminate(p)
      BY <3>1, <3>2, NotYetIsATime DEF Terminate
    <3>3. CASE Tick(p)
      <4>1. elapsed[p] + 1 \in 0 .. NotYet
        BY <3>1, <3>3 DEF Tick, NotYet
      <4> QED
        BY <3>1, <3>3, <4>1 DEF Tick
    <3> QED
      BY <1>1, <3>2, <3>3
  <2>2. TypeOK'
    BY <1>1, <2>1 DEF TypeOK, Terminate, Tick
  <2>3. NothingIsReceived'
    BY <1>1 DEF NothingIsReceived, Terminate, Tick
  <2>4. ExitIsLast'
    BY <1>1 DEF ExitIsLast, Terminate, Tick
  <2> QED
    BY <2>2, <2>3, <2>4
<1>2. CASE Sigterm(p)
  <2>1. TypeOK'
    BY <1>2 DEF TypeOK, Sigterm
  <2>2. NothingIsReceived'
    BY <1>2 DEF TypeOK, NothingIsReceived, Sigterm
  <2>3. ExitIsLast'
    BY <1>2 DEF TypeOK, ExitIsLast, Sigterm
  <2> QED
    BY <2>1, <2>2, <2>3
<1>3. CASE CloseServer(p)
  <2>1. TypeOK'
    BY <1>3 DEF TypeOK, CloseServer
  <2>2. NothingIsReceived'
    BY <1>3 DEF TypeOK, NothingIsReceived, CloseServer
  <2>3. ExitIsLast'
    BY <1>3 DEF TypeOK, ExitIsLast, CloseServer
  <2> QED
    BY <2>1, <2>2, <2>3
<1>4. CASE Exit(p) \/ ForceExit(p) \/ Kill(p)
  BY <1>4 DEF TypeOK, NothingIsReceived, ExitIsLast, Exit, ForceExit, Kill
<1> QED
  BY <1>1, <1>2, <1>3, <1>4 DEF Shutdown

LEMMA InvRestart ==
    ASSUME IInv, NEW p \in Pod, Restart(p)
    PROVE  IInv'
<1> USE LifecycleAssumption DEF IInv, Up, Ends, Restart
<1>1. TypeOK'
  <2>1. elapsed' \in [Pod -> 0 .. NotYet]
    BY NotYetIsATime DEF TypeOK
  <2>2. requests' \in [Pod -> 0 .. MaxRequests]
    BY NoneIsANumber DEF TypeOK
  <2> QED
    BY <2>1, <2>2 DEF TypeOK
<1>2. NothingIsReceived' /\ ExitIsLast'
  BY DEF TypeOK, NothingIsReceived, ExitIsLast
<1> QED
  BY <1>1, <1>2

LEMMA InvAlways == Spec => []IInv
<1>1. IInv /\ [Next]_vars => IInv'
  <2> SUFFICES ASSUME IInv, [Next]_vars PROVE IInv'
    OBVIOUS
  <2>1. CASE UNCHANGED vars
    BY <2>1 DEF vars, IInv, TypeOK, NothingIsReceived, ExitIsLast
  <2>2. CASE Next
    BY <2>2, InvBoot, InvServe, InvShutdown, InvRestart DEF Next
  <2> QED
    BY <2>1, <2>2
<1> QED
  BY InvInit, <1>1, PTL DEF Spec

\* The state of a replica keeps its type, whatever ends it and whenever: in
\* particular it never counts fewer than no requests.
THEOREM TypeCorrect == Spec => []TypeOK
<1>1. IInv => TypeOK
  BY DEF IInv
<1> QED
  BY <1>1, InvAlways, PTL

\* A replica that had finished its startup and exits with 0 was not handling a
\* message or a request, for any preStop sleep, timer and grace period.
THEOREM CleanExits == Spec => []CleanExitsCutNothing
<1>1. IInv => CleanExitsCutNothing
  BY DEF IInv, NothingIsReceived, ExitIsLast, CleanExitsCutNothing
<1> QED
  BY <1>1, InvAlways, PTL

-----------------------------------------------------------------------------
(***************************************************************************)
(* The list of orders, for any orders, times and filters.                  *)
(***************************************************************************)

\* No two rows of the list are of one order.
Unlike(s) == \A i, j \in DOMAIN s : i # j => s[i].id # s[j].id

\* No row of the list comes after one that it should precede.
InOrder(s) == \A i, j \in DOMAIN s : i < j => compare(s[i], s[j]) <= 0

\* An order at work that the filter lets through.
Wanted(where, o) ==
    /\ o.status \notin {"FINISHED", "DELIVERED"}
    /\ where.status = None
    /\ where.customerId \in {None, o.customerId}
    /\ o.createdAt \in Period(where)

\* The inductive invariant of the listing. Every order that is wanted is among the
\* rows from the query on: one that is not can only have ended, and that is final.
ListInv ==
    /\ IsFiniteSet(orders) /\ orders \subseteq Order
    /\ \A p, q \in orders : p.id = q.id => p = q
    /\ filter # NoRequest =>
          /\ filter \in [step : {"find", "sort", "answered"}, where : Filter]
          /\ filter.step # "find" =>
                /\ listed \in Seq(Order) /\ Unlike(listed)
                /\ \A o \in orders : Wanted(filter.where, o) =>
                      \E i \in DOMAIN listed : listed[i].id = o.id
          /\ filter.step = "answered" => InOrder(listed)

-----------------------------------------------------------------------------
(* The comparator.                                                         *)

\* The priority that compare() looks up.
Priority(o) == IF o.status \in DOMAIN STATUS_PRIORITY
               THEN STATUS_PRIORITY[o.status] ELSE 99

\* compare(), with that priority.
LEMMA Compared ==
    /\ \A o \in Order : Priority(o) \in Nat /\ o.createdAt \in Nat
    /\ \A a, b \in Order :
          compare(a, b) = IF Priority(a) # Priority(b) THEN Priority(a) - Priority(b)
                          ELSE a.createdAt - b.createdAt
<1>1. \A s \in DOMAIN STATUS_PRIORITY : STATUS_PRIORITY[s] \in Nat
  BY DEF STATUS_PRIORITY
<1>2. \A o \in Order : Priority(o) \in Nat
  BY <1>1 DEF Priority
<1>3. \A o \in Order : o.createdAt \in Nat
  BY ListingAssumption DEF Order
<1>4. \A a, b : compare(a, b) = IF Priority(a) # Priority(b) THEN Priority(a) - Priority(b)
                                ELSE a.createdAt - b.createdAt
  BY DEF compare, Priority
<1> QED
  BY <1>2, <1>3, <1>4

\* It puts any two rows in an order.
LEMMA CompareOrders ==
    ASSUME NEW a \in Order, NEW b \in Order, NEW c \in Order
    PROVE  /\ compare(a, b) \in Int
           /\ ~ (compare(a, b) < 0) => compare(b, a) <= 0
           /\ compare(a, b) <= 0 /\ compare(b, c) <= 0 => compare(a, c) <= 0
<1> DEFINE p(o) == Priority(o)
           t(o) == o.createdAt
<1>1. p(a) \in Nat /\ p(b) \in Nat /\ p(c) \in Nat /\ t(a) \in Nat /\ t(b) \in Nat /\ t(c) \in Nat
  BY Compared
<1>2. \A x, y \in {a, b, c} :
         compare(x, y) = IF p(x) # p(y) THEN p(x) - p(y) ELSE t(x) - t(y)
  BY Compared
<1> HIDE DEF p, t
<1> QED
  BY <1>1, <1>2

\* The comparator follows the workshop.
LEMMA CompareIsUrgency ==
    ASSUME NEW a \in Order, NEW b \in Order, compare(a, b) <= 0
    PROVE  \/ Waits(a) < Waits(b)
           \/ Waits(a) = Waits(b) /\ a.createdAt <= b.createdAt
<1>1. ASSUME NEW o \in Order
      PROVE  Waits(o) = IF Priority(o) = 99 THEN 6 ELSE Priority(o)
  <2> DEFINE line == <<"EXECUTION", "PAID", "WAITING_APPROVAL", "DIAGNOSIS", "RECEIVED">>
  <2>1. Waits(o) = IF \E k \in 1 .. 5 : line[k] = o.status
                   THEN CHOOSE k \in 1 .. 5 : line[k] = o.status ELSE 6
    BY DEF Waits
  <2>2. /\ line[1] = "EXECUTION" /\ line[2] = "PAID" /\ line[3] = "WAITING_APPROVAL"
        /\ line[4] = "DIAGNOSIS" /\ line[5] = "RECEIVED"
    OBVIOUS
  <2>3. 1 .. 5 = {1, 2, 3, 4, 5}
    OBVIOUS
  <2> HIDE DEF line
  <2>4. \A k \in 1 .. 5 : line[k] = o.status =>
           Priority(o) = k /\ \A m \in 1 .. 5 : line[m] = o.status => m = k
    BY <2>2, <2>3 DEF Priority, STATUS_PRIORITY
  <2>5. CASE \E k \in 1 .. 5 : line[k] = o.status
    <3>1. PICK k \in 1 .. 5 : line[k] = o.status
      BY <2>5
    <3>2. \A m \in 1 .. 5 : line[m] = o.status <=> m = k
      BY <2>4, <3>1
    <3>3. (CHOOSE m \in 1 .. 5 : line[m] = o.status) = k
      BY <3>1, <3>2
    <3> QED
      BY <2>1, <2>4, <2>5, <3>1, <3>3
  <2>6. CASE ~ \E k \in 1 .. 5 : line[k] = o.status
    <3>1. o.status \notin {"EXECUTION", "PAID", "WAITING_APPROVAL", "DIAGNOSIS", "RECEIVED"}
      BY <2>2, <2>3, <2>6
    <3>2. Priority(o) = 99
      BY <3>1 DEF Priority, STATUS_PRIORITY
    <3> QED
      BY <2>1, <2>6, <3>2
  <2> QED
    BY <2>5, <2>6
<1>2. /\ Priority(a) \in Nat /\ Priority(b) \in Nat /\ a.createdAt \in Nat /\ b.createdAt \in Nat
      /\ compare(a, b) = IF Priority(a) # Priority(b) THEN Priority(a) - Priority(b)
                                 ELSE a.createdAt - b.createdAt
  BY Compared
<1>3. \A o : Priority(o) \in {1, 2, 3, 4, 5, 99}
  BY DEF Priority, STATUS_PRIORITY
<1> QED
  BY <1>1, <1>2, <1>3

-----------------------------------------------------------------------------
(* One row more.                                                           *)

\* A set of numbers has a least member: the induction of the sort below.
LEMMA Least ==
    ASSUME NEW S \in SUBSET Nat, S # {}
    PROVE  \E n \in S : \A m \in S : n <= m
<1>1. PICK k \in S : TRUE
  OBVIOUS
<1> DEFINE F == {T \in SUBSET (1 .. k) : \E n \in S : n <= k /\ T = 1 .. n}
<1>2. IsFiniteSet(1 .. k)
  BY <1>1, FS_Interval
<1>3. 1 .. k \in F
  BY <1>1
<1>4. IsWellFoundedOn(StrictSubsetOrdering(1 .. k), FiniteSubsetsOf(1 .. k))
  BY <1>2, FS_StrictSubsetOrderingWellFounded
<1>5. F \subseteq FiniteSubsetsOf(1 .. k)
  BY <1>2, FS_FiniteSubsetsOfFinite
<1>6. PICK T \in F : \A U \in F : ~ (<<U, T>> \in StrictSubsetOrdering(1 .. k))
  <2> HIDE DEF F
  <2> QED
    BY <1>3, <1>4, <1>5, WFMin
<1>7. PICK n \in S : n <= k /\ T = 1 .. n
  BY <1>6
<1>8. ASSUME NEW m \in S, m < n PROVE FALSE
  <2>1. 1 .. m \in F
    BY <1>1, <1>7, <1>8
  <2>2. 1 .. m \subseteq T /\ n \in T /\ n \notin 1 .. m
    BY <1>7, <1>8
  <2> QED
    BY <1>6, <2>1, <2>2 DEF StrictSubsetOrdering
<1> QED
  BY <1>8

\* t is s with o in place k.
IsPlaced(s, o, k, t) ==
    /\ k \in 1 .. Len(s) + 1
    /\ t \in Seq(Order) /\ Len(t) = Len(s) + 1
    /\ \A i \in 1 .. Len(t) : t[i] = IF i < k THEN s[i] ELSE IF i = k THEN o ELSE s[i - 1]

\* Where Place puts a row: behind everything it does not precede, in front of the
\* first row that it precedes.
LEMMA PlaceIs ==
    ASSUME NEW s \in Seq(Order), NEW o \in Order
    PROVE  \E k : /\ IsPlaced(s, o, k, Place(s, o))
                  /\ \A i \in 1 .. k - 1 : ~ (compare(o, s[i]) < 0)
                  /\ k <= Len(s) => compare(o, s[k]) < 0
<1> DEFINE after == {i \in DOMAIN s : compare(o, s[i]) < 0}
<1>1. Place(s, o) = IF after = {} THEN Append(s, o) ELSE InsertAt(s, Min(after), o)
  BY DEF Place
<1>2. CASE after = {}
  <2>1. IsPlaced(s, o, Len(s) + 1, Append(s, o))
    BY DEF IsPlaced
  <2>2. \A i \in 1 .. Len(s) : ~ (compare(o, s[i]) < 0)
    BY <1>2
  <2> QED
    BY <1>1, <1>2, <2>1, <2>2
<1>3. CASE after # {}
  <2> DEFINE k == Min(after)
  <2>1. k \in after /\ \A i \in after : k <= i
    <3>1. after \in SUBSET Nat
      OBVIOUS
    <3> HIDE DEF after
    <3>2. \E i \in after : \A j \in after : i <= j
      BY <1>3, <3>1, Least
    <3> QED
      BY <3>2 DEF Min
  <2>2. k \in 1 .. Len(s) /\ compare(o, s[k]) < 0
    BY <2>1
  <2>3. \A i \in 1 .. k - 1 : ~ (compare(o, s[i]) < 0)
    <3>1. ASSUME NEW i \in 1 .. k - 1, compare(o, s[i]) < 0 PROVE FALSE
      <4>1. i \in after /\ k \in Int
        BY <2>2, <3>1
      <4> HIDE DEF k, after
      <4> QED
        BY <2>1, <4>1
    <3> QED
      BY <3>1
  <2>4. InsertAt(s, k, o) = SubSeq(s, 1, k - 1) \o <<o>> \o SubSeq(s, k, Len(s))
    BY DEF InsertAt
  <2> HIDE DEF k, after
  <2> DEFINE front == SubSeq(s, 1, k - 1)
             back == SubSeq(s, k, Len(s))
  <2>5. /\ front \in Seq(Order) /\ Len(front) = k - 1 /\ \A i \in 1 .. k - 1 : front[i] = s[i]
        /\ back \in Seq(Order) /\ Len(back) = Len(s) - k + 1
        /\ \A i \in 1 .. Len(s) - k + 1 : back[i] = s[k + i - 1]
    BY <2>2
  <2> HIDE DEF front, back
  <2>6. /\ front \o <<o>> \in Seq(Order) /\ Len(front \o <<o>>) = k
        /\ \A i \in 1 .. k : (front \o <<o>>)[i] = IF i < k THEN s[i] ELSE o
    BY <2>2, <2>5
  <2> DEFINE head == front \o <<o>>
             t == head \o back
  <2> HIDE DEF head
  <2>7. t \in Seq(Order) /\ Len(t) = Len(s) + 1
    <3>1. head \in Seq(Order) /\ Len(head) = k /\ Len(s) \in Nat
      BY <2>6 DEF head
    <3>2. t \in Seq(Order) /\ Len(t) = Len(head) + Len(back)
      <4>1. \A S : \A a, b \in Seq(S) : a \o b \in Seq(S) /\ Len(a \o b) = Len(a) + Len(b)
        OBVIOUS
      <4> QED
        BY <2>5, <3>1, <4>1
    <3> HIDE DEF t
    <3> QED
      BY <2>2, <2>5, <3>1, <3>2
  <2>8. \A i \in 1 .. Len(t) : t[i] = IF i <= k THEN head[i] ELSE back[i - k]
    BY <2>2, <2>5, <2>6, <2>7 DEF head
  <2>9. IsPlaced(s, o, k, t)
    <3> HIDE DEF t
    <3>1. ASSUME NEW i \in 1 .. Len(t)
          PROVE  t[i] = IF i < k THEN s[i] ELSE IF i = k THEN o ELSE s[i - 1]
      <4>1. CASE i <= k
        BY <2>2, <2>6, <2>8, <4>1 DEF head
      <4>2. CASE i > k
        <5>1. i - k \in 1 .. Len(s) - k + 1 /\ k + (i - k) - 1 = i - 1
          BY <2>2, <2>7, <4>2
        <5> QED
          BY <2>2, <2>5, <2>8, <4>2, <5>1
      <4> QED
        BY <2>2, <4>1, <4>2
    <3> QED
      BY <2>2, <2>7, <3>1 DEF IsPlaced
  <2> QED
    BY <1>1, <1>3, <2>2, <2>3, <2>4, <2>9 DEF head, front, back, k
<1> QED
  BY <1>2, <1>3

\* No row is lost and none is made up.
LEMMA PlacedRows ==
    ASSUME NEW s \in Seq(Order), NEW o, NEW k, NEW t, IsPlaced(s, o, k, t)
    PROVE  /\ \E j \in DOMAIN t : t[j] = o
           /\ \A i \in DOMAIN s : \E j \in DOMAIN t : t[j] = s[i]
           /\ \A j \in DOMAIN t : t[j] = o \/ \E i \in DOMAIN s : t[j] = s[i]
<1>1. /\ k \in 1 .. Len(s) + 1 /\ Len(s) \in Nat /\ DOMAIN s = 1 .. Len(s) /\ DOMAIN t = 1 .. Len(s) + 1
      /\ \A i \in 1 .. Len(s) + 1 : t[i] = IF i < k THEN s[i] ELSE IF i = k THEN o ELSE s[i - 1]
  BY DEF IsPlaced
<1>2. k \in DOMAIN t /\ t[k] = o
  BY <1>1
<1>3. ASSUME NEW i \in DOMAIN s PROVE \E j \in DOMAIN t : t[j] = s[i]
  <2>1. CASE i < k
    <3>1. i \in DOMAIN t /\ t[i] = s[i]
      BY <1>1, <2>1
    <3> QED
      BY <3>1
  <2>2. CASE ~ (i < k)
    <3>1. i + 1 \in DOMAIN t /\ t[i + 1] = s[(i + 1) - 1] /\ (i + 1) - 1 = i
      BY <1>1, <2>2
    <3> QED
      BY <3>1
  <2> QED
    BY <2>1, <2>2
<1>4. ASSUME NEW j \in DOMAIN t, t[j] # o PROVE \E i \in DOMAIN s : t[j] = s[i]
  <2>1. CASE j < k
    <3>1. j \in DOMAIN s /\ t[j] = s[j]
      BY <1>1, <2>1
    <3> QED
      BY <3>1
  <2>2. CASE ~ (j < k)
    <3>1. j - 1 \in DOMAIN s /\ t[j] = s[j - 1]
      BY <1>1, <1>4, <2>2
    <3> QED
      BY <3>1
  <2> QED
    BY <2>1, <2>2
<1> QED
  BY <1>2, <1>3, <1>4

\* One more order is not listed twice.
LEMMA PlacedUnlike ==
    ASSUME NEW s \in Seq(Order), NEW o, NEW k, NEW t, IsPlaced(s, o, k, t),
           Unlike(s), \A i \in DOMAIN s : s[i].id # o.id
    PROVE  Unlike(t)
<1>1. /\ k \in 1 .. Len(s) + 1 /\ Len(s) \in Nat /\ DOMAIN s = 1 .. Len(s) /\ DOMAIN t = 1 .. Len(s) + 1
      /\ \A i \in 1 .. Len(s) + 1 : t[i] = IF i < k THEN s[i] ELSE IF i = k THEN o ELSE s[i - 1]
  BY DEF IsPlaced
<1> DEFINE from(i) == IF i < k THEN i ELSE i - 1
<1>2. \A i \in DOMAIN t : i # k => from(i) \in DOMAIN s /\ t[i] = s[from(i)]
  BY <1>1
<1>3. \A i, j \in DOMAIN t : i # k /\ j # k /\ i # j => from(i) # from(j)
  BY <1>1
<1>4. t[k] = o
  BY <1>1
<1> HIDE DEF from
<1> SUFFICES ASSUME NEW i \in DOMAIN t, NEW j \in DOMAIN t, i # j PROVE t[i].id # t[j].id
  BY DEF Unlike
<1>5. CASE i = k
  BY <1>2, <1>4, <1>5
<1>6. CASE j = k
  BY <1>2, <1>4, <1>6
<1>7. CASE i # k /\ j # k
  <2>1. from(i) \in DOMAIN s /\ from(j) \in DOMAIN s /\ from(i) # from(j)
    BY <1>2, <1>3, <1>7
  <2>2. s[from(i)].id # s[from(j)].id
    BY <2>1 DEF Unlike
  <2> QED
    BY <1>2, <1>7, <2>2
<1> QED
  BY <1>5, <1>6, <1>7

\* A list that is in order stays so.
LEMMA PlacedInOrder ==
    ASSUME NEW s \in Seq(Order), NEW o \in Order,
           NEW k, NEW t, IsPlaced(s, o, k, t), InOrder(s),
           \A i \in 1 .. k - 1 : ~ (compare(o, s[i]) < 0),
           k <= Len(s) => compare(o, s[k]) < 0
    PROVE  InOrder(t)
<1>1. /\ k \in 1 .. Len(s) + 1 /\ Len(s) \in Nat /\ DOMAIN s = 1 .. Len(s) /\ DOMAIN t = 1 .. Len(s) + 1
      /\ \A i \in 1 .. Len(s) + 1 : t[i] = IF i < k THEN s[i] ELSE IF i = k THEN o ELSE s[i - 1]
  BY DEF IsPlaced
<1> DEFINE from(i) == IF i < k THEN i ELSE i - 1
<1>2. \A i \in DOMAIN t : i # k => from(i) \in DOMAIN s /\ t[i] = s[from(i)]
  BY <1>1
<1>3. \A i, j \in DOMAIN t : i # k /\ j # k /\ i < j => from(i) < from(j)
  BY <1>1
<1>4. t[k] = o
  BY <1>1
<1>5. \A i \in DOMAIN s : s[i] \in Order
  BY <1>1
<1>6. \A i \in 1 .. Len(s) : i < k => compare(s[i], o) <= 0
  <2> TAKE i \in 1 .. Len(s)
  <2> HAVE i < k
  <2>1. ~ (compare(o, s[i]) < 0) /\ s[i] \in Order
    BY <1>1, <1>5
  <2> QED
    BY <2>1, CompareOrders
<1>7. \A i \in 1 .. Len(s) : k <= i => compare(o, s[i]) <= 0
  <2> TAKE i \in 1 .. Len(s)
  <2> HAVE k <= i
  <2>1. k \in DOMAIN s /\ compare(o, s[k]) < 0
    BY <1>1
  <2>2. s[k] \in Order /\ s[i] \in Order
    BY <1>1, <1>5, <2>1
  <2>3. CASE k = i
    <3>1. compare(o, s[k]) \in Int
      BY <2>2, CompareOrders
    <3> QED
      BY <2>1, <2>3, <3>1
  <2>4. CASE k < i
    <3>1. compare(s[k], s[i]) <= 0
      BY <1>1, <2>1, <2>4 DEF InOrder
    <3>2. compare(o, s[k]) \in Int
      BY <2>2, CompareOrders
    <3>3. compare(o, s[k]) <= 0
      BY <2>1, <3>2
    <3> QED
      BY <2>2, <3>1, <3>3, CompareOrders
  <2> QED
    BY <1>1, <2>3, <2>4
<1> SUFFICES ASSUME NEW i \in DOMAIN t, NEW j \in DOMAIN t, i < j PROVE compare(t[i], t[j]) <= 0
  BY DEF InOrder
<1>8. CASE i = k
  <2>1. from(j) \in 1 .. Len(s) /\ k <= from(j) /\ t[j] = s[from(j)]
    BY <1>1, <1>2, <1>8
  <2> HIDE DEF from
  <2> QED
    BY <1>4, <1>7, <1>8, <2>1
<1>9. CASE j = k
  <2>1. from(i) \in 1 .. Len(s) /\ from(i) < k /\ t[i] = s[from(i)]
    BY <1>1, <1>2, <1>9
  <2> HIDE DEF from
  <2> QED
    BY <1>4, <1>6, <1>9, <2>1
<1>10. CASE i # k /\ j # k
  <2> HIDE DEF from
  <2>1. from(i) \in DOMAIN s /\ from(j) \in DOMAIN s /\ from(i) < from(j)
    BY <1>2, <1>3, <1>10
  <2>2. compare(s[from(i)], s[from(j)]) <= 0
    BY <2>1 DEF InOrder
  <2> QED
    BY <1>2, <1>10, <2>2
<1> QED
  BY <1>8, <1>9, <1>10

-----------------------------------------------------------------------------
(* The sort.                                                               *)

\* g is the recursive function of sortByPriority over the first L rows.
IsSorting(g, s, L) == g = [n \in 0 .. L |-> IF n = 0 THEN <<>> ELSE Place(g[n - 1], s[n])]

\* The recursive function exists.
LEMMA SortingExists ==
    ASSUME NEW s, NEW L \in Nat
    PROVE  \E g : IsSorting(g, s, L)
<1> DEFINE B == {k \in Nat : ~ \E g : IsSorting(g, s, k)}
<1> SUFFICES ASSUME B # {} PROVE FALSE
  OBVIOUS
<1>1. PICK k \in B : \A m \in B : k <= m
  <2>1. B \in SUBSET Nat
    OBVIOUS
  <2> HIDE DEF B
  <2> QED
    BY <2>1, Least
<1>2. CASE k = 0
  <2>1. IsSorting([n \in 0 .. 0 |-> <<>>], s, 0)
    BY DEF IsSorting
  <2> QED
    BY <1>1, <1>2, <2>1
<1>3. CASE k # 0
  <2>1. k - 1 \in Nat /\ k - 1 \notin B
    BY <1>1, <1>3
  <2>2. PICK f : IsSorting(f, s, k - 1)
    BY <2>1
  <2> DEFINE g == [n \in 0 .. k |-> IF n = k THEN Place(f[k - 1], s[k]) ELSE f[n]]
  <2>3. \A n \in 0 .. k - 1 : g[n] = f[n]
    BY <1>1
  <2>4. \A n \in 0 .. k : g[n] = IF n = 0 THEN <<>> ELSE Place(g[n - 1], s[n])
    <3> TAKE n \in 0 .. k
    <3>1. CASE n = k
      BY <1>3, <2>1, <2>3, <3>1
    <3>2. CASE n # k
      <4>1. n \in 0 .. k - 1 /\ g[n] = f[n]
        BY <1>1, <2>3, <3>2
      <4>2. f[n] = IF n = 0 THEN <<>> ELSE Place(f[n - 1], s[n])
        BY <2>2, <4>1 DEF IsSorting
      <4>3. n # 0 => n - 1 \in 0 .. k - 1 /\ g[n - 1] = f[n - 1]
        BY <2>3, <4>1
      <4> HIDE DEF g
      <4> QED
        BY <4>1, <4>2, <4>3
    <3> QED
      BY <3>1, <3>2
  <2>5. IsSorting(g, s, k)
    <3>1. g = [n \in 0 .. k |-> g[n]]
      OBVIOUS
    <3> HIDE DEF g
    <3> QED
      BY <2>4, <3>1 DEF IsSorting
  <2> QED
    BY <1>1, <2>5
<1> QED
  BY <1>1, <1>2, <1>3

\* r are the first n rows of s, sorted.
SortedSoFar(r, s, n) ==
    /\ r \in Seq(Order) /\ Unlike(r) /\ InOrder(r)
    /\ \A i \in 1 .. n : \E j \in DOMAIN r : r[j] = s[i]
    /\ \A j \in DOMAIN r : \E i \in 1 .. n : r[j] = s[i]

\* After the last row all of them are there, in order.
LEMMA SortingSorts ==
    ASSUME NEW s \in Seq(Order), Unlike(s),
           NEW g, IsSorting(g, s, Len(s))
    PROVE  SortedSoFar(g[Len(s)], s, Len(s))
<1> DEFINE B == {n \in 0 .. Len(s) : ~ SortedSoFar(g[n], s, n)}
<1>0. Len(s) \in Nat
  OBVIOUS
<1> SUFFICES ASSUME B # {} PROVE FALSE
  BY <1>0
<1>1. PICK n \in B : \A m \in B : n <= m
  <2>1. B \in SUBSET Nat
    BY <1>0
  <2> HIDE DEF B
  <2> QED
    BY <2>1, Least
<1>2. n \in 0 .. Len(s) /\ ~ SortedSoFar(g[n], s, n)
  BY <1>1
<1>3. g[n] = IF n = 0 THEN <<>> ELSE Place(g[n - 1], s[n])
  BY <1>2 DEF IsSorting
<1>4. CASE n = 0
  <2>1. SortedSoFar(<<>>, s, 0)
    BY DEF SortedSoFar, Unlike, InOrder
  <2> QED
    BY <1>2, <1>3, <1>4, <2>1
<1>5. CASE n # 0
  <2> DEFINE r == g[n - 1]
             o == s[n]
             t == g[n]
  <2>1. n - 1 \in 0 .. Len(s) /\ n - 1 \notin B
    BY <1>1, <1>2, <1>5
  <2>2. SortedSoFar(r, s, n - 1)
    BY <2>1
  <2> HIDE DEF B
  <2>3. n \in 1 .. Len(s) /\ o \in Order /\ t = Place(r, o)
    BY <1>2, <1>3, <1>5
  <2> HIDE DEF r, o, t
  <2>4. r \in Seq(Order)
    BY <2>2 DEF SortedSoFar
  <2>5. PICK k : /\ IsPlaced(r, o, k, t)
                 /\ \A i \in 1 .. k - 1 : ~ (compare(o, r[i]) < 0)
                 /\ k <= Len(r) => compare(o, r[k]) < 0
    BY <2>3, <2>4, PlaceIs
  <2>6. InOrder(t)
    BY <2>2, <2>3, <2>4, <2>5, PlacedInOrder DEF SortedSoFar
  <2>7. /\ \E j \in DOMAIN t : t[j] = o
        /\ \A i \in DOMAIN r : \E j \in DOMAIN t : t[j] = r[i]
        /\ \A j \in DOMAIN t : t[j] = o \/ \E i \in DOMAIN r : t[j] = r[i]
    BY <2>4, <2>5, PlacedRows
  <2>8. \A i \in DOMAIN r : r[i].id # o.id
    <3> TAKE i \in DOMAIN r
    <3>1. PICK m \in 1 .. n - 1 : r[i] = s[m]
      BY <2>2 DEF SortedSoFar
    <3>2. m \in DOMAIN s /\ n \in DOMAIN s /\ m # n
      BY <2>3
    <3> QED
      BY <3>1, <3>2 DEF Unlike, o
  <2>9. Unlike(t)
    BY <2>2, <2>4, <2>5, <2>8, PlacedUnlike DEF SortedSoFar
  <2>10. \A i \in 1 .. n : \E j \in DOMAIN t : t[j] = s[i]
    <3> TAKE i \in 1 .. n
    <3>1. CASE i = n
      BY <2>7, <3>1 DEF o
    <3>2. CASE i # n
      <4>1. i \in 1 .. n - 1
        BY <2>3, <3>2
      <4>2. PICK j \in DOMAIN r : r[j] = s[i]
        BY <2>2, <4>1 DEF SortedSoFar
      <4> QED
        BY <2>7, <4>2
    <3> QED
      BY <3>1, <3>2
  <2>11. \A j \in DOMAIN t : \E i \in 1 .. n : t[j] = s[i]
    <3> TAKE j \in DOMAIN t
    <3>1. CASE t[j] = o
      <4>1. n \in 1 .. n
        BY <2>3
      <4> QED
        BY <3>1, <4>1 DEF o
    <3>2. CASE t[j] # o
      <4>1. PICK i \in DOMAIN r : t[j] = r[i]
        BY <2>7, <3>2
      <4>2. PICK m \in 1 .. n - 1 : r[i] = s[m]
        BY <2>2 DEF SortedSoFar
      <4>3. m \in 1 .. n
        BY <2>3
      <4> QED
        BY <4>1, <4>2, <4>3
    <3> QED
      BY <3>1, <3>2
  <2>12. t \in Seq(Order)
    BY <2>5 DEF IsPlaced
  <2>13. SortedSoFar(t, s, n)
    BY <2>6, <2>9, <2>10, <2>11, <2>12 DEF SortedSoFar
  <2> QED
    BY <1>2, <2>13 DEF t
<1> QED
  BY <1>4, <1>5

-----------------------------------------------------------------------------
(* The query, the answer and the orders that move meanwhile.               *)

\* Whatever order the rows come in, each is there once.
LEMMA RowsFound ==
    ASSUME NEW S, IsFiniteSet(S), S \subseteq Order,
           \A p, q \in S : p.id = q.id => p = q,
           NEW rows \in SetToSeqs(S)
    PROVE  /\ rows \in Seq(Order) /\ Unlike(rows)
           /\ \A o \in S : \E i \in DOMAIN rows : rows[i] = o
<1> DEFINE n == Cardinality(S)
<1>1. n \in Nat
  BY FS_CardinalityType
<1>2. rows \in [1 .. n -> S] /\ \A i, j \in 1 .. n : i # j => rows[i] # rows[j]
  BY DEF SetToSeqs
<1>3. rows \in Injection(1 .. n, S)
  BY <1>2 DEF Injection, IsInjective
<1>4. Cardinality(1 .. n) = n
  <2>1. Cardinality(1 .. n) = IF 1 > n THEN 0 ELSE n - 1 + 1
    BY <1>1, FS_Interval
  <2> HIDE DEF n
  <2> QED
    BY <1>1, <2>1
<1>5. rows \in Surjection(1 .. n, S)
  <2>1. Cardinality(1 .. n) = Cardinality(S) <=> rows \in Surjection(1 .. n, S)
    BY <1>3, FS_Injection
  <2> QED
    BY <1>4, <2>1
<1> HIDE DEF n
<1>6. \A o \in S : \E i \in DOMAIN rows : rows[i] = o
  BY <1>2, <1>5 DEF Surjection
<1>7. rows \in Seq(Order)
  BY <1>1, <1>2
<1>8. Unlike(rows)
  BY <1>2 DEF Unlike
<1> QED
  BY <1>6, <1>7, <1>8

\* Any table of orders will do.
LEMMA InitListInv ==
    ASSUME ListingInit
    PROVE  ListInv
<1>1. PICK table \in [OrderId -> [status : Reached, createdAt : Time, customerId : CustomerId]] :
         orders = {[id |-> o, status |-> table[o].status, createdAt |-> table[o].createdAt,
                    customerId |-> table[o].customerId] : o \in OrderId}
  BY DEF ListingInit
<1> DEFINE row == [o \in OrderId |-> [id |-> o, status |-> table[o].status, createdAt |-> table[o].createdAt,
                                      customerId |-> table[o].customerId]]
<1>2. Reached \subseteq OSStatus /\ IsFiniteSet(OrderId)
  BY ListingAssumption
<1>3. \A o \in OrderId : row[o] \in Order /\ row[o].id = o
  BY <1>2 DEF Order
<1>4. orders = {row[o] : o \in OrderId}
  BY <1>1
<1> HIDE DEF row
<1> DEFINE f == [o \in OrderId |-> row[o]]
<1>5. f \in Surjection(OrderId, orders)
  BY <1>4 DEF Surjection
<1>6. IsFiniteSet(orders)
  BY <1>2, <1>5, FS_Surjection
<1>7. orders \subseteq Order /\ \A p, q \in orders : p.id = q.id => p = q
  BY <1>3, <1>4
<1> QED
  BY <1>6, <1>7 DEF ListInv, ListingInit

\* What has ended does not come back to work.
LEMMA EndedStaysEnded ==
    ASSUME NEW s, NEW u, canTransition(s, u), u \notin {"FINISHED", "DELIVERED"}
    PROVE  s \notin {"FINISHED", "DELIVERED"} /\ u \in OSStatus
<1>1. s \in OSStatus /\ u \in VALID_TRANSITIONS[s]
  BY DEF canTransition
<1>2. CASE s = "RECEIVED"
  BY <1>1, <1>2 DEF VALID_TRANSITIONS, OSStatus
<1>3. CASE s = "DIAGNOSIS"
  BY <1>1, <1>3 DEF VALID_TRANSITIONS, OSStatus
<1>4. CASE s = "WAITING_APPROVAL"
  BY <1>1, <1>4 DEF VALID_TRANSITIONS, OSStatus
<1>5. CASE s = "APPROVED"
  BY <1>1, <1>5 DEF VALID_TRANSITIONS, OSStatus
<1>6. CASE s = "PAID"
  BY <1>1, <1>6 DEF VALID_TRANSITIONS, OSStatus
<1>7. CASE s = "EXECUTION"
  BY <1>1, <1>7 DEF VALID_TRANSITIONS, OSStatus
<1>8. CASE s = "FINISHED"
  BY <1>1, <1>8 DEF VALID_TRANSITIONS, OSStatus
<1>9. CASE s \in {"DELIVERED", "REJECTED", "CANCELLED"}
  <2>1. VALID_TRANSITIONS[s] = {}
    BY <1>1, <1>9 DEF VALID_TRANSITIONS
  <2> QED
    BY <1>1, <2>1
<1> QED
  BY <1>1, <1>2, <1>3, <1>4, <1>5, <1>6, <1>7, <1>8, <1>9 DEF OSStatus

\* One lemma for each action.
LEMMA MoveListInv ==
    ASSUME ListInv, NEW o \in orders, NEW s \in Reached, Move(o, s)
    PROVE  ListInv'
<1> DEFINE p == [o EXCEPT !.status = s]
<1>1. orders' = (orders \ {o}) \cup {p} /\ filter' = filter /\ listed' = listed
  BY DEF Move
<1>2. o \in Order /\ s \in OSStatus
  BY ListingAssumption DEF ListInv
<1>3. /\ p \in Order /\ p.id = o.id /\ p.status = s
      /\ p.createdAt = o.createdAt /\ p.customerId = o.customerId
  BY <1>2 DEF Order
<1>4. s \notin {"FINISHED", "DELIVERED"} => o.status \notin {"FINISHED", "DELIVERED"}
  BY EndedStaysEnded DEF Move
<1> HIDE DEF p
<1>5. IsFiniteSet(orders')
  BY <1>1, FS_AddElement, FS_RemoveElement DEF ListInv
<1>6. orders' \subseteq Order /\ \A q, r \in orders' : q.id = r.id => q = r
  BY <1>1, <1>3 DEF ListInv
<1>7. ASSUME filter # NoRequest, filter.step # "find", NEW q \in orders', Wanted(filter.where, q)
      PROVE  \E i \in DOMAIN listed : listed[i].id = q.id
  <2>1. CASE q = p
    <3>1. Wanted(filter.where, o)
      BY <1>3, <1>4, <1>7, <2>1 DEF Wanted
    <3> QED
      BY <1>3, <1>7, <2>1, <3>1 DEF ListInv
  <2>2. CASE q # p
    BY <1>1, <1>7, <2>2 DEF ListInv
  <2> QED
    BY <2>1, <2>2
<1>8. filter # NoRequest /\ filter.step # "find" =>
         \A q \in orders' : Wanted(filter.where, q) => \E i \in DOMAIN listed : listed[i].id = q.id
  BY <1>7
<1> QED
  BY <1>1, <1>5, <1>6, <1>8 DEF ListInv

LEMMA AskListInv ==
    ASSUME ListInv, NEW where \in Filters, Ask(where)
    PROVE  ListInv'
<1>1. /\ filter' = [step |-> "find", where |-> where] /\ orders' = orders
      /\ where \in Filter
  BY ListingAssumption DEF Ask
<1>2. filter' \in [step : {"find", "sort", "answered"}, where : Filter] /\ filter'.step = "find"
  BY <1>1
<1> QED
  BY <1>1, <1>2 DEF ListInv

\* The query leaves no order out that is wanted.
LEMMA WantedIsFound ==
    ASSUME NEW where \in Filter, NEW o \in Order, Wanted(where, o)
    PROVE  buildWhere(where, o)
<1>1. /\ o.status \notin {"FINISHED", "DELIVERED"} /\ where.status = None
      /\ where.customerId \in {None, o.customerId}
      /\ ~ (where.from # NoTime /\ o.createdAt < where.from)
      /\ ~ (where.to # NoTime /\ where.to < o.createdAt)
  BY DEF Wanted, Period
<1>2. o.createdAt \in Nat /\ where.from \in Nat /\ where.to \in Nat
  <2>1. \A x \in Time \cup {NoTime} : x \in Nat
    BY ListingAssumption DEF NoTime
  <2>2. o.createdAt \in Time
    BY DEF Order
  <2>3. where.from \in Time \cup {NoTime} /\ where.to \in Time \cup {NoTime}
    BY DEF Filter
  <2>4. o.createdAt \in Nat
    BY <2>1, <2>2
  <2>5. where.from \in Nat
    BY <2>1, <2>3
  <2>6. where.to \in Nat
    BY <2>1, <2>3
  <2> QED
    BY <2>4, <2>5, <2>6
<1> QED
  BY <1>1, <1>2 DEF buildWhere

LEMMA FindAllListInv ==
    ASSUME ListInv, FindAll
    PROVE  ListInv'
<1> DEFINE S == {o \in orders : buildWhere(filter.where, o)}
<1>1. /\ filter # NoRequest /\ filter.step = "find" /\ orders' = orders
      /\ filter' = [filter EXCEPT !.step = "sort"]
      /\ listed' \in SetToSeqs(S)
  BY DEF FindAll
<1>2. /\ filter \in [step : {"find", "sort", "answered"}, where : Filter]
      /\ filter.where \in Filter
  BY <1>1 DEF ListInv
<1>3. /\ filter' \in [step : {"find", "sort", "answered"}, where : Filter]
      /\ filter'.step = "sort" /\ filter'.where = filter.where
  BY <1>1, <1>2
<1>4. /\ IsFiniteSet(S) /\ S \subseteq Order
      /\ \A p, q \in S : p.id = q.id => p = q
  BY FS_Subset DEF ListInv
<1> DEFINE rows == listed'
<1>5. ASSUME NEW o \in orders, Wanted(filter.where, o) PROVE o \in S
  BY <1>2, <1>5, WantedIsFound DEF ListInv
<1> HIDE DEF S
<1>6. /\ rows \in Seq(Order) /\ Unlike(rows)
      /\ \A o \in S : \E i \in DOMAIN rows : rows[i] = o
  <2>1. rows \in SetToSeqs(S)
    BY <1>1
  <2> HIDE DEF rows
  <2> QED
    BY <1>4, <2>1, RowsFound
<1>7. Unlike(listed)'
  BY <1>6 DEF Unlike
<1>8. ASSUME NEW o \in orders', Wanted(filter'.where, o)
      PROVE  \E i \in DOMAIN listed' : listed'[i].id = o.id
  <2>1. o \in S
    BY <1>1, <1>3, <1>5, <1>8
  <2> QED
    BY <1>6, <2>1
<1> QED
  BY <1>1, <1>3, <1>6, <1>7, <1>8 DEF ListInv, Wanted

LEMMA SortListInv ==
    ASSUME ListInv, sortByPriority
    PROVE  ListInv'
<1>1. /\ filter # NoRequest /\ filter.step = "sort" /\ orders' = orders
      /\ filter' = [filter EXCEPT !.step = "answered"]
  BY DEF sortByPriority
<1>2. /\ filter \in [step : {"find", "sort", "answered"}, where : Filter]
      /\ listed \in Seq(Order) /\ Unlike(listed)
      /\ \A o \in orders : Wanted(filter.where, o) => \E i \in DOMAIN listed : listed[i].id = o.id
  BY <1>1 DEF ListInv
<1>3. /\ filter' \in [step : {"find", "sort", "answered"}, where : Filter]
      /\ filter'.step = "answered" /\ filter'.where = filter.where
  BY <1>1, <1>2
<1> DEFINE g == CHOOSE sorted : IsSorting(sorted, listed, Len(listed))
           rows == listed'
<1>4. rows = g[Len(listed)]
  BY DEF sortByPriority, IsSorting
<1>5. Len(listed) \in Nat
  BY <1>2
<1>6. IsSorting(g, listed, Len(listed))
  BY <1>5, SortingExists
<1> HIDE DEF g, rows
<1>7. SortedSoFar(rows, listed, Len(listed))
  BY <1>2, <1>4, <1>6, SortingSorts
<1>8. rows \in Seq(Order) /\ Unlike(rows) /\ InOrder(rows)
  BY <1>7 DEF SortedSoFar
<1>9. ASSUME NEW o \in orders, Wanted(filter.where, o) PROVE \E j \in DOMAIN rows : rows[j].id = o.id
  <2>1. PICK i \in DOMAIN listed : listed[i].id = o.id
    BY <1>2, <1>9
  <2>2. i \in 1 .. Len(listed)
    BY <1>2, <2>1
  <2> QED
    BY <1>7, <2>1, <2>2 DEF SortedSoFar
<1>10. Unlike(listed)' /\ InOrder(listed)'
  BY <1>8 DEF Unlike, InOrder, rows
<1>11. listed' \in Seq(Order) /\ \A o \in orders : Wanted(filter.where, o) =>
          \E j \in DOMAIN listed' : listed'[j].id = o.id
  BY <1>8, <1>9 DEF rows
<1> QED
  BY <1>1, <1>3, <1>10, <1>11 DEF ListInv, Wanted

\* The invariant holds always.
LEMMA ListInvCorrect == ListingSpec => []ListInv
<1>1. ListingInit => ListInv
  BY InitListInv
<1>2. ListInv /\ [ListingNext]_listingVars => ListInv'
  <2> SUFFICES ASSUME ListInv, [ListingNext]_listingVars PROVE ListInv'
    OBVIOUS
  <2>1. ASSUME NEW o \in orders, NEW s \in Reached, Move(o, s) PROVE ListInv'
    BY <2>1, MoveListInv
  <2>2. ASSUME NEW where \in Filters, Ask(where) PROVE ListInv'
    BY <2>2, AskListInv
  <2>3. CASE FindAll
    BY <2>3, FindAllListInv
  <2>4. CASE sortByPriority
    BY <2>4, SortListInv
  <2>5. CASE UNCHANGED listingVars
    BY <2>5 DEF ListInv, listingVars, Unlike, InOrder, Wanted
  <2> QED
    BY <2>1, <2>2, <2>3, <2>4, <2>5 DEF ListingNext
<1> QED
  BY <1>1, <1>2, PTL DEF ListingSpec

\* For any orders, times and filters, and in whatever order the database returns
\* the rows: the list that ListServiceOrdersUseCase answers has no order behind one
\* that is less urgent, or as urgent and opened later.
THEOREM MostUrgentCorrect == ListingSpec => []MostUrgentFirst
<1>1. ListInv => MostUrgentFirst
  <2> SUFFICES ASSUME ListInv, Answered, NEW i \in DOMAIN listed, NEW j \in DOMAIN listed, i < j
               PROVE  \/ Waits(listed[i]) < Waits(listed[j])
                      \/ /\ Waits(listed[i]) = Waits(listed[j])
                         /\ listed[i].createdAt <= listed[j].createdAt
    BY DEF MostUrgentFirst
  <2>1. listed \in Seq(Order) /\ InOrder(listed)
    BY DEF ListInv, Answered
  <2>2. listed[i] \in Order /\ listed[j] \in Order
    BY <2>1
  <2>3. compare(listed[i], listed[j]) <= 0
    BY <2>1 DEF InOrder
  <2> QED
    BY <2>2, <2>3, CompareIsUrgency
<1> QED
  BY <1>1, ListInvCorrect, PTL

\* For any orders, times and filters, however many orders move on between the query
\* and the answer: an order at work that is asked for is in the list exactly once.
THEOREM WorkListedCorrect == ListingSpec => []WorkIsListedOnce
<1>1. ListInv => WorkIsListedOnce
  <2> SUFFICES ASSUME ListInv, Answered, NEW o \in orders, Wanted(filter.where, o)
               PROVE  Cardinality({i \in DOMAIN listed : listed[i].id = o.id}) = 1
    BY DEF WorkIsListedOnce, Wanted
  <2>1. Unlike(listed) /\ \E i \in DOMAIN listed : listed[i].id = o.id
    BY DEF ListInv, Answered
  <2>2. PICK i \in DOMAIN listed : listed[i].id = o.id
    BY <2>1
  <2>3. {k \in DOMAIN listed : listed[k].id = o.id} = {i}
    BY <2>1, <2>2 DEF Unlike
  <2> QED
    BY <2>3, FS_Singleton
<1> QED
  BY <1>1, ListInvCorrect, PTL
=============================================================================
