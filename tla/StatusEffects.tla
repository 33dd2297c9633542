---------------------------- MODULE StatusEffects ----------------------------
(***************************************************************************)
(* What follows the commit of a new status: the notification of the        *)
(* customer and the metrics.  None of it is in the transaction.            *)
(*   use-cases/saga/ServiceOrderSaga.ts (process, after the unit of work)  *)
(*   use-cases/service-orders/NotifyStatusChangeUseCase.ts                 *)
(*   adapters/services/SnsNotificationService.ts                           *)
(*   adapters/decorators                                                   *)
(*                                                                         *)
(* A worker is whatever runs a use case to its end: a poller of replies or *)
(* of dead commands, or an HTTP request.  Two of them may be busy with the *)
(* same order: a delivery overlaps the notification of the repair's end,   *)
(* and a message is received again when its handling takes 30 seconds.     *)
(***************************************************************************)
EXTENDS ServiceOrderStateMachine, FiniteSets

CONSTANTS
    OrderId,
    Worker,
    Reached   \* bound: the statuses an order comes to

ASSUME EffectsAssumption == Reached \subseteq OSStatus

VARIABLES
    status,      \* as committed
    history,     \* the statuses an order had
    customers,   \* orders whose customer is not soft-deleted
    job,         \* what each worker has still to do
    announced,   \* the statuses of an order that the topic was told of
    created,     \* how often service_orders_created_total counted an order
    measured,    \* how often service_orders_time_to_status_seconds observed it
    missed       \* history: orders about which an event failed or was cut off

orderVars == <<status, history, customers>>
effectVars == <<announced, created, measured, missed>>
vars == <<orderVars, job, effectVars>>

Idle == [at |-> "idle"]

\* The new status is the one in the result of the use case, "NONE" when the
\* message changed none, and the one seen is what the notification reads.
Job == [at : {"count", "order", "customer", "publish", "measure"}, order : OrderId,
        new : OSStatus \cup {"NONE"}, seen : OSStatus \cup {"NONE"}]

TypeOK ==
    /\ status \in [OrderId -> OSStatus \cup {"NONE"}]
    /\ history \in [OrderId -> Seq(OSStatus)]
    /\ customers \subseteq OrderId
    /\ job \in [Worker -> Job \cup {Idle}]
    /\ announced \in [OrderId -> Seq(OSStatus)]
    /\ created \in [OrderId -> Nat]
    /\ measured \in [OrderId -> [OSStatus -> Nat]]
    /\ missed \subseteq OrderId

\* The life of an order up to its repair.
UnderRepair == <<"RECEIVED", "DIAGNOSIS", "WAITING_APPROVAL", "APPROVED", "PAID", "EXECUTION">>

\* An order is not opened yet, or is being repaired and nothing about it was
\* left out so far. (The second is a bound: the way there is long.)
Init ==
    /\ history \in [OrderId -> {<<>>, UnderRepair}]
    /\ status = [o \in OrderId |-> IF history[o] = <<>> THEN "NONE" ELSE "EXECUTION"]
    /\ customers = OrderId
    /\ job = [w \in Worker |-> Idle]
    /\ announced = [o \in OrderId |-> IF history[o] = <<>> THEN <<>> ELSE Tail(UnderRepair)]
    /\ created = [o \in OrderId |-> IF history[o] = <<>> THEN 0 ELSE 1]
    /\ measured = [o \in OrderId |->
                     [s \in OSStatus |-> IF \E k \in 2 .. Len(history[o]) : history[o][k] = s THEN 1 ELSE 0]]
    /\ missed = {}

-----------------------------------------------------------------------------
(* The use cases, as far as their commit.                                  *)

Begin(w, at, o, new) ==
    /\ job[w] = Idle
    /\ job' = [job EXCEPT ![w] = [at |-> at, order |-> o, new |-> new, seen |-> "NONE"]]

Moves(o, s) ==
    /\ status' = [status EXCEPT ![o] = s]
    /\ history' = [history EXCEPT ![o] = Append(@, s)]
    /\ UNCHANGED customers

\* Opening an order is counted, and announces nothing.
Open(w, o) ==
    /\ status[o] = "NONE"
    /\ Moves(o, "RECEIVED")
    /\ Begin(w, "count", o, "RECEIVED")
    /\ UNCHANGED effectVars

\* A reply, a dead command or a delivery that moves the order.
Commit(w, o, s) ==
    /\ s \in Reached
    /\ canTransition(status[o], s)
    /\ Moves(o, s)
    /\ Begin(w, "order", o, s)
    /\ UNCHANGED effectVars

\* A message that is a duplicate, is ignored, or changes no status.
NoNews(w, o) ==
    /\ status[o] # "NONE"
    /\ Begin(w, "measure", o, "NONE")
    /\ UNCHANGED <<orderVars, effectVars>>

CustomerLeaves(o) ==
    /\ customers' = customers \ {o}
    /\ UNCHANGED <<status, history, job, effectVars>>

-----------------------------------------------------------------------------
(* NotifyStatusChangeUseCase, awaited after the commit.                    *)

At(w, at) == job[w] # Idle /\ job[w].at = at

GoTo(w, at) == job' = [job EXCEPT ![w].at = at]

\* A slip: the announcement is the status the use case started from.
ReadOrder_Before(w) ==
    /\ At(w, "order")
    /\ LET past == history[job[w].order] IN
       job' = [job EXCEPT ![w].at = "customer", ![w].seen = past[Len(past) - 1]]
    /\ UNCHANGED <<orderVars, effectVars>>

ReadOrder(w) ==
    /\ At(w, "order")
    /\ job' = [job EXCEPT ![w].at = "customer", ![w].seen = status[job[w].order]]
    /\ UNCHANGED <<orderVars, effectVars>>

\* No customer, no notification: findById leaves out soft-deleted ones.
ReadCustomer(w) ==
    /\ At(w, "customer")
    /\ GoTo(w, IF job[w].order \in customers THEN "publish" ELSE "measure")
    /\ UNCHANGED <<orderVars, effectVars>>

Publish(w) ==
    /\ At(w, "publish")
    /\ announced' = [announced EXCEPT ![job[w].order] = Append(@, job[w].seen)]
    /\ GoTo(w, "measure")
    /\ UNCHANGED <<orderVars, created, measured, missed>>

\* One of the three calls fails. It is counted and logged, never thrown. (The
\* topic may have the event all the same, which is Publish.)
NotifyFails(w) ==
    /\ At(w, "order") \/ At(w, "customer") \/ At(w, "publish")
    /\ missed' = missed \cup {job[w].order}
    /\ GoTo(w, "measure")
    /\ UNCHANGED <<orderVars, announced, created, measured>>

-----------------------------------------------------------------------------
(* The decorators, when the use case has returned.                         *)

Done(w) == job' = [job EXCEPT ![w] = Idle]

Count(w) ==
    /\ At(w, "count")
    /\ created' = [created EXCEPT ![job[w].order] = @ + 1]
    /\ Done(w)
    /\ UNCHANGED <<orderVars, announced, measured, missed>>

\* A slip: every handled message is measured, whether or not it moved the order.
Measure_Always(w) ==
    /\ At(w, "measure")
    /\ measured' = [measured EXCEPT ![job[w].order][status[job[w].order]] = @ + 1]
    /\ Done(w)
    /\ UNCHANGED <<orderVars, announced, created, missed>>

Measure(w) ==
    /\ At(w, "measure")
    /\ measured' = IF job[w].new = "NONE" THEN measured
                   ELSE [measured EXCEPT ![job[w].order][job[w].new] = @ + 1]
    /\ Done(w)
    /\ UNCHANGED <<orderVars, announced, created, missed>>

\* The process stops: nothing does again what was left to do.
Crash(w) ==
    /\ job[w] # Idle
    /\ missed' = missed \cup {job[w].order}
    /\ Done(w)
    /\ UNCHANGED <<orderVars, announced, created, measured>>

-----------------------------------------------------------------------------
Effects(w) ==
    \/ ReadOrder(w) \/ ReadCustomer(w) \/ Publish(w) \/ NotifyFails(w)
    \/ Count(w) \/ Measure(w)

Next ==
    \/ \E w \in Worker, o \in OrderId :
          \/ Open(w, o) \/ NoNews(w, o)
          \/ \E s \in OSStatus : Commit(w, o, s)
    \/ \E w \in Worker : Effects(w) \/ Crash(w)
    \/ \E o \in OrderId : CustomerLeaves(o)

\* Once a use case has committed, its worker goes on until it is done: each
\* step is an await whose call answers or fails.
Fairness == \A w \in Worker : WF_vars(Effects(w))

Spec == Init /\ [][Next]_vars /\ Fairness
-----------------------------------------------------------------------------
(* Properties.                                                             *)

AnnouncedOf(o) == {announced[o][k] : k \in DOMAIN announced[o]}

\* The effects are effects of commits: an order is counted once, its arrival
\* at each status is measured at most once, however often a message comes back
\* and whichever worker is first, and no more is announced than happened.
EffectsFollowCommits ==
    \A o \in OrderId :
        LET changes == {history[o][k] : k \in 2 .. Len(history[o])} IN
        /\ created[o] <= 1
        /\ \A s \in OSStatus : measured[o][s] <= IF s \in changes THEN 1 ELSE 0
        /\ AnnouncedOf(o) \subseteq changes
        /\ Len(announced[o]) <= Cardinality(changes)

Told(o, s) == s \in AnnouncedOf(o) \/ o \in missed \/ o \notin customers

\* The customer learns how the order ended, although the notification reads the
\* order again and may be overtaken, unless something failed or stopped.
EndIsAnnounced ==
    \A o \in OrderId, s \in {"DELIVERED", "REJECTED", "CANCELLED"} :
        status[o] = s ~> Told(o, s)
=============================================================================
