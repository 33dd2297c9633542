------------------------------- MODULE Access -------------------------------
(***************************************************************************)
(* One request on its way to its controller, past the middlewares of its   *)
(* route, and through the use cases that read an order.                    *)
(*   frameworks/http/middlewares/authMiddleware.ts, roleMiddleware.ts,     *)
(*   internalTokenMiddleware.ts, errorMiddleware.ts, and the two limiters  *)
(*   of routes/authRoutes.ts, whose counts are a choice here               *)
(*   use-cases/utils/ownership.ts, serviceOrderUtils.ts                    *)
(*   use-cases/service-orders/GetServiceOrder[History]UseCase.ts           *)
(* The promise it is compared with is the table of                         *)
(*   docs/architecture/authorization-matrix.md                             *)
(***************************************************************************)
EXTENDS Routes

CONSTANTS
    Requester,   \* customers
    OrderPath,   \* identifiers in a path, some of orders never created
    OwnerOf      \* the customer of each order there is

ASSUME AccessAssumption == OwnerOf \in [DOMAIN OwnerOf -> Requester] /\ DOMAIN OwnerOf \subseteq OrderPath

Nobody == [type |-> "nobody"]

\* The header of a request: none, one that jwt.verify refuses, or the claims of
\* a token. Old tokens have no type; a field may be missing or not a string,
\* and a role may be none that the shop has.
Token ==
    [type : {"none", "refused"}]
        \cup [type : {"staff", "missing"}, userId : BOOLEAN, role : AnyRole \cup {"missing"}]
        \cup [type : {"customer"}, sub : Requester \cup {"missing"}]
        \cup [type : {"other"}]

\* spent: the caller has made all the calls that a limiter lets it make for now.
HttpRequest ==
    [route : DOMAIN API, order : OrderPath, token : Token, secret : {"right", "wrong", "none"},
     spent : BOOLEAN]

-----------------------------------------------------------------------------
(* The middlewares. Each answers with a status code or lets the request by. *)

toPayload(t) ==
    CASE t.type \in {"staff", "missing"} /\ t.userId /\ t.role # "missing" ->
             [type |-> "staff", role |-> t.role]
      [] t.type = "customer" /\ t.sub # "missing" -> [type |-> "customer", sub |-> t.sub]
      [] OTHER -> Nobody

\* req.user after authMiddleware. A refused token is never read.
authMiddleware(t) == IF t.type \in {"none", "refused"} THEN Nobody ELSE toPayload(t)

\* requireRole, requireStaff, requireCustomer: the type comes first, so a
\* customer is refused by it and not by the lack of a role.
LetThrough(user, who) ==
    \/ user.type = "staff" /\ user.role \in who
    \/ user.type = "customer" /\ "customer" \in who

\* The routes of the token function, behind internalTokenMiddleware.
Internal(route) == ~ route.auth /\ "function" \in route.who /\ "nobody" \notin route.who

\* loginLimiter and lookupLimiter
Limited == {"login", "lookupCustomer"}

\* A slip: every caller is taken for the shop.
NotOwner_Never(user, o) == FALSE

\* requesterCustomerId and assertOwnership
NotOwner(user, o) == user.type = "customer" /\ OwnerOf[o] # user.sub

\* The reads of one order; any other controller is reached and answers itself.
Controller(q, user) ==
    CASE q.route \notin {"getStatus", "getHistory", "getOrder"} -> 200
      [] q.route \in {"getStatus", "getHistory", "getOrder"} /\ q.order \notin DOMAIN OwnerOf -> 404
      [] q.route \in {"getStatus", "getHistory"} /\ q.order \in DOMAIN OwnerOf /\ NotOwner(user, q.order) -> 403
      [] OTHER -> 200

\* The middlewares in the order in which the routers place them, then the
\* controller; the error middleware answers with the status of an AppError.
Respond(q) ==
    LET route == API[q.route]
        user == IF route.auth THEN authMiddleware(q.token) ELSE Nobody IN
    CASE q.route \in Limited /\ q.spent -> 429
      [] route.auth /\ user = Nobody -> 401
      [] route.auth /\ user # Nobody /\ ~ LetThrough(user, route.who) -> 403
      [] Internal(route) /\ ~ q.spent /\ q.secret # "right" -> 401
      [] OTHER -> Controller(q, user)
-----------------------------------------------------------------------------
(* Properties.                                                             *)

\* The table of the documentation, by callers: who may use which routes. What
\* it opens to any role (everyone) asks for a token of the staff, no more.
Matrix ==
    [attendant |-> {"listCustomers", "createCustomer", "getByTaxId", "getCustomer", "updateCustomer",
                    "deleteCustomer", "listVehicles", "createVehicle", "getVehicle", "updateVehicle",
                    "deleteVehicle", "createOrder"},
     mechanic  |-> {"deliver", "addService", "removeService", "addItem", "removeItem"},
     everyone  |-> {"listItems", "getItem", "listServices", "getService",
                    "listOrders", "getOrder", "getHistory"},
     named     |-> {"listAvgTime"},
     admin     |-> {"createItem", "updateItem", "deleteItem", "createService", "updateService",
                    "deleteService", "register"},
     customer  |-> {"getStatus", "getHistory"}]

MayUse(role) ==
    Matrix.everyone \cup
        CASE role = "attendant" -> Matrix.attendant \cup Matrix.named
          [] role = "mechanic" -> Matrix.mechanic \cup Matrix.named
          [] role = "admin" -> Matrix.attendant \cup Matrix.mechanic \cup Matrix.named \cup Matrix.admin
          [] role = "other" -> {}

\* The answer the documentation promises for what the caller holds.
IsStaff(t) == t.type \in {"staff", "missing"} /\ t.userId /\ t.role # "missing"

IsCustomer(t) == t.type = "customer" /\ t.sub # "missing"

Promised(q) ==
    LET t == q.token
        found == q.order \in DOMAIN OwnerOf
        reads == q.route \in {"getStatus", "getHistory", "getOrder"} IN
    CASE q.route \in {"login", "lookupCustomer"} /\ q.spent -> 429
      [] q.route = "login" /\ ~ q.spent -> 200
      [] q.route = "lookupCustomer" /\ ~ q.spent -> IF q.secret = "right" THEN 200 ELSE 401
      [] q.route \notin {"login", "lookupCustomer"} ->
           CASE ~ IsStaff(t) /\ ~ IsCustomer(t) -> 401
             [] IsStaff(t) /\ q.route \notin MayUse(t.role) -> 403
             [] IsCustomer(t) /\ q.route \notin Matrix.customer -> 403
             [] OTHER -> IF reads /\ ~ found THEN 404
                         ELSE IF IsCustomer(t) /\ OwnerOf[q.order] # t.sub THEN 403
                         ELSE 200

\* Each route answers each caller as the table of the documentation says, be it
\* with a token of either kind, an old one or one of a role the shop has not: the
\* guards of six routers, the order in which they stand and the ownership check
\* of the use cases add up to that one table, with no route left out of it or
\* missing in it, and only the two routes it limits answer 429.
TheMatrixIsKept == \A q \in HttpRequest : Respond(q) = Promised(q)
=============================================================================
