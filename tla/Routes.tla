------------------------------- MODULE Routes -------------------------------
(***************************************************************************)
(* The routes of the HTTP API: which middlewares stand in front of each    *)
(* one and which responses its documentation lists.                        *)
(*   frameworks/http/routes/*.ts (the calls of the router and the @openapi *)
(*   blocks, from which the published documentation is generated)          *)
(***************************************************************************)

\* UserRole
Staff == {"attendant", "mechanic", "admin"}

\* requireStaff looks at the type of a token only: any string is a role to it.
AnyRole == Staff \cup {"other"}

\* A route: whether authMiddleware reads a token, the callers that
\* requireRole, requireStaff or requireCustomer lets through, and the responses
\* in its @openapi block.
Route(auth, who, documented) == [auth |-> auth, who |-> who, documented |-> documented]

Desk == {"attendant", "admin"}
Workshop == {"mechanic", "admin"}

CustomerRoutes ==
    [listCustomers   |-> Route(TRUE, Desk, {200}),
     createCustomer  |-> Route(TRUE, Desk, {201, 400, 409}),
     getByTaxId      |-> Route(TRUE, Desk, {200, 404}),
     getCustomer     |-> Route(TRUE, Desk, {200, 404}),
     updateCustomer  |-> Route(TRUE, Desk, {200, 404}),
     deleteCustomer  |-> Route(TRUE, Desk, {204, 404})]

VehicleRoutes ==
    [listVehicles    |-> Route(TRUE, Desk, {200}),
     createVehicle   |-> Route(TRUE, Desk, {201, 400, 409}),
     getVehicle      |-> Route(TRUE, Desk, {200, 404}),
     updateVehicle   |-> Route(TRUE, Desk, {200, 400, 404, 409}),
     deleteVehicle   |-> Route(TRUE, Desk, {204, 404})]

ItemRoutes ==
    [listItems       |-> Route(TRUE, AnyRole, {200, 403}),
     getItem         |-> Route(TRUE, AnyRole, {200, 403, 404}),
     createItem      |-> Route(TRUE, {"admin"}, {201, 400}),
     updateItem      |-> Route(TRUE, {"admin"}, {200, 400, 404}),
     deleteItem      |-> Route(TRUE, {"admin"}, {204, 400, 404})]

ServiceRoutes ==
    [listServices    |-> Route(TRUE, AnyRole, {200, 401, 403}),
     listAvgTime     |-> Route(TRUE, Staff, {200, 401, 403}),
     getService      |-> Route(TRUE, AnyRole, {200, 403, 404}),
     createService   |-> Route(TRUE, {"admin"}, {201, 400}),
     updateService   |-> Route(TRUE, {"admin"}, {200, 400, 404}),
     deleteService   |-> Route(TRUE, {"admin"}, {204, 404})]

\* The lookup is left out of the documentation; its guard is a shared secret.
AuthRoutes ==
    [lookupCustomer  |-> Route(FALSE, {"function"}, {}),
     login           |-> Route(FALSE, AnyRole \cup {"customer", "function", "nobody"}, {200, 401}),
     register        |-> Route(TRUE, {"admin"}, {201, 409})]

\* Reading orders. The history has no role in front of it.
OrderReads ==
    [getStatus       |-> Route(TRUE, {"customer"}, {200, 404}),
     getHistory      |-> Route(TRUE, AnyRole \cup {"customer"}, {200, 401, 403, 404}),
     deliver         |-> Route(TRUE, Workshop, {200, 400, 401, 403}),
     listOrders      |-> Route(TRUE, AnyRole, {200, 403})]

OrderOpening ==
    [createOrder     |-> Route(TRUE, Desk, {201, 400, 403, 404}),
     getOrder        |-> Route(TRUE, AnyRole, {200, 403, 404})]

OrderEdits ==
    [addService      |-> Route(TRUE, Workshop, {200, 400}),
     removeService   |-> Route(TRUE, Workshop, {200, 400, 404}),
     addItem         |-> Route(TRUE, Workshop, {200, 400}),
     removeItem      |-> Route(TRUE, Workshop, {200, 400, 404})]

\* The routers createApp mounts.
API ==
    [route \in UNION {DOMAIN CustomerRoutes, DOMAIN VehicleRoutes, DOMAIN ItemRoutes, DOMAIN ServiceRoutes,
                      DOMAIN AuthRoutes, DOMAIN OrderReads, DOMAIN OrderOpening, DOMAIN OrderEdits} |->
        CASE route \in DOMAIN CustomerRoutes -> CustomerRoutes[route]
          [] route \in DOMAIN VehicleRoutes -> VehicleRoutes[route]
          [] route \in DOMAIN ItemRoutes -> ItemRoutes[route]
          [] route \in DOMAIN ServiceRoutes -> ServiceRoutes[route]
          [] route \in DOMAIN AuthRoutes -> AuthRoutes[route]
          [] route \in DOMAIN OrderReads -> OrderReads[route]
          [] route \in DOMAIN OrderOpening -> OrderOpening[route]
          [] route \in DOMAIN OrderEdits -> OrderEdits[route]]
=============================================================================
