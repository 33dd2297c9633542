---------------------------- MODULE MCCatalogue ----------------------------
(* A small instance of the registrations for TLC, and of the rules that     *)
(* every request of the API passes on its way.                              *)
EXTENDS HttpApi, TLC

CONSTANTS ana, bia, car1, car2, wash, part, ann, k1, k2, c1, c2, o1, o2

Everything == {ana, bia, car1, car2, wash, part, ann}

TableOfEach == (ana :> "customers") @@ (bia :> "customers") @@ (car1 :> "vehicles") @@ (car2 :> "vehicles")
                   @@ (wash :> "services") @@ (part :> "items") @@ (ann :> "users")

Clients == Permutations(Client)

\* Customers and users; customers and vehicles; services, parts and orders.
People ==
    [ids   |-> {ana, bia, ann},
     keys  |-> {k1},
     calls |-> {"createCustomer", "updateCustomer", "deleteCustomer", "getCustomer", "getByTaxId",
                "lookupCustomer", "register", "login"},
     bodies |-> {"good", "refused", "malformed", "unfit"}]

Garage ==
    [ids   |-> {ana, bia, car1, car2},
     keys  |-> {k1},
     calls |-> {"createCustomer", "updateCustomer", "createVehicle", "updateVehicle", "deleteVehicle",
                "getVehicle"},
     bodies |-> {"good", "retired", "revived"}]

Shelf ==
    [ids   |-> {wash, part},
     keys  |-> {},
     calls |-> {"createService", "updateService", "deleteService", "getService",
                "createItem", "updateItem", "deleteItem", "getItem", "createOrder"},
     bodies |-> {"good", "refused", "low", "malformed", "unfit"}]

ThreeScopes == {People, Garage, Shelf}

\* The order in the path is Ana's, or was never opened.
AnasOrder == o1 :> ana
=============================================================================
