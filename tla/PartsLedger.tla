---------------------------- MODULE PartsLedger ----------------------------
(***************************************************************************)
(* What the service promises about parts, without saying how: a part is    *)
(* free, or held for one order, or gone with one order.  An order's parts  *)
(* may change while it is open; once it is priced they are fixed; then     *)
(* they are taken, all of them, or returned, all of them, and only once.   *)
(*                                                                         *)
(* This is an abstract specification: ServiceOrderSaga implements it with  *)
(* the statuses of the orders, their lines and the two counters of items.  *)
(***************************************************************************)
EXTENDS Naturals

CONSTANTS OrderId, ItemId

VARIABLES
    free,    \* parts anyone may still reserve
    phase,   \* "none", "open", "priced", "taken" or "returned"
    held,    \* parts set aside for an order
    taken    \* parts that left the shop with an order

ledger == <<free, phase, held, taken>>

Lines   == [ItemId -> Nat]
NoLines == [i \in ItemId |-> 0]

LedgerInit ==
    /\ free \in Lines
    /\ phase = [o \in OrderId |-> "none"]
    /\ held = [o \in OrderId |-> NoLines]
    /\ taken = [o \in OrderId |-> NoLines]

\* Parts move between the free ones and those held for o, none lost or made.
Exchange(o) ==
    /\ free' \in Lines
    /\ \E lines \in {held'[o]} :
          /\ lines \in Lines
          /\ held' = [held EXCEPT ![o] = lines]
          /\ \A i \in ItemId : free'[i] + lines[i] = free[i] + held[o][i]

Open(o) ==
    /\ phase[o] = "none"
    /\ phase' = [phase EXCEPT ![o] = "open"]
    /\ Exchange(o)
    /\ UNCHANGED taken

Adjust(o) ==
    /\ phase[o] = "open"
    /\ Exchange(o)
    /\ UNCHANGED <<phase, taken>>

Price(o) ==
    /\ phase[o] = "open"
    /\ phase' = [phase EXCEPT ![o] = "priced"]
    /\ UNCHANGED <<free, held, taken>>

Take(o) ==
    /\ phase[o] = "priced"
    /\ phase' = [phase EXCEPT ![o] = "taken"]
    /\ taken' = [taken EXCEPT ![o] = held[o]]
    /\ held' = [held EXCEPT ![o] = NoLines]
    /\ UNCHANGED free

Return(o) ==
    /\ phase[o] \in {"open", "priced"}
    /\ phase' = [phase EXCEPT ![o] = "returned"]
    /\ free' = [i \in ItemId |-> free[i] + held[o][i]]
    /\ held' = [held EXCEPT ![o] = NoLines]
    /\ UNCHANGED taken

\* The stock of one part is counted again; what is held stays held.
Restock(i) ==
    /\ free' \in Lines
    /\ \A j \in ItemId \ {i} : free'[j] = free[j]
    /\ UNCHANGED <<phase, held, taken>>

LedgerNext ==
    \/ \E o \in OrderId : Open(o) \/ Adjust(o) \/ Price(o) \/ Take(o) \/ Return(o)
    \/ \E i \in ItemId : Restock(i)

LedgerSpec == LedgerInit /\ [][LedgerNext]_ledger
=============================================================================
