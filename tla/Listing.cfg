SPECIFICATION ListingSpec
CONSTANTS
    o1 = o1
    o2 = o2
    o3 = o3
    ana = ana
    bia = bia
    OrderId = {o1, o2, o3}
    CustomerId = {ana, bia}
    Time <- Times
    Reached <- Statuses
    Filters <- Queries
SYMMETRY Orders
INVARIANTS MostUrgentFirst WorkIsListedOnce
CHECK_DEADLOCK FALSE
