\* One order between the saga and its participants, with and without faults.
SPECIFICATION FairSpec
CONSTANTS
    o1 = o1
    OrderId = {o1}
    MaxDead = 2
    Faults <- NoneOneOrBoth
INVARIANTS
    TypeOK
    OnlyRepeatsAreDropped
    StatusAgreesWithParticipants
PROPERTIES
    PaidOrdersAreRepaired
    ClosedOrdersAreReleased
    OrdersMoveOn
CHECK_DEADLOCK FALSE
