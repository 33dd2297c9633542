\* Two orders that compete for the same part.
SPECIFICATION Spec
CONSTANTS
    o1 = o1
    o2 = o2
    part1 = part1
    part2 = part2
    wash = wash
    ana = ana
    OrderId = {o1, o2}
    ItemId = {part1}
    ServiceId = {}
    CustomerId = {ana}
    CustomerOf <- AnasOrders
    MessageId <- FewerMessages
    Quantity <- Quantities
    StockLevel <- MoreStock
CONSTRAINT IdsInOrder
INVARIANTS
    TypeOK
    ReservationsBackOpenOrders
    NoMessageIsPoison
PROPERTIES
    ImplementsLedger
