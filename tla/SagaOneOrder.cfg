\* One order through every path of the saga, with two parts and a service.
SPECIFICATION Spec
CONSTANTS
    o1 = o1
    o2 = o2
    part1 = part1
    part2 = part2
    wash = wash
    ana = ana
    OrderId = {o1}
    ItemId = {part1, part2}
    ServiceId = {wash}
    CustomerId = {ana}
    CustomerOf <- AnasOrders
    MessageId <- SomeMessages
    Quantity <- Quantities
    StockLevel <- SomeStock
CONSTRAINT IdsInOrder
INVARIANTS
    CompensationIsComplete
    EachCommandAtMostOnce
    BudgetIsTheOrder
    HistoryIsALegalPath
PROPERTIES
    OneMessagePerDestination
    ClosedOrdersAreFinal
