\* An order edited while its messages are handled, and an opening that is refused.
SPECIFICATION Spec
CONSTANTS
    o1 = o1
    o2 = o2
    part1 = part1
    s1 = s1
    s2 = s2
    Session = {s1, s2}
    OrderId = {o1, o2}
    ItemId = {part1}
    Quantity <- AnyQuantity
    StockLevel <- UpToTwo
    Message <- PaidOrNot
    StaffRequest <- Edits
SYMMETRY Sessions
CONSTRAINT FewParts
INVARIANTS
    TypeOK
    HistoryIsALegalPath
    CompensationIsComplete
