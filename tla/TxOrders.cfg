\* Orders whose messages meet in two sessions: one on every path, and two with one part.
SPECIFICATION Spec
CONSTANTS
    o1 = o1
    o2 = o2
    part1 = part1
    s1 = s1
    s2 = s2
    Session = {s1, s2}
    OrderId = {o1, o2}
    ItemId = {part1}
    Quantity <- UpToTwo
    StockLevel <- TwoOrThree
    Message <- Messages
    StaffRequest <- Requests
SYMMETRY Sessions
CONSTRAINT OneOrTwo
PROPERTY ImplementsSaga
