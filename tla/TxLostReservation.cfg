\* A part removed from one order while another order reserves it.
SPECIFICATION Spec
CONSTANTS
    o1 = o1
    o2 = o2
    part1 = part1
    s1 = s1
    s2 = s2
    Session = {s1, s2}
    OrderId = {o1, o2}
    ItemId = {part1}
    Quantity <- UpToTwo
    StockLevel <- TwoInStock
    Message <- ToTheDiagnosis
    StaffRequest <- OpenTwiceAndRemove
SYMMETRY Sessions
INVARIANTS
    ReservationsBackOpenOrders
