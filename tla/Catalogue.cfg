\* Three scopes of requests, and the rules all requests pass.
SPECIFICATION Spec
CONSTANTS
    ana = ana
    bia = bia
    car1 = car1
    car2 = car2
    wash = wash
    part = part
    ann = ann
    k1 = k1
    k2 = k2
    c1 = c1
    c2 = c2
    o1 = o1
    o2 = o2
    Client = {c1, c2}
    Id <- Everything
    TableOf <- TableOfEach
    Key = {k1, k2}
    Order = {o1, o2}
    Scopes <- ThreeScopes
    Requester = {ana, bia}
    OrderPath = {o1, o2}
    OwnerOf <- AnasOrder
    Digits = {0, 7}
SYMMETRY Clients
INVARIANTS TypeOK KeysAreHeldOnce CallersMeetTheMatrix CheckDigitsAreUnique
PROPERTIES AnswersTellTheTruth AnswersAreDocumented
