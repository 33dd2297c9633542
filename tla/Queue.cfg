\* A queue of replies, with a limit of receives, and one of dead commands, without.
SPECIFICATION FairSpec
CONSTANTS
    Order = {o1, o2}
    Replica = {r1, r2}
    MaxMessages = 2
    MaxReceives = {0, 2}
    MaxSent = 2
INVARIANTS TypeOK NothingIsLost
PROPERTIES ImplementsInbox EveryMessageIsSettled
