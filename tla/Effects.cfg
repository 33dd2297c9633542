SPECIFICATION Spec
CONSTANTS
    o1 = o1
    w1 = w1
    w2 = w2
    OrderId = {o1}
    Reached = {"DIAGNOSIS", "WAITING_APPROVAL", "REJECTED", "CANCELLED", "FINISHED", "DELIVERED"}
    Worker = {w1, w2}
INVARIANT EffectsFollowCommits
PROPERTY
    EndIsAnnounced
