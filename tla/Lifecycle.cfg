\* Two replicas that start and end; 25 s and 30 s are to scale only in their sum.
SPECIFICATION FairSpec
CONSTANTS
    Pod = {p1, p2}
    MaxRequests = 1
    PreStop = 1
    ForceAfter = 2
    Grace = 3
INVARIANT CleanExitsCutNothing
PROPERTY EveryReplicaStarts
