CONSTANTS
    l1 = l1
    e1 = e1
    e2 = e2
    e3 = e3
    Lanes <- MCLanes
    Entries <- MCEntries
    LaneOf <- MCLaneOf
    Requests <- MCRequests
    MaxGeneration = 1
SPECIFICATION FairSpec
INVARIANTS NoIdleBacklog DrainedMeansEnded
PROPERTIES StartsWithinLimit StartsInOrder AcceptedStarts
