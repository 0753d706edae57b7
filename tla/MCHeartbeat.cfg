SPECIFICATION FairSpec
CONSTANTS
    Targets = {all, session}
    All = all
    Slots = {s1, s2}
    None = None
    MaxLives = 2
    MaxThrows = 1
INVARIANTS OneHeartbeat UrgentIsKept ChainHolds
PROPERTY UrgentIsHeard
