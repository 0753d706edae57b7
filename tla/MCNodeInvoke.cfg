SPECIFICATION Spec
CHECK_DEADLOCK FALSE
CONSTANTS
    Nodes = {"n"}
    Conns = {c1, c2}
    NodeOf <- MCNodeOf
    Invokes = {i1, i2}
    None = None
    Requests = {r1, r2}
    Ids = {"id"}
    IdOf <- MCIdOf
    TargetOf <- MCTargetOf
    NoEntry = NoEntry
SYMMETRY MCSymmetry
INVARIANTS WaitingHasSession OpenIsPending NoEarlyExpiry DecisionIsObeyed
