CONSTANTS
    s1 = s1
    s2 = s2
    r1 = r1
    r2 = r2
    r3 = r3
    Main = Main
    NoRun = NoRun
    Sessions <- MCSessions
    Runs <- MCRuns
    SessionOf <- MCSessionOf
    MainLimit = 1
    MaxSignals = 2
    Rivals = FALSE
    CloseErrors = FALSE
SPECIFICATION Spec
INVARIANTS RunsAgree DrainedMeansQuiet
PROPERTY OwnHandleOnly
SYMMETRY MCSymmetry
CHECK_DEADLOCK FALSE
