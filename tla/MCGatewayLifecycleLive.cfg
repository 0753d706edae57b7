CONSTANTS
    s1 = s1
    s2 = s2
    r1 = r1
    r2 = r2
    r3 = r3
    Main = Main
    NoRun = NoRun
    Sessions <- MCSessionsOne
    Runs <- MCRunsOne
    SessionOf <- MCSessionOfOne
    MainLimit = 1
    MaxSignals = 1
    Rivals = FALSE
    CloseErrors = FALSE
SPECIFICATION FairSpec
PROPERTY AcceptedTurnEnds
CHECK_DEADLOCK FALSE
