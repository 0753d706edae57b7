CONSTANTS
    MaxSignals = 3
    Rivals = TRUE
    CloseErrors = TRUE
    Polls = {p1, p2}
SPECIFICATION SchedulerFair
INVARIANT HandleIsOurs
PROPERTIES StopEnds RestartEnds RequestIsEmitted
CHECK_DEADLOCK FALSE
