SPECIFICATION Spec
CHECK_DEADLOCK FALSE
CONSTANTS
    Jobs = {"daily", "once"}
    OneShots = {"once"}
    AtStart = {"once"}
    Slot <- MCSlot
    Endings <- MCEndings
    Runs = {}
    Concurrency = 1
    MaxMissed = 1
    Backoff = 2
    StuckAfter = 1
    MaxTime = 2
    MaxTrouble = 1
PROPERTY NoReplayAfterCrash
