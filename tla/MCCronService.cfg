SPECIFICATION Spec
CHECK_DEADLOCK FALSE
CONSTANTS
    Jobs = {"daily", "once"}
    OneShots = {"once"}
    AtStart = {"once"}
    Slot <- MCSlot
    Endings <- MCEndings
    Runs = {"r1"}
    Concurrency = 1
    MaxMissed = 1
    Backoff = 2
    StuckAfter = 1
    MaxTime = 2
    MaxTrouble = 2
INVARIANTS OneExecution MarkersAreBacked TimerIsKept
PROPERTIES SlotsAreKept EditsStick
