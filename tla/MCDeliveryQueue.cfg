SPECIFICATION FairSpec
CONSTANTS
  r1 = r1
  N = 2
  MaxRetries = 2
  Recoveries = {r1}
  BestEffort = {2}
  Reporting = {2}
  OwnAborts = {2}
  MaxCrashes = 1
  CanRestart = TRUE
  OverlapScan = TRUE
CHECK_DEADLOCK FALSE
INVARIANT RetriesBounded
PROPERTIES AckedStaysGone KeepsContract OwedIsSettled
