SPECIFICATION FairSpec
CONSTANTS
  m1 = m1
  m2 = m2
  m3 = m3
  Messages = {m1, m2, m3}
  RouteOf <- TwoRoutes
  Unroutable = 0
  Settings <- NewSettings
  QueueIds = {1, 2}
  MaxTurns = 1
  CanClear = FALSE
CHECK_DEADLOCK FALSE
INVARIANT NothingLost
PROPERTY WaitingIsAnswered
