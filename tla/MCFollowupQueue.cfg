SPECIFICATION Spec
CONSTANTS
  m1 = m1
  m2 = m2
  m3 = m3
  Messages = {m1, m2, m3}
  RouteOf <- TwoRoutes
  Unroutable = 0
  Settings <- MixedSettings
  QueueIds = {1, 2}
  MaxTurns = 1
  CanClear = TRUE
CHECK_DEADLOCK FALSE
SYMMETRY Symmetry
INVARIANTS KnownCallbackDrains InFlightIsPrefix
PROPERTIES AnsweredOnce AcceptedWithinCap
