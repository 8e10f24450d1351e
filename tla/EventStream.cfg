CONSTANTS
  e1 = e1
  e2 = e2
  e3 = e3
  Nothing = Nothing
  Emitters <- ThreeEmitters
  MaxEvents = 4
SPECIFICATION FairSpec
CHECK_DEADLOCK FALSE
INVARIANTS
  GapsAreInFlight
  PerEmitterOrder
PROPERTIES
  ShutdownReturns
