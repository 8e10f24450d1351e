CONSTANTS
  Calls = {c1, c2}
  None = None
  Requests <- MCRequests
  CapOf <- MCCapOf
  OriginOf <- MCOriginOf
  Registered <- MCRegistered
  Valid <- MCValid
  Policy <- MCPolicy
  Composite <- MCComposite
  NHooks = 2
SPECIFICATION Spec
CHECK_DEADLOCK FALSE
INVARIANTS
  EffectsAreGoverned
  TrailTellsOutcome
PROPERTIES
  KeepsPromise
