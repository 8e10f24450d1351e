CONSTANTS
  g1 = g1
  g2 = g2
  NoGoal = NoGoal
  GoalIds <- TwoGoals
  MaxRev = 1
  MaxToolSteps = 2
  MaxIntents = 2
  MaxSent = 3
  HasEvaluator = TRUE
SPECIFICATION FairSpec
CHECK_DEADLOCK FALSE
INVARIANTS
  AtMostOneStaleDecision
  AtMostOneDecisionAfterVeto
  RunsAccounted
PROPERTIES
  Terminates
  VetoEndsDeliberation
  ImplementsContract
