CONSTANTS
  Souls = {"pilot"}
  GoalIds = {"talk"}
  Caps = {"move"}
  MaxRev = 1
  MaxIn = 4
SPECIFICATION FairSpec
CHECK_DEADLOCK FALSE
INVARIANTS
  AnsweredOnce
  SeqsAccounted
  DecisionsNeverRegress
  DecisionsFitSnapshot
PROPERTY EveryLineAnswered
