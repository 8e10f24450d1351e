CONSTANTS
    SkillCallers = {c1, c2}
    Names = {s1}
    Scripts <- MCScripts
    Pipe = 1
    MaxCalls = 4
SPECIFICATION SkillSpec
INVARIANTS
    UndisturbedRunsStart
PROPERTY CallsEndUnlessTheSkillHolds
CHECK_DEADLOCK FALSE
