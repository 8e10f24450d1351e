SPECIFICATION Spec
CONSTANTS
    c1 = c1
    c2 = c2
    Clients = {c1, c2}
    Callers = {c1, c2}
    Instances <- MCInstances
    Menu <- MCMenu
    Dirs <- MCDirs
    Outside = {"../up"}
    Edits <- MCEdits
    Global <- MCGlobal
    Bodies <- MCBodies
    EnvKeys = {"api_key"}
    Costs = {1}
    MaxRetries = 1
    MaxSteps = 2
    MaxDelegationDepth = 1
INVARIANTS
    EffectsAreDeclared
    StreamTellsTheReport
    PromptIsTheConversation
    BudgetOverrunIsBounded
PROPERTIES
    EveryRequestEnds
CHECK_DEADLOCK FALSE
