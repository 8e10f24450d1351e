SPECIFICATION CliSpec
CONSTANTS
    a = a
    b = b
    Terminals = {a, b}
    Replies <- MCReplies
    Window = 1
    MaxTurns = 4
    MaxFaults = 2
SYMMETRY MCSymmetry
INVARIANTS
    HistoryIsRecentSuffix
    OwnTurnsRemembered
    ShownTurnsSurvive
CHECK_DEADLOCK FALSE
