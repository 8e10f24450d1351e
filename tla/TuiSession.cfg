SPECIFICATION Spec
CONSTANTS
    u = u
    UI = u
    Runs = {1, 2}
    Writers <- MCWriters
    p1 = p1
    p2 = p2
    Paths = {p1, p2}
    Values = {"text", "older"}
    Workspaces <- MCWorkspaces
    SnapDir <- MCSnapDir
    TicksPerSecond = 2
    MaxClock = 4
    Draft = "text"
    MaxLines = 2
    MaxWrites = 1
    Absent = Absent
    Empty = Empty
INVARIANTS
    OverwrittenIsRecoverable
    UndoGoesBack
    TranscriptIsFaithful
    LiveRunsAreCurrentOrCancelled
PROPERTIES
    BusyEnds
CHECK_DEADLOCK FALSE
