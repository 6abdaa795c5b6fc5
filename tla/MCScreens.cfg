SPECIFICATION Spec
CONSTANTS
    NULL = NULL
    MaxInFlight = 2
    Visited = {"c1", "c2"}
    Recommended = {"c1"}
    MaxFeedback = 2
    MaxNotes = 1
    MaxMoves = 2
    Names = {"n1", "n2"}
    Existing = {"n1"}
    RowsOf <- MCRowsOf
    MaxAdminSteps = 2
    Cases = {"k1", "k2", "k3"}
    Known = {"k1", "k2"}
    MaxRuns = 4
    MaxTurns = 4
    Inputs = {"i1", "i2", ""}
    Today = "i1"
    MaxAsks = 4
INVARIANTS
    ScreensTypeOK
    SpinnerMeansWork
    AcknowledgedRunIsDispatched
    ComparisonIsOfSelection
    CallListMatchesDate
PROPERTIES
    TurnsAsAWhole
    UntouchedFieldsSurvive
CHECK_DEADLOCK FALSE
