SPECIFICATION Spec
CONSTANTS
    NULL = NULL
    Catalog <- MCCatalog
    Customers = {"c1", "c2"}
    Users <- MCUsers
    UserOf <- MCUserOf
    Profiles <- MCProfiles
    InitialData <- MCInitialData
    Assignments <- MCAssignments
    KpiInputs <- MCKpiInputs
    FeedbackInputs <- MCFeedbackInputs
    Mode = "llm"
    Replies <- MCReplies
    DayJumps = {90, 91}
    MaxVersions = 1
    Limits <- MCLimits
INVARIANTS
    NbaTypeOK
    RejectedIsNotOffered
    QuartersAddUp
    NewGateIsFlagged
    FeedbackWithinScope
    AcknowledgedListIsWhole
CHECK_DEADLOCK FALSE
