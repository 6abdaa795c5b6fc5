SPECIFICATION Spec
CONSTANTS
    NULL = NULL
    Catalog <- MCCatalog
    Customers = {"c1", "c2"}
    Users <- MCUsers
    UserOf <- MCUserOf
    Profiles <- MCProfiles
    InitialData <- MCInitialData
    Assignments <- MCAssignments
    KpiInputs <- MCKpiInputs
    FeedbackInputs <- MCFeedbackInputs
    Mode = "llm"
    Replies <- MCReplies
    DayJumps = {90, 91}
    MaxVersions = 1
    Limits <- MCLimits
INVARIANT
    DriftIsAChange
CHECK_DEADLOCK FALSE
