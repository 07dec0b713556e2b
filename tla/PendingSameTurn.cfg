CONSTANTS
    MaxActions = 2
    MaxTurns = 2
    MaxSends = 2
    MaxFaults = 0
    sendEmail = sendEmail
    createEvent = createEvent
    e1 = e1
    e2 = e2
    c1 = c1
    c2 = c2
    Kinds <- MCOneKind
    Runs <- MCRuns
    Confirms <- MCOneConfirm
    NoKind = NoKind
    NoRun = NoRun
SPECIFICATION Spec
PROPERTIES
    WaitsForALaterTurn
CHECK_DEADLOCK FALSE
