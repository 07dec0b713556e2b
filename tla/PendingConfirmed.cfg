CONSTANTS
    MaxActions = 2
    MaxTurns = 2
    MaxSends = 3
    MaxFaults = 1
    sendEmail = sendEmail
    createEvent = createEvent
    e1 = e1
    e2 = e2
    c1 = c1
    c2 = c2
    Kinds <- MCKinds
    Runs <- MCOneRun
    Confirms <- MCConfirms
    NoKind = NoKind
    NoRun = NoRun
SPECIFICATION FairSpec
INVARIANTS
    SentOncePerConfirmation
    AuditTellsTheSend
PROPERTIES
    ClaimsConclude
CHECK_DEADLOCK FALSE
