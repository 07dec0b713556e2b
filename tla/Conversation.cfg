SPECIFICATION FairSpec
CONSTANTS
    m1 = m1
    r1 = r1
    c1 = c1
    c2 = c2
    Inbounds <- MCInbounds
    Results <- MCResults
    Calls <- MCCalls
    MaxVisible = 1
    HistoryLimit = 1
    PoolSizes = {2, 3}
    MaxRequests = 2
    MaxPosts = 2
    MaxFaults = 1
    NoCall = NoCall
    NoOne = NoOne
INVARIANTS
    OutboxTellsTheSend
    SpeaksToTheLatest
    EveryInboundAnswered
    AcknowledgedWasSent
PROPERTIES
    TurnsRunOnce
    EveryTurnEnds
CHECK_DEADLOCK FALSE
