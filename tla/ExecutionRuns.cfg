CONSTANTS
    MaxRuns = 2
    MaxDetached = 1
    MaxActive = 1
    goalA = goalA
    dueX = dueX
    DetachedKeys <- MCDetachedKeys
    ScheduledKeys <- MCScheduledKeys
    Workers = {w1}
    MaxAttempts = 2
    MaxFaults = 1
    NoKey = NoKey
    NoRun = NoRun
SPECIFICATION FairSpec
INVARIANTS
    ActiveWithinLimit
    DetachedWorkIsLive
    ClosedHasEnded
    EventTellsTheEnd
    OneRowPerOccurrence
PROPERTIES
    KeepsTheLedger
    DetachedRunsEnd
    
CHECK_DEADLOCK FALSE
