CONSTANTS
    j1 = j1
    j2 = j2
    j3 = j3
    w1 = w1
    w2 = w2
    Jobs <- MCJobs
    Workers <- MCWorkers
    MaxAttempts = 2
    MaxFaults = 2
    NoJob = NoJob
    OffsetBefore = 0
    OffsetAfter = 0
    Transition = 0
    Period = 1
    Phase = 0
    LastWall = 5
    NoInstant = NoInstant
    Horizon = 1
    Resumer = Resumer
    Nobody = Nobody
SPECIFICATION FairSpec
INVARIANTS
    AlwaysWakesUp
PROPERTIES
    NextRunsPass
CHECK_DEADLOCK FALSE
