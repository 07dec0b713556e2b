CONSTANTS
    j1 = j1
    j2 = j2
    j3 = j3
    w1 = w1
    w2 = w2
    Jobs <- MCJobs
    Workers <- MCOneWorker
    MaxAttempts = 2
    MaxFaults = 0
    NoJob = NoJob
    OffsetBefore = 2
    OffsetAfter = 0
    Transition = 2
    Period = 2
    Phase = 1
    LastWall = 9
    NoInstant = NoInstant
    Horizon = 2
    Resumer = Resumer
    Nobody = Nobody
SPECIFICATION Spec
PROPERTIES
    Advances
CHECK_DEADLOCK FALSE
