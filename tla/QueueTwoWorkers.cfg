CONSTANTS
    j1 = j1
    j2 = j2
    w1 = w1
    w2 = w2
    Jobs <- MCJobs
    UnknownJobs <- MCUnknownJobs
    Workers <- MCWorkers
    MaxAttempts = 3
    MaxFaults = 3
    NoJob = NoJob
SPECIFICATION FairSpec
INVARIANTS
    OneWorkerPerJob
    ExhaustedIsDead
PROPERTIES
    JobsConclude
CHECK_DEADLOCK FALSE
