CONSTANTS
    j1 = j1
    j2 = j2
    w1 = w1
    w2 = w2
    Jobs <- MCJobs
    ReminderJobs <- MCReminderJobs
    UnknownJobs <- MCNone
    Workers <- MCWorkers
    MaxAttempts = 3
    MaxFaults = 2
    NoJob = NoJob
SPECIFICATION FairSpec
CONSTRAINT
    OneKind
INVARIANTS
    RemindedOnce
    DoneWasReminded
    NotifiedOnce
PROPERTIES
    CancelledIsSilent
    RemindersArrive
CHECK_DEADLOCK FALSE
