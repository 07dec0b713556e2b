SPECIFICATION MigrationSpec
CONSTANTS
    j1 = j1
    JobIds <- MCJobIds
    Stops <- MCStops
    MaxMoves = 2
    MaxWrites = 3
INVARIANTS
    HeadIsDeclared
    MigrationsGoThrough
    WakeUpsHaveTheirAutomation
PROPERTIES
    ConcludedStaysClosed
CHECK_DEADLOCK FALSE
