SPECIFICATION Spec
\* the benchmark ends
CHECK_DEADLOCK FALSE
CONSTANTS
    Processes = 2
    FirstIndex = 1
    Seeded = 3
    Levels <- LevelUsers
    MaxRetried = 1
INVARIANT NothingLeaks
