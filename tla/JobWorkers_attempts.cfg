SPECIFICATION Spec
CONSTANTS
    j1 = j1
    j2 = j2
    j3 = j3
    w1 = w1
    w2 = w2
    c1 = c1
    c2 = c2
    None = None
    Job = {j1, j2, j3}
    Worker = {w1, w2}
    Conversation = {c1, c2}
    ConvOf <- J3Apart
    Kind <- StartDeclineInvalid
    MaxAttempts = 2
    SlowRuns = TRUE
    MaxStoreFaults = 2
    MaxFaults = 0
SYMMETRY WorkerSymmetry
INVARIANTS
    FinalStatusIsBacked
    AttemptsBounded
    DeadOnlyWhenExhausted
CHECK_DEADLOCK FALSE
