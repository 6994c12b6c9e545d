SPECIFICATION FairSpec
CONSTANTS
    j1 = j1
    j2 = j2
    j3 = j3
    w1 = w1
    w2 = w2
    c1 = c1
    c2 = c2
    None = None
    Job = {j1}
    Worker = {w1, w2}
    Conversation = {c1}
    ConvOf <- OneConversation
    Kind <- StartOnly
    MaxAttempts = 2
    SlowRuns = FALSE
    MaxStoreFaults = 0
    MaxFaults = 1
PROPERTIES
    JobSettles
    LockIsFreed
CHECK_DEADLOCK FALSE
