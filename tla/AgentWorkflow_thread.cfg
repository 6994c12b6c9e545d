SPECIFICATION Spec
CHECK_DEADLOCK FALSE
CONSTANTS
    b1 = b1
    b2 = b2
    s1 = s1
    s2 = s2
    s3 = s3
    x = x
    y = y
    None = None
    Message = Message
    Booking = {b1, b2}
    Segment = {s1, s2, s3}
    Option = {x, y}
    SegmentsOf <- Segments
    RouteOf <- Routes
    MaxRetries = 1
    MaxJobs = 3
    MaxRuns = 2
    MaxFaults = 1
    MaxTrades = 1
SYMMETRY Symmetry
INVARIANTS TypeOK CompletedIsOwn BookedOncePerAnswer ReasksBounded
PROPERTY BookedAsOffered
