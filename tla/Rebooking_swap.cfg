SPECIFICATION FairSpec
CONSTANTS
    c1 = c1
    c2 = c2
    c3 = c3
    s1 = s1
    s2 = s2
    s3 = s3
    r1 = r1
    r2 = r2
    fa = fa
    fb = fb
    a = a
    b = b
    x = x
    k1 = k1
    None = None
    Change = {c1, c2, c3}
    Segment = {s1, s2, s3}
    Reservation = {r1, r2}
    Flight = {fa, fb}
    Fare = {a, b, x}
    Credit = {k1}
    Want <- SwapWants
    FareRow <- Fares
    FlightRow <- Flights
    SegmentRow <- Segments
    BookingRow <- Bookings
    CreditRow <- Credits
    Seats0 <- SwapSeats
    Fare0 <- SoldAt
    MaxFaults = 1
INVARIANTS
    TypeOK
    SeatsConserved
    HistoryIsAChain
    BooksBalance
PROPERTIES
    LedgerSpec
    EveryChangeEnds
\* every selection ends
CHECK_DEADLOCK FALSE
