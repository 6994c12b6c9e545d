--------------------------- MODULE RebookingRules ---------------------------
(***************************************************************************)
(* What a rebooking needs and what it does to the airline tables:           *)
(* validate_rebooking_selection of app/airline/service.py and the UPDATE    *)
(* and INSERT statements of app/airline/repository/sql/queries.py.          *)
(*                                                                          *)
(* Rows the code never writes are constants; a fare is a flight_fares row,  *)
(* that is a flight and a fare class.  Amounts are whole units of money.    *)
(***************************************************************************)
EXTENDS Integers, Sequences, FiniteSetsExt

CONSTANTS
    Change,      \* confirmed selections, each carried out once
    Segment, Reservation, Flight, Fare, Credit,
    None,        \* no credit
    Want,        \* Change -> the RebookingSelection
    FareRow,     \* Fare -> flight, price, currency, fee, changeable
    FlightRow,   \* Flight -> route, scheduled
    SegmentRow,  \* Segment -> reservation, currency
    BookingRow,  \* Reservation -> customer, confirmed, passengers
    CreditRow,   \* Credit -> customer, currency, amount
    Seats0,      \* Fare -> seats for sale at the start
    Fare0        \* Segment -> the fare it was sold at, for that fare's price

ASSUME RebookingRulesAssumption ==
    /\ Want \in [Change -> [segment : Segment, fare : Fare,
                            credit : Credit \union {None}, amount : Int]]
    /\ FareRow \in [Fare -> [flight : Flight, price : Nat, currency : STRING,
                             fee : Nat, changeable : BOOLEAN]]
    /\ FlightRow \in [Flight -> [route : STRING, scheduled : BOOLEAN]]
    /\ SegmentRow \in [Segment -> [reservation : Reservation,
                                   currency : STRING]]
    /\ BookingRow \in [Reservation -> [customer : STRING,
                                       confirmed : BOOLEAN, passengers : Nat]]
    /\ CreditRow \in [Credit -> [customer : STRING, currency : STRING,
                                 amount : Nat]]
    /\ Seats0 \in [Fare -> Nat]
    /\ Fare0 \in [Segment -> Fare]
    /\ None \notin Credit
    /\ IsFiniteSet(Change) /\ IsFiniteSet(Segment)

\* reservation_segments, of which a rebooking rewrites three columns.
Seat == [fare : Fare, status : {"CONFIRMED", "CHANGED"}, paid : Nat]

\* travel_credits, likewise.
Purse == [left : Nat, status : {"AVAILABLE", "PARTIALLY_USED", "USED"}]

\* flight_changes, with the selection that made the row.
Row == [change : Change, segment : Segment, old : Fare, new : Fare,
        difference : Int, fee : Nat, used : Int]

BookingOf(s) == SegmentRow[s].reservation
Passengers(s) == BookingRow[BookingOf(s)].passengers
Owner(s) == BookingRow[BookingOf(s)].customer
RouteOf(f) == FlightRow[FareRow[f].flight].route

-----------------------------------------------------------------------------
\* The difference to the fare the segment was paid at, and what is due.
Difference(f, paid) == FareRow[f].price - paid

AmountDue(f, paid) ==
    LET due == Difference(f, paid) + FareRow[f].fee
    IN IF due < 0 THEN 0 ELSE due

\* A chosen credit covers a positive amount and belongs to the customer.
CreditFits(want, purse) ==
    IF want.credit = None THEN want.amount = 0
    ELSE LET row == CreditRow[want.credit]
         IN /\ row.customer = Owner(want.segment)
            /\ row.currency = SegmentRow[want.segment].currency
            /\ want.amount > 0
            /\ purse.left >= want.amount
            /\ purse.status # "USED"

\* Enough seats for every passenger of the reservation.
EnoughSeats(want, seats) ==
    /\ Passengers(want.segment) > 0
    /\ seats >= Passengers(want.segment)

\* The credit pays exactly what is due.
PaysExactly(want, paid) == AmountDue(want.fare, paid) = want.amount

\* validate_rebooking_selection, for a segment row, the seats left at the
\* target fare and the credit row.
Valid(want, seat, seats, purse) ==
    LET target == FareRow[want.fare]
    IN
    /\ BookingRow[BookingOf(want.segment)].confirmed
    /\ ~(seat.status = "CHANGED" /\ seat.fare = want.fare)
    /\ FareRow[seat.fare].changeable
    /\ FlightRow[target.flight].scheduled
    /\ RouteOf(seat.fare) = RouteOf(want.fare)
    /\ target.changeable
    /\ target.currency = SegmentRow[want.segment].currency
    /\ EnoughSeats(want, seats)
    /\ CreditFits(want, purse)
    /\ PaysExactly(want, seat.paid)

-----------------------------------------------------------------------------
\* DECREMENT_FLIGHT_FARE_SEATS, then INCREMENT_FLIGHT_FARE_SEATS.  The
\* decrement of a fare without enough seats updates no row and is not noticed.
\* Mutants: the old fare gets one seat back; one seat too many is taken.
MovedOne(seats, n, old, new) ==
    LET less == [seats EXCEPT ![new] = IF @ >= n THEN @ - n ELSE @]
    IN [less EXCEPT ![old] = @ + 1]

MovedMore(seats, n, old, new) ==
    LET less == [seats EXCEPT ![new] = IF @ >= n THEN @ - (n + 1) ELSE @]
    IN [less EXCEPT ![old] = @ + n]

Moved(seats, n, old, new) ==
    LET less == [seats EXCEPT ![new] = IF @ >= n THEN @ - n ELSE @]
    IN [less EXCEPT ![old] = @ + n]

\* UPDATE_RESERVATION_SEGMENT.
Changed(f) == [fare |-> f, status |-> "CHANGED", paid |-> FareRow[f].price]

\* What UPDATE_RESERVATION_TOTAL adds.
\* Mutant: the credit is not subtracted.
AddedFull(want, paid) == Difference(want.fare, paid) + FareRow[want.fare].fee

Added(want, paid) ==
    Difference(want.fare, paid) + FareRow[want.fare].fee - want.amount

\* CONSUME_TRAVEL_CREDIT, guarded by what is left.
Consumed(purse, amount) ==
    IF purse.left < amount THEN purse
    ELSE [left |-> purse.left - amount,
          status |-> IF purse.left = amount THEN "USED" ELSE "PARTIALLY_USED"]

\* CREATE_FLIGHT_CHANGE.
FlightChange(c, old, paid) ==
    [change |-> c, segment |-> Want[c].segment, old |-> old,
     new |-> Want[c].fare, difference |-> Difference(Want[c].fare, paid),
     fee |-> FareRow[Want[c].fare].fee, used |-> Want[c].amount]

-----------------------------------------------------------------------------
(* What the rows of flight_changes add up to.                              *)

\* The fare differences of a segment.
Differences(rows, s) ==
    SumFunctionOnSet([i \in DOMAIN rows |-> rows[i].difference],
                     {i \in DOMAIN rows : rows[i].segment = s})

\* What a reservation was charged, net of credits.
Charged(rows, r) ==
    SumFunctionOnSet([i \in DOMAIN rows |-> rows[i].difference + rows[i].fee
                                                - rows[i].used],
                     {i \in DOMAIN rows : BookingOf(rows[i].segment) = r})

\* What was paid from a credit.
Spent(rows, k) ==
    SumFunctionOnSet([i \in DOMAIN rows |-> rows[i].used],
                     {i \in DOMAIN rows : Want[rows[i].change].credit = k})
=============================================================================
