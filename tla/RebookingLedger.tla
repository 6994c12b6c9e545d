-------------------------- MODULE RebookingLedger ---------------------------
(***************************************************************************)
(* What rebooking promises: one selection at a time, each valid in the very *)
(* state it changes, and applied whole or not at all.  What follows for the *)
(* tables is stated here for every data access.                             *)
(***************************************************************************)
EXTENDS RebookingRules

VARIABLES
    seats,    \* flight_fares.available_seats
    seat,     \* reservation_segments
    total,    \* reservations.total_amount, less what it was at the start
    purse,    \* travel_credits
    history   \* flight_changes, in the order of the commits

ledger == <<seats, seat, total, purse, history>>

LedgerInit ==
    /\ seats = Seats0
    /\ seat = [s \in Segment |-> [fare |-> Fare0[s], status |-> "CONFIRMED",
                                  paid |-> FareRow[Fare0[s]].price]]
    /\ total = [r \in Reservation |-> 0]
    /\ purse = [k \in Credit |-> [left |-> CreditRow[k].amount,
                                  status |-> "AVAILABLE"]]
    /\ history = <<>>

\* The credit row of a selection; the selection without one never looks.
NoPurse == [left |-> 0, status |-> "USED"]

PurseOf(want) ==
    IF want.credit = None THEN NoPurse
    ELSE purse[want.credit]

\* The six writes of execute, on the committed rows, for the old fare and
\* the price the transaction has read.
Written(c, old, paid) ==
    LET want == Want[c]
        s == want.segment
    IN
    /\ seats' = Moved(seats, Passengers(s), old, want.fare)
    /\ seat' = [seat EXCEPT ![s] = Changed(want.fare)]
    /\ total' = [total EXCEPT ![BookingOf(s)] = @ + Added(want, paid)]
    /\ purse' = IF want.credit = None THEN purse
                ELSE [purse EXCEPT ![want.credit] = Consumed(@, want.amount)]
    /\ history' = Append(history, FlightChange(c, old, paid))

Rebook(c) ==
    LET want == Want[c]
        mine == seat[want.segment]
    IN
    /\ \A i \in DOMAIN history : history[i].change # c
    /\ Valid(want, mine, seats[want.fare], PurseOf(want))
    /\ Written(c, mine.fare, mine.paid)

LedgerNext == \E c \in Change : Rebook(c)

\* The rebookings of service.py and its repositories seen as single steps:
\* only whole, valid ones, each selection at most once.
LedgerSpec == LedgerInit /\ [][LedgerNext]_ledger
-----------------------------------------------------------------------------
(* Properties of the tables, whoever writes them.                          *)

\* execute's seat moves cancel out: a fare's free seats and the passengers
\* seated at it always add up to what it started with.
SeatsConserved ==
    LET seated(f, at) ==
            SumFunctionOnSet([s \in Segment |-> Passengers(s)],
                             {s \in Segment : at[s] = f})
        now == [s \in Segment |-> seat[s].fare]
    IN \A f \in Fare :
           seats[f] + seated(f, now) = Seats0[f] + seated(f, Fare0)

\* The price paid, the reservation's total and the credits can be derived
\* from flight_changes, and the status of a credit from what is left of it.
BooksBalance ==
    /\ \A s \in Segment :
           seat[s].paid = FareRow[Fare0[s]].price + Differences(history, s)
    /\ \A r \in Reservation : total[r] = Charged(history, r)
    /\ \A k \in Credit :
           LET amount == CreditRow[k].amount
               left == purse[k].left
           IN /\ left = amount - Spent(history, k)
              /\ purse[k].status = IF left = amount THEN "AVAILABLE"
                                   ELSE IF left = 0 THEN "USED"
                                   ELSE "PARTIALLY_USED"

\* Each row of a segment's history starts at the fare where the row before
\* it ended, the first one at the fare first sold, and the segment is seated
\* where the last one ended: no rebooking overwrote another unseen.
HistoryIsAChain ==
    \A s \in Segment :
        LET rows == {i \in DOMAIN history : history[i].segment = s}
            before(i) == {j \in rows : j < i}
            at(i) == IF before(i) = {} THEN Fare0[s]
                     ELSE history[Max(before(i))].new
        IN /\ \A i \in rows : history[i].old = at(i)
           /\ seat[s].fare = at(Len(history) + 1)
=============================================================================
