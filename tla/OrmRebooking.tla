---------------------------- MODULE OrmRebooking ----------------------------
(***************************************************************************)
(* The SQLAlchemy data access: get_snapshot, execute and verify of          *)
(* app/airline/repository/rebooking.py, for several confirmed selections at *)
(* once.  It locks less than the asyncpg one of module Rebooking and in     *)
(* another order: the segment, the credit, then the two fares by their      *)
(* keys; the reservation row only when the session flushes.  What a         *)
(* rebooking does to the tables is compared with RebookingLedger.           *)
(*                                                                          *)
(* Every statement that locks or reads is one step.  Writes become visible  *)
(* with the commit.                                                         *)
(***************************************************************************)
EXTENDS RebookingRules

CONSTANTS
    KeyOf,      \* Fare -> its place in the order of (flight_id, fare_class_id)
    MaxFaults   \* bound on failed statements and lost connections

ASSUME OrmRebookingAssumption ==
    /\ KeyOf \in [Fare -> Nat]
    /\ \A f, g \in Fare : KeyOf[f] = KeyOf[g] => f = g
    /\ MaxFaults \in Nat

VARIABLES
    seats, seat, total, purse, history,  \* the tables, as in RebookingLedger
    pc,       \* the next statement of each selection
    inTx,     \* selections inside execute's session.begin()
    seen,     \* the segment row as the locking statement first saw it
    snap,     \* segment row, seats left, credit row and total_amount read
    holds,    \* rows locked
    expired,  \* credits past expires_at
    faults

tables == <<seats, seat, total, purse, history>>
vars == <<tables, pc, inTx, seen, snap, holds, expired, faults>>

Lockable == ({"segment"} \X Segment) \union ({"reservation"} \X Reservation)
                \union ({"fare"} \X Fare) \union ({"credit"} \X Credit)

ASSUME NoneIsNoRow == None \notin Lockable

NoPurse == [left |-> 0, status |-> "USED"]
NoSnap == [seat |-> None, seats |-> 0, purse |-> NoPurse, total |-> 0]

Init ==
    /\ seats = Seats0
    /\ seat = [s \in Segment |-> [fare |-> Fare0[s], status |-> "CONFIRMED",
                                  paid |-> FareRow[Fare0[s]].price]]
    /\ total = [r \in Reservation |-> 0]
    /\ purse = [k \in Credit |-> [left |-> CreditRow[k].amount,
                                  status |-> "AVAILABLE"]]
    /\ history = <<>>
    /\ pc = [c \in Change |-> "check"]
    /\ inTx = [c \in Change |-> FALSE]
    /\ seen = [c \in Change |-> None]
    /\ snap = [c \in Change |-> NoSnap]
    /\ holds = [c \in Change |-> {}]
    /\ expired = {}
    /\ faults = 0

Goto(c, label) == pc' = [pc EXCEPT ![c] = label]

-----------------------------------------------------------------------------
(* Row locks.                                                              *)

\* _lock_fares: the fares still to lock, and the first of them by key.
\* Mutant: the new fare first, whatever its key.
FaresLeft(c) ==
    {f \in {snap[c].seat.fare, Want[c].fare} : <<"fare", f>> \notin holds[c]}

NextFareAsGiven(c) ==
    IF Want[c].fare \in FaresLeft(c) THEN Want[c].fare
    ELSE CHOOSE f \in FaresLeft(c) : TRUE

NextFare(c) ==
    CHOOSE f \in FaresLeft(c) : \A g \in FaresLeft(c) : KeyOf[f] <= KeyOf[g]

\* The row a selection needs next, if its next statement locks one.
Wanted(c) ==
    LET want == Want[c]
    IN CASE pc[c] = "segment" /\ inTx[c] -> <<"segment", want.segment>>
         [] pc[c] = "credit" /\ inTx[c]  -> <<"credit", want.credit>>
         [] pc[c] = "fares" /\ FaresLeft(c) # {} -> <<"fare", NextFare(c)>>
         [] pc[c] = "flush"              ->
                <<"reservation", BookingOf(want.segment)>>
         [] OTHER                        -> None

Blockers(c) == {d \in Change \ {c} : Wanted(c) \in holds[d]}

\* with_for_update, or an UPDATE; a plain read wants nothing.
Lock(c) ==
    /\ Blockers(c) = {}
    /\ holds' = [holds EXCEPT ![c] = IF Wanted(c) = None THEN @
                                     ELSE @ \union {Wanted(c)}]

Fail(c) == /\ Goto(c, "failed")
           /\ inTx' = [inTx EXCEPT ![c] = FALSE]
           /\ holds' = [holds EXCEPT ![c] = {}]

-----------------------------------------------------------------------------
(* _snapshot, without locks in get_snapshot and with them in execute.      *)

\* The statement on the segment starts; in execute, after session.begin().
Query(c) ==
    /\ pc[c] \in {"check", "begin"}
    /\ inTx' = [inTx EXCEPT ![c] = pc[c] = "begin"]
    /\ seen' = [seen EXCEPT ![c] = seat[Want[c].segment]]
    /\ Goto(c, "segment")
    /\ UNCHANGED <<tables, snap, holds, expired, faults>>

\* FOR UPDATE OF the segment.  When the segment has moved to another fare
\* since the statement began, PostgreSQL joins the new row with the flight
\* and the fare class found before; the outer joins of joinedload leave None
\* there, and reading segment.flight.status raises.
SelectSegment(c) ==
    LET now == IF inTx[c] THEN seat[Want[c].segment] ELSE seen[c]
    IN
    /\ pc[c] = "segment"
    /\ \/ /\ now.fare = seen[c].fare
          /\ Lock(c)
          /\ snap' = [snap EXCEPT ![c] = [NoSnap EXCEPT !.seat = now]]
          /\ Goto(c, "target")
          /\ UNCHANGED inTx
       \/ /\ now.fare # seen[c].fare
          /\ Blockers(c) = {}
          /\ Fail(c)
          /\ UNCHANGED snap
    /\ UNCHANGED <<tables, seen, expired, faults>>

\* Where a snapshot continues once it is complete.
Complete(c) == IF inTx[c] THEN "fares" ELSE "validate"

\* _target(lock=False): the seats left, unlocked.
SelectTarget(c) ==
    /\ pc[c] = "target"
    /\ snap' = [snap EXCEPT ![c].seats = seats[Want[c].fare]]
    /\ Goto(c, IF Want[c].credit = None THEN Complete(c) ELSE "credit")
    /\ UNCHANGED <<tables, inTx, seen, holds, expired, faults>>

\* session.get of the credit by its id alone.
GetCredit(c) ==
    /\ pc[c] = "credit"
    /\ Lock(c)
    /\ snap' = [snap EXCEPT ![c].purse = purse[Want[c].credit]]
    /\ Goto(c, Complete(c))
    /\ UNCHANGED <<tables, inTx, seen, expired, faults>>

-----------------------------------------------------------------------------
(* The rest of execute, and verify.                                        *)

\* _lock_fares, one row.
LockFare(c) ==
    /\ pc[c] = "fares"
    /\ FaresLeft(c) # {}
    /\ Lock(c)
    /\ UNCHANGED <<tables, pc, inTx, seen, snap, expired, faults>>

\* The second _snapshot, all of whose rows are locked by now.
\* Mutant: the first one is validated.
RefreshedNot(c) == snap[c]

Refreshed(c) ==
    [snap[c] EXCEPT
        !.seat = seat[Want[c].segment],
        !.seats = seats[Want[c].fare],
        !.purse = IF Want[c].credit = None THEN NoPurse
                  ELSE purse[Want[c].credit]]

SnapshotAgain(c) ==
    /\ pc[c] = "fares"
    /\ FaresLeft(c) = {}
    /\ snap' = [snap EXCEPT ![c] = Refreshed(c)]
    /\ Goto(c, "validate")
    /\ UNCHANGED <<tables, inTx, seen, holds, expired, faults>>

\* Mutant: execute trusts the check before it.
SnapValidOnce(c) ==
    \/ inTx[c]
    \/ Valid(Want[c], snap[c].seat, snap[c].seats, snap[c].purse)

SnapValid(c) ==
    /\ Valid(Want[c], snap[c].seat, snap[c].seats, snap[c].purse)
    /\ Want[c].credit \notin expired

\* validate_rebooking_selection: validate_change explains what is wrong and
\* asks again, execute rolls back.
Validate(c) ==
    /\ pc[c] = "validate"
    /\ \/ /\ SnapValid(c)
          /\ Goto(c, IF inTx[c] THEN "get" ELSE "begin")
          /\ UNCHANGED <<inTx, holds>>
       \/ /\ ~SnapValid(c) /\ ~inTx[c]
          /\ Goto(c, "invalid")
          /\ UNCHANGED <<inTx, holds>>
       \/ ~SnapValid(c) /\ inTx[c] /\ Fail(c)
    /\ UNCHANGED <<tables, seen, snap, expired, faults>>

\* The target and the old fare, locked before, are read once more and agree
\* with the validation; then the reservation is read, without a lock.
GetReservation(c) ==
    /\ pc[c] = "get"
    /\ snap' = [snap EXCEPT ![c].total = total[BookingOf(Want[c].segment)]]
    /\ Goto(c, "flush")
    /\ UNCHANGED <<tables, inTx, seen, holds, expired, faults>>

\* The unit of work updates the reservation row, which it has to lock.
Flush(c) ==
    /\ pc[c] = "flush"
    /\ Lock(c)
    /\ Goto(c, "commit")
    /\ UNCHANGED <<tables, inTx, seen, snap, expired, faults>>

\* What the session has written, each column as an absolute value.
WrittenSeats(c) ==
    LET n == Passengers(Want[c].segment)
        less == [seats EXCEPT ![Want[c].fare] = snap[c].seats - n]
    IN [less EXCEPT ![snap[c].seat.fare] = @ + n]

WrittenPurse(c) ==
    LET left == snap[c].purse.left - Want[c].amount
    IN [left |-> left,
        status |-> IF left = 0 THEN "USED" ELSE "PARTIALLY_USED"]

Written(c) ==
    LET want == Want[c]
        old == snap[c].seat
    IN
    /\ seats' = WrittenSeats(c)
    /\ seat' = [seat EXCEPT ![want.segment] = Changed(want.fare)]
    /\ total' = [total EXCEPT ![BookingOf(want.segment)] =
                    snap[c].total + Added(want, old.paid)]
    /\ purse' = IF want.credit = None THEN purse
                ELSE [purse EXCEPT ![want.credit] = WrittenPurse(c)]
    /\ history' = Append(history, FlightChange(c, old.fare, old.paid))

\* The end of session.begin().  A commit that reports an error may have
\* happened.
Commit(c) ==
    /\ pc[c] = "commit"
    /\ Written(c)
    /\ \/ Goto(c, "verify") /\ UNCHANGED faults
       \/ /\ faults < MaxFaults
          /\ faults' = faults + 1
          /\ Goto(c, "failed")
    /\ holds' = [holds EXCEPT ![c] = {}]
    /\ inTx' = [inTx EXCEPT ![c] = FALSE]
    /\ UNCHANGED <<seen, snap, expired>>

\* verify, in a session of its own.
Verify(c) ==
    LET row == seat[Want[c].segment]
        found == row.fare = Want[c].fare /\ row.status = "CHANGED"
    IN
    /\ pc[c] = "verify"
    /\ \/ found /\ Goto(c, "done")
       \/ ~found /\ Goto(c, "failed")
    /\ UNCHANGED <<tables, inTx, seen, snap, holds, expired, faults>>

\* A statement fails or the connection is lost: session.begin() rolls back.
Fault(c) ==
    /\ pc[c] \notin {"failed", "invalid", "done"}
    /\ faults < MaxFaults
    /\ faults' = faults + 1
    /\ Fail(c)
    /\ UNCHANGED <<tables, seen, snap, expired>>

CreditExpires(k) ==
    /\ k \notin expired
    /\ expired' = expired \union {k}
    /\ UNCHANGED <<tables, pc, inTx, seen, snap, holds, faults>>

Step(c) ==
    \/ Query(c) \/ SelectSegment(c) \/ SelectTarget(c) \/ GetCredit(c)
    \/ LockFare(c) \/ SnapshotAgain(c) \/ Validate(c) \/ GetReservation(c)
    \/ Flush(c) \/ Commit(c) \/ Verify(c)

Next == \/ \E c \in Change : Step(c) \/ Fault(c)
        \/ \E k \in Credit : CreditExpires(k)

\* Statements return.  No deadlock detector is needed, see NoLockRing.
Spec == Init /\ [][Next]_vars /\ \A c \in Change : WF_vars(Step(c))
-----------------------------------------------------------------------------
(* Properties.                                                             *)

Label == {"check", "begin", "segment", "target", "credit", "fares",
          "validate", "get", "flush", "commit", "verify", "failed",
          "invalid", "done"}

\* Every variable keeps its type: no fare is oversold and no credit
\* overdrawn, although execute writes both as absolute values.
TypeOK ==
    /\ seats \in [Fare -> Nat]
    /\ seat \in [Segment -> Seat]
    /\ total \in [Reservation -> Int]
    /\ purse \in [Credit -> Purse]
    /\ history \in Seq(Row)
    /\ pc \in [Change -> Label]
    /\ inTx \in [Change -> BOOLEAN]
    /\ seen \in [Change -> Seat \union {None}]
    /\ snap \in [Change -> [seat : Seat \union {None}, seats : Nat,
                            purse : Purse, total : Int]]
    /\ holds \in [Change -> SUBSET Lockable]
    /\ expired \in SUBSET Credit
    /\ faults \in 0..MaxFaults

\* _lock_fares sorts the keys so that two sessions never wait for each other
\* in a ring: segment, credit, fares, reservation is an order all keep.
NoLockRing ==
    ~ \E ring \in (SUBSET Change) \ {{}} :
          \A d \in ring : Blockers(d) \intersect ring # {}

\* What the rows of flight_changes say each total should be.
TotalByHistory == [r \in Reservation |-> Charged(history, r)]

Ledger == INSTANCE RebookingLedger WITH total <- TotalByHistory

\* execute, seen at its commits, is the ledger of whole and valid rebookings
\* one at a time, for the seats, the segments, the credits and the history:
\* the validation of the second snapshot still holds when execute commits.
RebooksLikeLedger == Ledger!LedgerSpec

\* Every selection comes to an end, without a deadlock detector.
EveryChangeEnds ==
    \A c \in Change : <>(pc[c] \in {"failed", "invalid", "done"})

-----------------------------------------------------------------------------
\* The plan of the rebooking has execute read "el segmento/reserva con FOR
\* UPDATE" and adjust the total in the same transaction: every change of a
\* reservation is in its total_amount.
TotalsBalance == total = TotalByHistory
=============================================================================
