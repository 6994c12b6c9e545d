----------------------------- MODULE Rebooking ------------------------------
(***************************************************************************)
(* The asyncpg data access: get_snapshot, execute and verify of             *)
(* app/airline/repository/sql/rebooking.py with the statements of           *)
(* sql/queries.py, for several confirmed selections at once.                *)
(*                                                                          *)
(* Every row lock is one step, taken in the order of the FOR UPDATE clauses *)
(* and statements, and kept to the end of the statement or, in execute, of  *)
(* the transaction.  Nobody reads a row that another transaction has        *)
(* written and not committed, so the writes appear with the commit.         *)
(***************************************************************************)
EXTENDS RebookingLedger

CONSTANT MaxFaults  \* bound on failed statements and lost connections

ASSUME RebookingAssumption == MaxFaults \in Nat

VARIABLES
    pc,       \* the next statement or lock of each selection
    inTx,     \* selections inside execute's transaction
    seen,     \* the segment row as the current statement first saw it
    snap,     \* the RebookingSnapshot: segment row, seats left, credit row
    holds,    \* rows locked FOR UPDATE, or by an UPDATE
    shares,   \* rows locked FOR KEY SHARE, by a foreign key check
    expired,  \* credits past expires_at
    faults

work == <<pc, inTx, seen, snap>>
locks == <<holds, shares>>
vars == <<ledger, work, locks, expired, faults>>

\* Lockable rows.
Lockable ==
    ({"segment"} \X Segment) \union ({"reservation"} \X Reservation)
        \union ({"flight"} \X Flight) \union ({"fare"} \X Fare)
        \union ({"credit"} \X Credit)

NoSnap == [seat |-> None, seats |-> 0, purse |-> None]

Init ==
    /\ LedgerInit
    /\ pc = [c \in Change |-> "check"]
    /\ inTx = [c \in Change |-> FALSE]
    /\ seen = [c \in Change |-> None]
    /\ snap = [c \in Change |-> NoSnap]
    /\ holds = [c \in Change |-> {}]
    /\ shares = [c \in Change |-> {}]
    /\ expired = {}
    /\ faults = 0

Goto(c, label) == pc' = [pc EXCEPT ![c] = label]

-----------------------------------------------------------------------------
(* Row locks.                                                              *)

\* The row a selection needs next, if its next step locks one.
Wanted(c) ==
    LET want == Want[c]
    IN CASE pc[c] = "segment"     -> <<"segment", want.segment>>
         [] pc[c] = "reservation" -> <<"reservation", BookingOf(want.segment)>>
         [] pc[c] = "flight"      -> <<"flight", FareRow[want.fare].flight>>
         [] pc[c] = "fare"        -> <<"fare", want.fare>>
         [] pc[c] = "credit"      -> <<"credit", want.credit>>
         [] pc[c] = "restore"     -> <<"fare", snap[c].seat.fare>>
         [] pc[c] = "record"      ->
                <<"flight", FareRow[snap[c].seat.fare].flight>>
         [] OTHER                 -> None

\* Who keeps it from the row.  A foreign key check only waits for FOR UPDATE.
Blockers(c) ==
    {d \in Change \ {c} :
        \/ Wanted(c) \in holds[d]
        \/ pc[c] # "record" /\ Wanted(c) \in shares[d]}

\* The lock is free.  It is kept in a transaction; outside one it lives to
\* the end of the statement.
\* Mutant: the row is read without FOR UPDATE.
LockUnheld(c, last) == UNCHANGED locks

Lock(c, last) ==
    /\ Blockers(c) = {}
    /\ holds' = [holds EXCEPT ![c] = IF last /\ ~inTx[c] THEN {}
                                     ELSE @ \union {Wanted(c)}]
    /\ UNCHANGED shares

\* Commit, rollback, or the end of a failed statement.
\* Mutant: no rollback.
UnlockNot(c) == UNCHANGED locks

Unlock(c) == /\ holds' = [holds EXCEPT ![c] = {}]
             /\ shares' = [shares EXCEPT ![c] = {}]

Fail(c) == /\ Goto(c, "failed")
           /\ inTx' = [inTx EXCEPT ![c] = FALSE]
           /\ Unlock(c)

-----------------------------------------------------------------------------
(* _snapshot, in get_snapshot and in execute.                              *)

\* GET_REBOOKING_SEGMENT_FOR_UPDATE starts; in execute, after BEGIN.
Query(c) ==
    /\ pc[c] \in {"check", "begin"}
    /\ inTx' = [inTx EXCEPT ![c] = pc[c] = "begin"]
    /\ seen' = [seen EXCEPT ![c] = seat[Want[c].segment]]
    /\ Goto(c, "segment")
    /\ UNCHANGED <<ledger, snap, locks, expired, faults>>

\* FOR UPDATE OF rs.
LockSegment(c) ==
    /\ pc[c] = "segment"
    /\ Lock(c, FALSE)
    /\ Goto(c, "reservation")
    /\ UNCHANGED <<ledger, inTx, seen, snap, expired, faults>>

\* FOR UPDATE OF r ends the statement.  When the segment has moved to another
\* fare since the statement began, PostgreSQL joins the new row with the
\* flight and the fare class found before, and has no row:
\* SegmentNotFoundError.
LockReservation(c) ==
    LET now == seat[Want[c].segment]
    IN
    /\ pc[c] = "reservation"
    /\ \/ /\ now.fare = seen[c].fare
          /\ Lock(c, TRUE)
          /\ snap' = [snap EXCEPT ![c].seat = now]
          /\ Goto(c, "flight")
          /\ UNCHANGED inTx
       \/ /\ now.fare # seen[c].fare
          /\ Blockers(c) = {}
          /\ Fail(c)
          /\ UNCHANGED snap
    /\ UNCHANGED <<ledger, seen, expired, faults>>

\* GET_REBOOKING_TARGET_FOR_UPDATE: FOR UPDATE OF f, ff.
LockFlight(c) ==
    /\ pc[c] = "flight"
    /\ Lock(c, FALSE)
    /\ Goto(c, "fare")
    /\ UNCHANGED <<ledger, inTx, seen, snap, expired, faults>>

LockFare(c) ==
    /\ pc[c] = "fare"
    /\ Lock(c, TRUE)
    /\ snap' = [snap EXCEPT ![c].seats = seats[Want[c].fare],
                            ![c].purse = NoPurse]
    /\ Goto(c, IF Want[c].credit = None THEN "validate" ELSE "credit")
    /\ UNCHANGED <<ledger, inTx, seen, expired, faults>>

\* GET_TRAVEL_CREDIT_FOR_UPDATE, of the reservation's customer.
LockCredit(c) ==
    LET k == Want[c].credit
    IN
    /\ pc[c] = "credit"
    /\ \/ /\ CreditRow[k].customer = Owner(Want[c].segment)
          /\ Lock(c, TRUE)
          /\ snap' = [snap EXCEPT ![c].purse = purse[k]]
          /\ Goto(c, "validate") /\ UNCHANGED inTx
       \/ /\ CreditRow[k].customer # Owner(Want[c].segment)
          /\ Fail(c)
          /\ UNCHANGED snap
    /\ UNCHANGED <<ledger, seen, expired, faults>>

\* validate_rebooking_selection on the snapshot.
\* Mutant: execute trusts the check before it.
SnapValidOnce(c) ==
    \/ inTx[c]
    \/ /\ Valid(Want[c], snap[c].seat, snap[c].seats, snap[c].purse)
       /\ Want[c].credit \notin expired

SnapValid(c) ==
    /\ Valid(Want[c], snap[c].seat, snap[c].seats, snap[c].purse)
    /\ Want[c].credit \notin expired

\* validate_change explains what is wrong and asks again; execute gives up.
Validate(c) ==
    /\ pc[c] = "validate"
    /\ \/ /\ SnapValid(c)
          /\ Goto(c, IF inTx[c] THEN "restore" ELSE "begin")
          /\ UNCHANGED <<inTx, locks>>
       \/ /\ ~SnapValid(c) /\ ~inTx[c]
          /\ Goto(c, "invalid")
          /\ UNCHANGED <<inTx, locks>>
       \/ ~SnapValid(c) /\ inTx[c] /\ Fail(c)
    /\ UNCHANGED <<ledger, seen, snap, expired, faults>>

-----------------------------------------------------------------------------
(* The rest of execute, and verify.                                        *)

\* The decrement needs no new lock; the increment locks the old fare.
IncrementFlightFareSeats(c) ==
    /\ pc[c] = "restore"
    /\ Lock(c, TRUE)
    /\ Goto(c, "record")
    /\ UNCHANGED <<ledger, inTx, seen, snap, expired, faults>>

\* The updates of the segment, the total and the credit need no new lock;
\* the insert checks that the old flight is still there.
CreateFlightChange(c) ==
    /\ pc[c] = "record"
    /\ Blockers(c) = {}
    /\ shares' = [shares EXCEPT ![c] = @ \union {Wanted(c)}]
    /\ Goto(c, "commit")
    /\ UNCHANGED <<ledger, inTx, seen, snap, holds, expired, faults>>

\* A commit that reports an error may have happened.
Commit(c) ==
    LET old == snap[c].seat
    IN
    /\ pc[c] = "commit"
    /\ \/ /\ Written(c, old.fare, old.paid)
          /\ Goto(c, "verify")
          /\ UNCHANGED faults
       \/ /\ faults < MaxFaults
          /\ faults' = faults + 1
          /\ Written(c, old.fare, old.paid)
          /\ Goto(c, "failed")
    /\ Unlock(c)
    /\ inTx' = [inTx EXCEPT ![c] = FALSE]
    /\ UNCHANGED <<seen, snap, expired>>

\* GET_REBOOKING_RESULT reads without a lock.
Verify(c) ==
    LET row == seat[Want[c].segment]
        found == row.fare = Want[c].fare /\ row.status = "CHANGED"
    IN
    /\ pc[c] = "verify"
    /\ \/ found /\ Goto(c, "done")
       \/ ~found /\ Goto(c, "failed")
    /\ UNCHANGED <<ledger, inTx, seen, snap, locks, expired, faults>>

\* A statement fails, the task is cancelled or the connection is lost:
\* connection.transaction(), or the server, undoes the transaction.
Fault(c) ==
    /\ pc[c] \notin {"failed", "invalid", "done"}
    /\ faults < MaxFaults
    /\ faults' = faults + 1
    /\ Fail(c)
    /\ UNCHANGED <<ledger, seen, snap, expired>>

\* Selections that wait for each other in a ring; PostgreSQL picks one and
\* fails its statement.
InRing(c) ==
    \E ring \in SUBSET Change :
        /\ c \in ring
        /\ \A d \in ring : /\ Blockers(d) \intersect ring # {}
                           /\ \E e \in ring : d \in Blockers(e)

DeadlockDetected(c) ==
    /\ InRing(c)
    /\ Fail(c)
    /\ UNCHANGED <<ledger, seen, snap, expired, faults>>

CreditExpires(k) ==
    /\ k \notin expired
    /\ expired' = expired \union {k}
    /\ UNCHANGED <<ledger, work, locks, faults>>

Step(c) ==
    \/ Query(c) \/ LockSegment(c) \/ LockReservation(c) \/ LockFlight(c)
    \/ LockFare(c) \/ LockCredit(c) \/ Validate(c)
    \/ IncrementFlightFareSeats(c) \/ CreateFlightChange(c) \/ Commit(c)
    \/ Verify(c)

Next ==
    \/ \E c \in Change : Step(c) \/ Fault(c) \/ DeadlockDetected(c)
    \/ \E k \in Credit : CreditExpires(k)

Spec == Init /\ [][Next]_vars

\* Statements return, and the deadlock detector runs.
Fairness == \A c \in Change : /\ WF_vars(Step(c))
                              /\ WF_vars(DeadlockDetected(c))

FairSpec == Spec /\ Fairness
-----------------------------------------------------------------------------
(* Properties.                                                             *)

Label == {"check", "begin", "segment", "reservation", "flight", "fare",
          "credit", "validate", "restore", "record", "commit", "verify",
          "failed", "invalid", "done"}

\* Every variable keeps its type: no fare is oversold and no credit
\* overdrawn, although the schema has no CHECK on either column.
TypeOK ==
    /\ seats \in [Fare -> Nat]
    /\ seat \in [Segment -> Seat]
    /\ total \in [Reservation -> Int]
    /\ purse \in [Credit -> Purse]
    /\ history \in Seq(Row)
    /\ pc \in [Change -> Label]
    /\ inTx \in [Change -> BOOLEAN]
    /\ seen \in [Change -> Seat \union {None}]
    /\ snap \in [Change -> [seat : Seat \union {None}, seats : Nat,
                            purse : Purse \union {NoPurse, None}]]
    /\ holds \in [Change -> SUBSET Lockable]
    /\ shares \in [Change -> SUBSET Lockable]
    /\ expired \in SUBSET Credit
    /\ faults \in 0..MaxFaults

\* Every selection comes to an end: locks are given back and rings broken.
EveryChangeEnds ==
    \A c \in Change : <>(pc[c] \in {"failed", "invalid", "done"})

=============================================================================
