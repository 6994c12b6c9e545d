--------------------------- MODULE RebookingProofs ---------------------------
(***************************************************************************)
(* Proofs about the asyncpg data access, for any set of selections, rows    *)
(* and faults: its transactions implement the ledger, and have what is      *)
(* proved of it in RebookingLedgerProofs.                                   *)
(***************************************************************************)
EXTENDS Rebooking, RebookingLedgerProofs

Snap == [seat : Seat \union {None}, seats : Nat,
         purse : Purse \union {NoPurse, None}]

-----------------------------------------------------------------------------
(* Types.                                                                  *)

TypeWork == /\ pc \in [Change -> Label]
            /\ inTx \in [Change -> BOOLEAN]
            /\ seen \in [Change -> Seat \union {None}]
            /\ snap \in [Change -> Snap]
TypeLocks == /\ holds \in [Change -> SUBSET Lockable]
             /\ shares \in [Change -> SUBSET Lockable]

\* A selection past the snapshot of its segment has one, and one without a
\* credit locks none.
Snapped(c) ==
    /\ pc[c] \in {"flight", "fare", "credit", "validate", "restore", "record",
                  "commit"} => snap[c].seat \in Seat
    /\ pc[c] = "credit" => Want[c].credit # None

TypeInv == /\ TypeLedger /\ TypeWork /\ TypeLocks
           /\ expired \in SUBSET Credit
           /\ faults \in 0..MaxFaults
           /\ \A c \in Change : Snapped(c)

\* A row to lock is a row there is.
LEMMA WantedType ==
    ASSUME TypeInv, NEW c \in Change,
           pc[c] \in {"segment", "reservation", "flight", "fare", "credit",
                      "restore", "record"}
    PROVE  Wanted(c) \in Lockable
<1>1. pc[c] = "segment" => Wanted(c) = <<"segment", Want[c].segment>>
  BY DEF Wanted
<1>2. pc[c] = "reservation" =>
          Wanted(c) = <<"reservation", BookingOf(Want[c].segment)>>
  BY DEF Wanted
<1>3. pc[c] = "flight" => Wanted(c) = <<"flight", FareRow[Want[c].fare].flight>>
  BY DEF Wanted
<1>4. pc[c] = "fare" => Wanted(c) = <<"fare", Want[c].fare>>
  BY DEF Wanted
<1>5. pc[c] = "credit" => Wanted(c) = <<"credit", Want[c].credit>>
  BY DEF Wanted
<1>6. pc[c] = "restore" => Wanted(c) = <<"fare", snap[c].seat.fare>>
  BY DEF Wanted
<1>7. pc[c] = "record" =>
          Wanted(c) = <<"flight", FareRow[snap[c].seat.fare].flight>>
  BY DEF Wanted
<1>8. pc[c] \in {"restore", "record"} => snap[c].seat.fare \in Fare
  BY DEF TypeInv, Snapped, Seat
<1>9. pc[c] = "record" => FareRow[snap[c].seat.fare].flight \in Flight
  BY <1>8, FareFacts
<1>10. FareRow[Want[c].fare].flight \in Flight
  BY WantFacts, FareFacts
<1> QED
  BY <1>1, <1>2, <1>3, <1>4, <1>5, <1>6, <1>7, <1>8, <1>9, <1>10, WantFacts
     DEF Lockable, TypeInv, Snapped

LEMMA LockType ==
    ASSUME TypeInv, NEW c \in Change, Wanted(c) \in Lockable,
           NEW last \in BOOLEAN, Lock(c, last)
    PROVE  TypeLocks'
<1>1. /\ UNCHANGED shares
      /\ holds' = [holds EXCEPT ![c] = IF last /\ ~inTx[c] THEN {}
                                       ELSE holds[c] \union {Wanted(c)}]
  BY DEF Lock
<1>2. holds[c] \union {Wanted(c)} \in SUBSET Lockable
  BY DEF TypeInv, TypeLocks
<1> QED
  BY <1>1, <1>2 DEF TypeInv, TypeLocks

LEMMA UnlockType ==
    ASSUME TypeInv, NEW c \in Change, Unlock(c)
    PROVE  TypeLocks'
BY DEF TypeInv, TypeLocks, Unlock

\* The labels of the others stay.
LEMMA GotoFacts ==
    ASSUME TypeInv, NEW c \in Change, NEW l \in Label, Goto(c, l)
    PROVE  /\ pc' \in [Change -> Label] /\ pc'[c] = l
           /\ \A d \in Change : d # c => pc'[d] = pc[d]
BY DEF TypeInv, TypeWork, Goto

LEMMA SnappedKept ==
    ASSUME TypeInv, NEW d \in Change, pc'[d] = pc[d], snap'[d] = snap[d]
    PROVE  Snapped(d)'
BY DEF TypeInv, Snapped

LEMMA FailType ==
    ASSUME TypeInv, NEW c \in Change, Fail(c),
           UNCHANGED <<seats, seat, total, purse, history, seen, snap, expired>>,
           faults' \in 0..MaxFaults
    PROVE  TypeInv'
<1>1. /\ pc' \in [Change -> Label] /\ pc'[c] = "failed"
      /\ \A d \in Change : d # c => pc'[d] = pc[d]
  <2>1. "failed" \in Label
    BY DEF Label
  <2> QED
    BY <2>1, GotoFacts DEF Fail
<1>2. TypeLocks'
  BY UnlockType DEF Fail
<1>3. \A d \in Change : d # c => Snapped(d)'
  BY <1>1, SnappedKept
<1>4. Snapped(c)'
  BY <1>1 DEF Snapped
<1>5. inTx' \in [Change -> BOOLEAN]
  BY DEF Fail, TypeInv, TypeWork
<1>6. TypeWork'
  BY <1>1, <1>5 DEF TypeInv, TypeWork
<1>7. TypeLedger'
  BY DEF TypeInv, TypeLedger
<1> QED
  BY <1>2, <1>3, <1>4, <1>6, <1>7 DEF TypeInv

\* A step of c that writes no table.
LEMMA StepType ==
    ASSUME TypeInv, NEW c \in Change, NEW l \in Label, Goto(c, l),
           UNCHANGED <<seats, seat, total, purse, history, inTx, seen, expired,
                       faults>>,
           TypeLocks', snap' \in [Change -> Snap],
           \A d \in Change : d # c => snap'[d] = snap[d],
           l \in {"flight", "fare", "credit", "validate", "restore", "record",
                  "commit"} => snap'[c].seat \in Seat,
           l = "credit" => Want[c].credit # None
    PROVE  TypeInv'
<1>1. /\ pc' \in [Change -> Label] /\ pc'[c] = l
      /\ \A d \in Change : d # c => pc'[d] = pc[d]
  BY GotoFacts
<1>2. \A d \in Change : d # c => Snapped(d)'
  BY <1>1, SnappedKept
<1>3. Snapped(c)'
  BY <1>1 DEF Snapped
<1>4. TypeWork' /\ TypeLedger'
  BY <1>1 DEF TypeInv, TypeWork, TypeLedger
<1> QED
  BY <1>2, <1>3, <1>4 DEF TypeInv

LEMMA NextTypeInv == ASSUME TypeInv, [Next]_vars PROVE TypeInv'
<1> USE DEF ledger
<1>Query. ASSUME NEW c \in Change, Query(c) PROVE TypeInv'
  <2>1. /\ pc' \in [Change -> Label] /\ pc'[c] = "segment"
        /\ \A d \in Change : d # c => pc'[d] = pc[d]
    <3>1. "segment" \in Label
      BY DEF Label
    <3> QED
      BY <1>Query, <3>1, GotoFacts DEF Query
  <2>2. seen' \in [Change -> Seat \union {None}]
    <3>1. seat[Want[c].segment] \in Seat
      BY WantFacts DEF TypeInv, TypeLedger
    <3> QED
      BY <1>Query, <3>1 DEF Query, TypeInv, TypeWork
  <2>3. inTx' \in [Change -> BOOLEAN]
    BY <1>Query DEF Query, TypeInv, TypeWork
  <2>4. UNCHANGED <<ledger, snap, holds, shares, expired, faults>>
    BY <1>Query DEF Query, locks
  <2>5. \A d \in Change : Snapped(d)'
    BY <2>1, <2>4, SnappedKept DEF Snapped
  <2>6. TypeWork' /\ TypeLedger' /\ TypeLocks'
    BY <2>1, <2>2, <2>3, <2>4 DEF TypeInv, TypeWork, TypeLedger, TypeLocks
  <2> QED
    BY <2>4, <2>5, <2>6 DEF TypeInv
<1>Plain. ASSUME NEW c \in Change, NEW l \in Label, Goto(c, l),
                 UNCHANGED <<ledger, inTx, seen, snap, expired, faults>>,
                 TypeLocks', l # "credit",
                 l \in {"flight", "fare", "validate", "restore", "record", "commit"} =>
                     pc[c] \in {"flight", "fare", "validate", "restore", "record"}
          PROVE  TypeInv'
  <2>1. snap' \in [Change -> Snap] /\ \A d \in Change : snap'[d] = snap[d]
    BY <1>Plain DEF TypeInv, TypeWork
  <2>2. pc[c] \in {"flight", "fare", "validate", "restore", "record"} =>
            snap[c].seat \in Seat
    BY DEF TypeInv, Snapped
  <2> QED
    BY <1>Plain, <2>1, <2>2, StepType
<1>LockSegment. ASSUME NEW c \in Change, LockSegment(c) PROVE TypeInv'
  <2>1. pc[c] = "segment" /\ Lock(c, FALSE) /\ Goto(c, "reservation")
    BY <1>LockSegment, Zenon DEF LockSegment
  <2>2. TypeLocks'
    BY <2>1, WantedType, LockType, Zenon
  <2>3. "reservation" \in Label
    BY DEF Label
  <2> QED
    BY <1>LockSegment, <1>Plain, <2>1, <2>2, <2>3 DEF LockSegment
<1>LockFlight. ASSUME NEW c \in Change, LockFlight(c) PROVE TypeInv'
  <2>1. pc[c] = "flight" /\ Lock(c, FALSE) /\ Goto(c, "fare")
    BY <1>LockFlight, Zenon DEF LockFlight
  <2>2. TypeLocks'
    BY <2>1, WantedType, LockType, Zenon
  <2>3. "fare" \in Label
    BY DEF Label
  <2> QED
    BY <1>LockFlight, <1>Plain, <2>1, <2>2, <2>3 DEF LockFlight
<1>Increment. ASSUME NEW c \in Change, IncrementFlightFareSeats(c) PROVE TypeInv'
  <2>1. pc[c] = "restore" /\ Lock(c, TRUE) /\ Goto(c, "record")
    BY <1>Increment, Zenon DEF IncrementFlightFareSeats
  <2>2. TypeLocks'
    BY <2>1, WantedType, LockType, Zenon
  <2>3. "record" \in Label
    BY DEF Label
  <2> QED
    BY <1>Increment, <1>Plain, <2>1, <2>2, <2>3 DEF IncrementFlightFareSeats
<1>Create. ASSUME NEW c \in Change, CreateFlightChange(c) PROVE TypeInv'
  <2>1. pc[c] = "record" /\ Goto(c, "commit") /\ UNCHANGED holds
    BY <1>Create DEF CreateFlightChange
  <2>2. shares' = [shares EXCEPT ![c] = shares[c] \union {Wanted(c)}]
    BY <1>Create DEF CreateFlightChange
  <2>3. Wanted(c) \in Lockable
    BY <2>1, WantedType
  <2>4. TypeLocks'
    BY <2>1, <2>2, <2>3 DEF TypeInv, TypeLocks
  <2>5. "commit" \in Label
    BY DEF Label
  <2> QED
    BY <1>Create, <1>Plain, <2>1, <2>4, <2>5 DEF CreateFlightChange
<1>LockReservation. ASSUME NEW c \in Change, LockReservation(c) PROVE TypeInv'
  <2> DEFINE now == seat[Want[c].segment]
  <2>1. pc[c] = "reservation" /\ UNCHANGED <<ledger, seen, expired, faults>>
    BY <1>LockReservation DEF LockReservation
  <2>2. now \in Seat
    BY WantFacts DEF TypeInv, TypeLedger
  <2>3. CASE Lock(c, TRUE) /\ snap' = [snap EXCEPT ![c].seat = now]
             /\ Goto(c, "flight") /\ UNCHANGED inTx
    <3>1. TypeLocks'
      BY <2>1, <2>3, WantedType, LockType, Zenon
    <3>2. snap' \in [Change -> Snap] /\ snap'[c].seat = now
          /\ \A d \in Change : d # c => snap'[d] = snap[d]
      BY <2>2, <2>3 DEF TypeInv, TypeWork, Snap
    <3>3. "flight" \in Label
      BY DEF Label
    <3> HIDE DEF now
    <3> QED
      BY <2>1, <2>2, <2>3, <3>1, <3>2, <3>3, StepType
  <2>4. CASE Fail(c) /\ UNCHANGED snap
    BY <2>1, <2>4, FailType DEF TypeInv
  <2> QED
    BY <1>LockReservation, <2>3, <2>4, Zenon DEF LockReservation
<1>LockFare. ASSUME NEW c \in Change, LockFare(c) PROVE TypeInv'
  <2> DEFINE l == IF Want[c].credit = None THEN "validate" ELSE "credit"
  <2>1. /\ pc[c] = "fare" /\ Lock(c, TRUE) /\ Goto(c, l)
        /\ snap' = [snap EXCEPT ![c].seats = seats[Want[c].fare],
                                ![c].purse = NoPurse]
        /\ UNCHANGED <<ledger, inTx, seen, expired, faults>>
    BY <1>LockFare, Zenon DEF LockFare
  <2>2. TypeLocks'
    BY <2>1, WantedType, LockType, Zenon
  <2>3. snap[c].seat \in Seat
    BY <2>1 DEF TypeInv, Snapped
  <2>4. /\ snap' \in [Change -> Snap] /\ snap'[c].seat = snap[c].seat
        /\ \A d \in Change : d # c => snap'[d] = snap[d]
    <3>1. seats[Want[c].fare] \in Nat
      BY WantFacts DEF TypeInv, TypeLedger
    <3>2. snap'[c] = [snap[c] EXCEPT !.seats = seats[Want[c].fare],
                                     !.purse = NoPurse]
          /\ \A d \in Change : d # c => snap'[d] = snap[d]
      BY <2>1 DEF TypeInv, TypeWork
    <3>3. snap'[c] \in Snap /\ snap'[c].seat = snap[c].seat
      BY <3>1, <3>2, Zenon DEF TypeInv, TypeWork, Snap
    <3> QED
      BY <2>1, <3>2, <3>3 DEF TypeInv, TypeWork
  <2>5. l \in Label /\ (l = "credit" => Want[c].credit # None)
    BY DEF Label
  <2> HIDE DEF l
  <2> QED
    BY <2>1, <2>2, <2>3, <2>4, <2>5, StepType
<1>LockCredit. ASSUME NEW c \in Change, LockCredit(c) PROVE TypeInv'
  <2> DEFINE k == Want[c].credit
  <2>1. pc[c] = "credit" /\ UNCHANGED <<ledger, seen, expired, faults>>
    BY <1>LockCredit DEF LockCredit
  <2>2. k \in Credit /\ snap[c].seat \in Seat
    BY <2>1, WantFacts DEF TypeInv, Snapped
  <2>3. CASE Lock(c, TRUE) /\ snap' = [snap EXCEPT ![c].purse = purse[k]]
             /\ Goto(c, "validate") /\ UNCHANGED inTx
    <3>1. TypeLocks'
      BY <2>1, <2>3, WantedType, LockType, Zenon
    <3>2. purse[k] \in Purse
      BY <2>2 DEF TypeInv, TypeLedger
    <3>3. snap' \in [Change -> Snap] /\ snap'[c].seat = snap[c].seat
          /\ \A d \in Change : d # c => snap'[d] = snap[d]
      BY <2>3, <3>2 DEF TypeInv, TypeWork, Snap
    <3>4. "validate" \in Label
      BY DEF Label
    <3> QED
      BY <2>1, <2>2, <2>3, <3>1, <3>3, <3>4, StepType
  <2>4. CASE Fail(c) /\ UNCHANGED snap
    BY <2>1, <2>4, FailType DEF TypeInv
  <2> QED
    BY <1>LockCredit, <2>3, <2>4, Zenon DEF LockCredit
<1>Validate. ASSUME NEW c \in Change, Validate(c) PROVE TypeInv'
  <2>1. pc[c] = "validate" /\ UNCHANGED <<ledger, seen, snap, expired, faults>>
    BY <1>Validate DEF Validate
  <2>2. ASSUME NEW l \in {"restore", "begin", "invalid"}, Goto(c, l),
               UNCHANGED <<inTx, locks>>
        PROVE  TypeInv'
    <3>1. l \in Label /\ l # "credit" /\ TypeLocks'
      BY <2>2 DEF Label, locks, TypeInv, TypeLocks
    <3> QED
      BY <1>Plain, <2>1, <2>2, <3>1
  <2>3. CASE Fail(c)
    BY <2>1, <2>3, FailType DEF TypeInv
  <2> QED
    BY <1>Validate, <2>2, <2>3, Zenon DEF Validate
<1>Commit. ASSUME NEW c \in Change, Commit(c) PROVE TypeInv'
  <2> DEFINE old == snap[c].seat
  <2>1. /\ pc[c] = "commit" /\ Written(c, old.fare, old.paid) /\ Unlock(c)
        /\ inTx' = [inTx EXCEPT ![c] = FALSE]
        /\ UNCHANGED <<seen, snap, expired>>
        /\ \E l \in {"verify", "failed"} : Goto(c, l)
    BY <1>Commit, Zenon DEF Commit
  <2>2. old.fare \in Fare /\ old.paid \in Nat
    BY <2>1 DEF TypeInv, Snapped, Seat
  <2>3. TypeLedger' /\ TypeLocks'
    BY <2>1, <2>2, WrittenType, UnlockType DEF TypeInv
  <2>4. /\ pc' \in [Change -> Label] /\ pc'[c] \in {"verify", "failed"}
        /\ \A d \in Change : d # c => pc'[d] = pc[d]
    <3>1. {"verify", "failed"} \subseteq Label
      BY DEF Label
    <3> QED
      BY <2>1, <3>1, GotoFacts
  <2>5. TypeWork'
    BY <2>1, <2>4, Zenon DEF TypeInv, TypeWork
  <2>6. \A d \in Change : Snapped(d)'
    BY <2>1, <2>4, SnappedKept DEF Snapped
  <2>7. faults' \in 0..MaxFaults
    <3>1. faults \in 0..MaxFaults /\ MaxFaults \in Nat
      BY RebookingAssumption DEF TypeInv
    <3>2. UNCHANGED faults \/ (faults < MaxFaults /\ faults' = faults + 1)
      BY <1>Commit, Zenon DEF Commit
    <3> QED
      BY <3>1, <3>2
  <2> QED
    BY <2>1, <2>3, <2>5, <2>6, <2>7 DEF TypeInv
<1>Verify. ASSUME NEW c \in Change, Verify(c) PROVE TypeInv'
  <2>1. /\ pc[c] = "verify" /\ \E l \in {"done", "failed"} : Goto(c, l)
        /\ UNCHANGED <<ledger, inTx, seen, snap, locks, expired, faults>>
    BY <1>Verify, Zenon DEF Verify
  <2>2. TypeLocks' /\ {"done", "failed"} \subseteq Label
    BY <2>1 DEF Label, locks, TypeInv, TypeLocks
  <2> QED
    BY <1>Plain, <2>1, <2>2
<1>Fault. ASSUME NEW c \in Change, Fault(c) \/ DeadlockDetected(c) PROVE TypeInv'
  <2>1. Fail(c) /\ UNCHANGED <<ledger, seen, snap, expired>>
    BY <1>Fault, Zenon DEF Fault, DeadlockDetected
  <2>2. faults' \in 0..MaxFaults
    <3>1. faults \in 0..MaxFaults /\ MaxFaults \in Nat
      BY RebookingAssumption DEF TypeInv
    <3>2. UNCHANGED faults \/ (faults < MaxFaults /\ faults' = faults + 1)
      BY <1>Fault, Zenon DEF Fault, DeadlockDetected
    <3> QED
      BY <3>1, <3>2
  <2> QED
    BY <2>1, <2>2, FailType
<1>Others. CASE UNCHANGED vars \/ \E k \in Credit : CreditExpires(k)
  <2>1. UNCHANGED <<ledger, pc, inTx, seen, snap, holds, shares, faults>>
    BY <1>Others, Zenon DEF vars, CreditExpires, work, locks
  <2>2. expired' \in SUBSET Credit
    BY <1>Others DEF vars, CreditExpires, TypeInv
  <2> QED
    BY <2>1, <2>2 DEF TypeInv, TypeLedger, TypeWork, TypeLocks, Snapped
<1> QED
  BY <1>Query, <1>LockSegment, <1>LockReservation, <1>LockFlight, <1>LockFare,
     <1>LockCredit, <1>Validate, <1>Increment, <1>Create, <1>Commit,
     <1>Verify, <1>Fault, <1>Others, Zenon DEF Next, Step

LEMMA InitTypeInv == ASSUME Init PROVE TypeInv
<1>1. TypeLedger
  BY InitTypeLedger DEF Init
<1>2. TypeWork
  <2>1. NoSnap \in Snap
    BY DEF NoSnap, Snap
  <2> QED
    BY <2>1 DEF Init, TypeWork, Label
<1>3. TypeLocks
  BY DEF Init, TypeLocks
<1>4. faults \in 0..MaxFaults /\ expired \in SUBSET Credit
  BY RebookingAssumption DEF Init
<1>5. \A c \in Change : Snapped(c)
  BY Zenon DEF Init, Snapped
<1> QED
  BY <1>1, <1>2, <1>3, <1>4, <1>5 DEF TypeInv

\* Every variable keeps its type for any selections and rows: no fare is
\* oversold and no credit overdrawn.
THEOREM RebookingTypes == Spec => []TypeOK
<1>1. TypeInv => TypeOK
  BY DEF TypeInv, TypeLedger, TypeWork, TypeLocks, Snap, TypeOK
<1> QED
  BY <1>1, InitTypeInv, NextTypeInv, PTL DEF Spec

-----------------------------------------------------------------------------
(* execute implements the ledger.                                          *)

\* How far execute has come.
PastOld == {"record", "commit"}
PastValidate == {"restore"} \union PastOld
PastCredit == {"validate"} \union PastValidate
PastFare == {"credit"} \union PastCredit
PastReservation == {"flight", "fare"} \union PastFare
PastSegment == {"reservation"} \union PastReservation
Ended == {"verify", "failed", "invalid", "done"}

\* A row is locked for one transaction at a time.
Exclusive == \A c, d \in Change : c # d => holds[c] \intersect holds[d] = {}

\* Inside the transaction, rows once locked stay locked, ...
KeepsRows(c) ==
    inTx[c] =>
        /\ pc[c] \in PastSegment => <<"segment", Want[c].segment>> \in holds[c]
        /\ pc[c] \in PastFare => <<"fare", Want[c].fare>> \in holds[c]
        /\ pc[c] \in PastCredit /\ Want[c].credit # None =>
               <<"credit", Want[c].credit>> \in holds[c]
        /\ pc[c] \in PastOld => <<"fare", snap[c].seat.fare>> \in holds[c]

\* ... so that the snapshot is still what the tables hold, ...
StaysFresh(c) ==
    inTx[c] =>
        /\ pc[c] \in PastReservation => snap[c].seat = seat[Want[c].segment]
        /\ pc[c] \in PastFare => snap[c].seats = seats[Want[c].fare]
        /\ pc[c] \in PastCredit => snap[c].purse = PurseOf(Want[c])

\* ... it was validated there, ...
Checked(c) ==
    pc[c] \in PastValidate =>
        /\ inTx[c]
        /\ Valid(Want[c], snap[c].seat, snap[c].seats, snap[c].purse)

\* ... and the selection was not carried out before.
NotYet(c) ==
    pc[c] \notin Ended => \A i \in DOMAIN history : history[i].change # c

TxInv == /\ Exclusive
         /\ \A c \in Change : /\ KeepsRows(c) /\ StaysFresh(c)
                              /\ Checked(c) /\ NotYet(c)

LEMMA LockFacts ==
    ASSUME TypeInv, Exclusive, NEW c \in Change, NEW last \in BOOLEAN,
           Lock(c, last)
    PROVE  /\ Exclusive'
           /\ \A d \in Change : d # c => holds'[d] = holds[d]
           /\ inTx[c] => holds'[c] = holds[c] \union {Wanted(c)}
<1>1. /\ Blockers(c) = {}
      /\ holds' = [holds EXCEPT ![c] = IF last /\ ~inTx[c] THEN {}
                                       ELSE holds[c] \union {Wanted(c)}]
  BY DEF Lock
<1>2. /\ \A d \in Change : d # c => holds'[d] = holds[d]
      /\ holds'[c] \subseteq holds[c] \union {Wanted(c)}
      /\ inTx[c] => holds'[c] = holds[c] \union {Wanted(c)}
  BY <1>1 DEF TypeInv, TypeLocks
<1>3. \A d \in Change : d # c => Wanted(c) \notin holds[d]
  BY <1>1 DEF Blockers
<1>4. Exclusive'
  BY <1>2, <1>3 DEF Exclusive
<1> QED
  BY <1>2, <1>4

LEMMA UnlockFacts ==
    ASSUME TypeInv, Exclusive, NEW c \in Change, Unlock(c)
    PROVE  Exclusive' /\ \A d \in Change : d # c => holds'[d] = holds[d]
<1>1. holds'[c] = {} /\ \A d \in Change : d # c => holds'[d] = holds[d]
  BY DEF Unlock, TypeInv, TypeLocks
<1> QED
  BY <1>1 DEF Exclusive

\* A step of c that writes no table and moves c only.
LEMMA TxFrame ==
    ASSUME TxInv, NEW c \in Change,
           UNCHANGED <<seats, seat, total, purse, history>>,
           \A d \in Change : d # c => /\ pc'[d] = pc[d] /\ inTx'[d] = inTx[d]
                                      /\ snap'[d] = snap[d]
                                      /\ holds'[d] = holds[d],
           Exclusive', KeepsRows(c)', StaysFresh(c)', Checked(c)',
           pc'[c] \notin Ended => pc[c] \notin Ended
    PROVE  TxInv'
<1>1. NotYet(c)'
  BY DEF TxInv, NotYet
<1>2. ASSUME NEW d \in Change, d # c
      PROVE  KeepsRows(d)' /\ StaysFresh(d)' /\ Checked(d)' /\ NotYet(d)'
  <2>1. KeepsRows(d) /\ StaysFresh(d) /\ Checked(d) /\ NotYet(d)
    BY Zenon DEF TxInv
  <2>2. KeepsRows(d)'
    BY <1>2, <2>1 DEF KeepsRows
  <2>3. StaysFresh(d)'
    BY <1>2, <2>1, Zenon DEF StaysFresh, PurseOf
  <2>4. Checked(d)'
    BY <1>2, <2>1 DEF Checked
  <2>5. NotYet(d)'
    BY <1>2, <2>1 DEF NotYet
  <2> QED
    BY <2>2, <2>3, <2>4, <2>5
<1> QED
  BY <1>1, <1>2 DEF TxInv

LEMMA FailTx ==
    ASSUME TypeInv, TxInv, NEW c \in Change, Fail(c),
           UNCHANGED <<seats, seat, total, purse, history, snap>>
    PROVE  TxInv'
<1>1. /\ pc'[c] = "failed"
      /\ \A d \in Change : d # c => pc'[d] = pc[d] /\ inTx'[d] = inTx[d]
  BY DEF Fail, Goto, TypeInv, TypeWork
<1>2. Exclusive' /\ \A d \in Change : d # c => holds'[d] = holds[d]
  BY UnlockFacts DEF Fail, TxInv
<1>3. KeepsRows(c)' /\ StaysFresh(c)' /\ Checked(c)'
  BY <1>1 DEF KeepsRows, StaysFresh, Checked, PastOld, PastValidate,
     PastCredit, PastFare, PastReservation, PastSegment
<1> QED
  BY <1>1, <1>2, <1>3, TxFrame DEF Ended

LEMMA NextTxInv ==
    ASSUME TypeInv, TxInv, [Next]_vars
    PROVE  TxInv' /\ [LedgerNext]_ledger
<1> USE DEF ledger
<1> DEFINE Goal == TxInv' /\ [LedgerNext]_ledger
<1>past. /\ PastOld = {"record", "commit"}
         /\ PastValidate = {"restore", "record", "commit"}
         /\ PastCredit = {"validate", "restore", "record", "commit"}
         /\ PastFare = {"credit", "validate", "restore", "record", "commit"}
         /\ PastReservation = {"flight", "fare", "credit", "validate", "restore", "record", "commit"}
         /\ PastSegment = {"reservation", "flight", "fare", "credit", "validate", "restore", "record", "commit"}
  BY ZenonT(30)
  DEF PastOld, PastValidate, PastCredit, PastFare, PastReservation, PastSegment
<1>Query. ASSUME NEW c \in Change, Query(c) PROVE Goal
  <2>1. /\ pc[c] \in {"check", "begin"} /\ pc'[c] = "segment"
        /\ \A d \in Change : d # c => pc'[d] = pc[d] /\ inTx'[d] = inTx[d]
        /\ UNCHANGED <<ledger, snap, holds>>
    BY <1>Query, Zenon DEF Query, Goto, locks, TypeInv, TypeWork
  <2>2. KeepsRows(c)' /\ StaysFresh(c)' /\ Checked(c)'
    BY <1>past, <2>1, Zenon DEF KeepsRows, StaysFresh, Checked
  <2>3. Exclusive'
    BY <2>1, Zenon DEF TxInv, Exclusive
  <2>4. pc[c] \notin Ended
    BY <2>1 DEF Ended
  <2> QED
    BY <2>1, <2>2, <2>3, <2>4, TxFrame
<1>LockSegment. ASSUME NEW c \in Change, LockSegment(c) PROVE Goal
  <2>1. /\ pc[c] = "segment" /\ Lock(c, FALSE) /\ Goto(c, "reservation")
        /\ UNCHANGED <<ledger, inTx, snap>>
    BY <1>LockSegment, Zenon DEF LockSegment
  <2>2. /\ pc'[c] = "reservation" /\ inTx'[c] = inTx[c]
        /\ Wanted(c) = <<"segment", Want[c].segment>>
    BY <2>1 DEF Goto, TypeInv, TypeWork, Wanted
  <2>3. /\ \A d \in Change : d # c => holds'[d] = holds[d] /\ pc'[d] = pc[d]
        /\ Exclusive' /\ (inTx[c] => holds'[c] = holds[c] \union {Wanted(c)})
    BY <2>1, LockFacts, Zenon DEF TxInv, Goto, TypeInv, TypeWork
  <2>4. KeepsRows(c)' /\ StaysFresh(c)' /\ Checked(c)'
    BY <1>past, <2>2, <2>3 DEF KeepsRows, StaysFresh, Checked
  <2>5. pc[c] \notin Ended
    BY <2>1 DEF Ended
  <2> QED
    BY <2>1, <2>3, <2>4, <2>5, TxFrame
<1>LockReservation. ASSUME NEW c \in Change, LockReservation(c) PROVE Goal
  <2> DEFINE now == seat[Want[c].segment]
  <2>1. pc[c] = "reservation" /\ UNCHANGED ledger
    BY <1>LockReservation DEF LockReservation
  <2>2. CASE /\ Lock(c, TRUE) /\ snap' = [snap EXCEPT ![c].seat = now]
             /\ Goto(c, "flight") /\ UNCHANGED inTx
    <3>1. /\ pc'[c] = "flight" /\ snap'[c].seat = now
          /\ \A d \in Change : d # c => pc'[d] = pc[d] /\ snap'[d] = snap[d]
      BY <2>2 DEF Goto, TypeInv, TypeWork, Snap
    <3>2. /\ \A d \in Change : d # c => holds'[d] = holds[d]
          /\ Exclusive' /\ (inTx[c] => holds'[c] = holds[c] \union {Wanted(c)})
      BY <2>2, LockFacts, Zenon DEF TxInv
    <3>3. inTx[c] => <<"segment", Want[c].segment>> \in holds[c]
      BY <1>past, <2>1, Zenon DEF TxInv, KeepsRows
    <3>4. KeepsRows(c)' /\ StaysFresh(c)' /\ Checked(c)'
      BY <1>past, <2>1, <2>2, <3>1, <3>2, <3>3
      DEF KeepsRows, StaysFresh, Checked
    <3>5. pc[c] \notin Ended
      BY <2>1 DEF Ended
    <3> QED
      BY <2>1, <2>2, <3>1, <3>2, <3>4, <3>5, TxFrame
  <2>3. CASE Fail(c) /\ UNCHANGED snap
    BY <2>1, <2>3, FailTx
  <2> QED
    BY <1>LockReservation, <2>2, <2>3, Zenon DEF LockReservation
<1>LockFlight. ASSUME NEW c \in Change, LockFlight(c) PROVE Goal
  <2>1. /\ pc[c] = "flight" /\ Lock(c, FALSE) /\ Goto(c, "fare")
        /\ UNCHANGED <<ledger, inTx, snap>>
    BY <1>LockFlight, Zenon DEF LockFlight
  <2>2. pc'[c] = "fare" /\ \A d \in Change : d # c => pc'[d] = pc[d]
    BY <2>1 DEF Goto, TypeInv, TypeWork
  <2>3. /\ \A d \in Change : d # c => holds'[d] = holds[d]
        /\ Exclusive' /\ (inTx[c] => holds'[c] = holds[c] \union {Wanted(c)})
    BY <2>1, LockFacts, Zenon DEF TxInv
  <2>4. KeepsRows(c)' /\ StaysFresh(c)' /\ Checked(c)'
    BY <1>past, <2>1, <2>2, <2>3, Zenon
    DEF TxInv, KeepsRows, StaysFresh, Checked
  <2>5. pc[c] \notin Ended
    BY <2>1 DEF Ended
  <2> QED
    BY <2>1, <2>2, <2>3, <2>4, <2>5, TxFrame
<1>LockFare. ASSUME NEW c \in Change, LockFare(c) PROVE Goal
  <2> DEFINE l == IF Want[c].credit = None THEN "validate" ELSE "credit"
  <2>1. /\ pc[c] = "fare" /\ Lock(c, TRUE) /\ Goto(c, l)
        /\ snap' = [snap EXCEPT ![c].seats = seats[Want[c].fare],
                                ![c].purse = NoPurse]
        /\ UNCHANGED <<ledger, inTx>>
    BY <1>LockFare, Zenon DEF LockFare
  <2>2. /\ pc'[c] = l /\ \A d \in Change : d # c => pc'[d] = pc[d]
        /\ Wanted(c) = <<"fare", Want[c].fare>>
    BY <2>1, Zenon DEF Goto, TypeInv, TypeWork, Wanted
  <2>3. /\ \A d \in Change : d # c => snap'[d] = snap[d]
        /\ snap'[c].seat = snap[c].seat /\ snap'[c].purse = NoPurse
        /\ snap'[c].seats = seats[Want[c].fare]
    <3>1. /\ snap[c] \in Snap /\ \A d \in Change : d # c => snap'[d] = snap[d]
          /\ snap'[c] = [snap[c] EXCEPT !.seats = seats[Want[c].fare],
                                        !.purse = NoPurse]
      BY <2>1, Zenon DEF TypeInv, TypeWork
    <3> QED
      BY <3>1, Zenon DEF Snap
  <2>4. /\ \A d \in Change : d # c => holds'[d] = holds[d]
        /\ Exclusive' /\ (inTx[c] => holds'[c] = holds[c] \union {Wanted(c)})
    BY <2>1, LockFacts, Zenon DEF TxInv
  <2>5. inTx[c] => /\ <<"segment", Want[c].segment>> \in holds[c]
                   /\ snap[c].seat = seat[Want[c].segment]
    BY <1>past, <2>1, Zenon DEF TxInv, KeepsRows, StaysFresh
  <2>6. KeepsRows(c)'
    BY <1>past, <2>1, <2>2, <2>4, <2>5, Zenon DEF KeepsRows
  <2>7. StaysFresh(c)'
    BY <1>past, <2>1, <2>2, <2>3, <2>5, Zenon DEF StaysFresh, PurseOf
  <2>8. Checked(c)'
    BY <1>past, <2>2, Zenon DEF Checked
  <2>9. pc[c] \notin Ended
    BY <2>1, Zenon DEF Ended
  <2> QED
    BY <2>1, <2>2, <2>3, <2>4, <2>6, <2>7, <2>8, <2>9, TxFrame, Zenon
<1>LockCredit. ASSUME NEW c \in Change, LockCredit(c) PROVE Goal
  <2> DEFINE k == Want[c].credit
  <2>1. pc[c] = "credit" /\ k # None /\ UNCHANGED ledger
    BY <1>LockCredit, Zenon DEF LockCredit, TypeInv, Snapped
  <2>2. CASE /\ Lock(c, TRUE) /\ snap' = [snap EXCEPT ![c].purse = purse[k]]
             /\ Goto(c, "validate") /\ UNCHANGED inTx
    <3>1. /\ pc'[c] = "validate" /\ snap'[c].purse = purse[k]
          /\ snap'[c].seat = snap[c].seat /\ snap'[c].seats = snap[c].seats
          /\ \A d \in Change : d # c => pc'[d] = pc[d] /\ snap'[d] = snap[d]
      BY <2>2, Zenon DEF Goto, TypeInv, TypeWork, Snap
    <3>2. /\ \A d \in Change : d # c => holds'[d] = holds[d]
          /\ Exclusive' /\ (inTx[c] => holds'[c] = holds[c] \union {Wanted(c)})
          /\ Wanted(c) = <<"credit", k>>
      BY <2>1, <2>2, LockFacts, Zenon DEF TxInv, Wanted
    <3>3. inTx[c] => /\ <<"segment", Want[c].segment>> \in holds[c]
                     /\ <<"fare", Want[c].fare>> \in holds[c]
                     /\ snap[c].seat = seat[Want[c].segment]
                     /\ snap[c].seats = seats[Want[c].fare]
      BY <1>past, <2>1, Zenon DEF TxInv, KeepsRows, StaysFresh
    <3>4. KeepsRows(c)'
      BY <1>past, <2>2, <3>1, <3>2, <3>3, Zenon DEF KeepsRows
    <3>5. StaysFresh(c)'
      BY <1>past, <2>1, <2>2, <3>1, <3>3, Zenon DEF StaysFresh, PurseOf
    <3>6. Checked(c)'
      BY <1>past, <3>1, Zenon DEF Checked
    <3>7. pc[c] \notin Ended
      BY <2>1, Zenon DEF Ended
    <3> QED
      BY <2>1, <2>2, <3>1, <3>2, <3>4, <3>5, <3>6, <3>7, TxFrame, Zenon
  <2>3. CASE Fail(c) /\ UNCHANGED snap
    BY <2>1, <2>3, FailTx, Zenon
  <2> QED
    BY <1>LockCredit, <2>2, <2>3, Zenon DEF LockCredit
<1>Validate. ASSUME NEW c \in Change, Validate(c) PROVE Goal
  <2>1. pc[c] = "validate" /\ UNCHANGED <<ledger, snap>>
    BY <1>Validate, Zenon DEF Validate
  <2>2. ASSUME NEW l \in {"restore", "begin", "invalid"}, Goto(c, l),
               UNCHANGED <<inTx, locks>>,
               l = "restore" => inTx[c] /\ SnapValid(c)
        PROVE  Goal
    <3>1. /\ pc'[c] = l /\ UNCHANGED holds
          /\ \A d \in Change : d # c => pc'[d] = pc[d]
      BY <2>2, Zenon DEF Goto, locks, TypeInv, TypeWork
    <3>2. KeepsRows(c)' /\ StaysFresh(c)'
      BY <1>past, <2>1, <2>2, <3>1, Zenon
      DEF TxInv, KeepsRows, StaysFresh, PurseOf
    <3>3. Checked(c)'
      BY <1>past, <2>1, <2>2, <3>1, Zenon DEF Checked, SnapValid
    <3>4. Exclusive' /\ pc[c] \notin Ended
      BY <2>1, <3>1, Zenon DEF TxInv, Exclusive, Ended
    <3> QED
      BY <2>1, <2>2, <3>1, <3>2, <3>3, <3>4, TxFrame, Zenon
  <2>3. CASE Fail(c)
    BY <2>1, <2>3, FailTx, ZenonT(30)
  <2> QED
    BY <1>Validate, <2>2, <2>3, Zenon DEF Validate
<1>Increment. ASSUME NEW c \in Change, IncrementFlightFareSeats(c) PROVE Goal
  <2>1. /\ pc[c] = "restore" /\ Lock(c, TRUE) /\ Goto(c, "record")
        /\ UNCHANGED <<ledger, inTx, snap>>
    BY <1>Increment, Zenon DEF IncrementFlightFareSeats
  <2>2. /\ pc'[c] = "record" /\ \A d \in Change : d # c => pc'[d] = pc[d]
        /\ Wanted(c) = <<"fare", snap[c].seat.fare>>
    BY <2>1, Zenon DEF Goto, TypeInv, TypeWork, Wanted
  <2>3. /\ \A d \in Change : d # c => holds'[d] = holds[d]
        /\ Exclusive' /\ (inTx[c] => holds'[c] = holds[c] \union {Wanted(c)})
    BY <2>1, LockFacts, Zenon DEF TxInv
  <2>4. KeepsRows(c)'
    BY <1>past, <2>1, <2>2, <2>3, Zenon DEF TxInv, KeepsRows
  <2>5. StaysFresh(c)'
    BY <1>past, <2>1, <2>2, ZenonT(30) DEF TxInv, StaysFresh, PurseOf
  <2>6. Checked(c)'
    BY <1>past, <2>1, <2>2, Zenon DEF TxInv, Checked
  <2>7. pc[c] \notin Ended
    BY <2>1, Zenon DEF Ended
  <2> QED
    BY <2>1, <2>2, <2>3, <2>4, <2>5, <2>6, <2>7, TxFrame, Zenon
<1>Create. ASSUME NEW c \in Change, CreateFlightChange(c) PROVE Goal
  <2>1. /\ pc[c] = "record" /\ Goto(c, "commit")
        /\ UNCHANGED <<ledger, inTx, snap, holds>>
    BY <1>Create, Zenon DEF CreateFlightChange
  <2>2. pc'[c] = "commit" /\ \A d \in Change : d # c => pc'[d] = pc[d]
    BY <2>1, Zenon DEF Goto, TypeInv, TypeWork
  <2>3. KeepsRows(c)'
    BY <1>past, <2>1, <2>2, ZenonT(30) DEF TxInv, KeepsRows
  <2>4. StaysFresh(c)'
    BY <1>past, <2>1, <2>2, Zenon DEF TxInv, StaysFresh, PurseOf
  <2>5. Checked(c)'
    BY <1>past, <2>1, <2>2, ZenonT(30) DEF TxInv, Checked
  <2>6. Exclusive' /\ pc[c] \notin Ended
    BY <2>1, Zenon DEF TxInv, Exclusive, Ended
  <2> QED
    BY <2>1, <2>2, <2>3, <2>4, <2>5, <2>6, TxFrame, Zenon
<1>Commit. ASSUME NEW c \in Change, Commit(c) PROVE Goal
  <2> DEFINE want == Want[c]
             mine == seat[want.segment]
  <2>1. /\ pc[c] = "commit" /\ Written(c, snap[c].seat.fare, snap[c].seat.paid)
        /\ Unlock(c) /\ inTx' = [inTx EXCEPT ![c] = FALSE] /\ UNCHANGED snap
        /\ \E l \in {"verify", "failed"} : Goto(c, l)
    BY <1>Commit, Zenon DEF Commit
  <2>2. /\ pc'[c] \in {"verify", "failed"}
        /\ \A d \in Change : d # c => pc'[d] = pc[d] /\ inTx'[d] = inTx[d]
    BY <2>1, Zenon DEF Goto, TypeInv, TypeWork
  <2>3. Exclusive' /\ \A d \in Change : d # c => holds'[d] = holds[d]
    BY <2>1, UnlockFacts, Zenon DEF TxInv
  <2>4. /\ inTx[c] /\ snap[c].seat = mine /\ snap[c].seats = seats[want.fare]
        /\ snap[c].purse = PurseOf(want)
        /\ Valid(want, snap[c].seat, snap[c].seats, snap[c].purse)
        /\ \A i \in DOMAIN history : history[i].change # c
    BY <1>past, <2>1, Zenon DEF TxInv, StaysFresh, Checked, NotYet, Ended
  <2>5. Rebook(c)
    BY <2>1, <2>4, Zenon DEF Rebook
  <2>6. /\ <<"segment", want.segment>> \in holds[c]
        /\ <<"fare", want.fare>> \in holds[c] /\ <<"fare", mine.fare>> \in holds[c]
        /\ want.credit # None => <<"credit", want.credit>> \in holds[c]
    BY <1>past, <2>1, <2>4, Zenon DEF TxInv, KeepsRows
  <2>7. /\ \A s \in Segment : s # want.segment => seat'[s] = seat[s]
        /\ \A f \in Fare : f # want.fare /\ f # mine.fare => seats'[f] = seats[f]
        /\ \A k \in Credit : k # want.credit => purse'[k] = purse[k]
        /\ \A d \in Change : d # c =>
               ((\A i \in DOMAIN history : history[i].change # d)
                   => \A i \in DOMAIN history' : history'[i].change # d)
    <3>1. /\ seat' = [seat EXCEPT ![want.segment] = Changed(want.fare)]
          /\ seats' = Moved(seats, Passengers(want.segment), mine.fare, want.fare)
          /\ purse' = IF want.credit = None THEN purse
                      ELSE [purse EXCEPT ![want.credit] =
                                Consumed(purse[want.credit], want.amount)]
          /\ history' = Append(history, FlightChange(c, mine.fare, mine.paid))
      BY <2>1, <2>4, Zenon DEF Written
    <3>2. \A s \in Segment : s # want.segment => seat'[s] = seat[s]
      BY <3>1, ZenonT(30) DEF TypeInv, TypeLedger
    <3>3. \A f \in Fare : f # want.fare /\ f # mine.fare => seats'[f] = seats[f]
      BY <3>1, Zenon DEF Moved, TypeInv, TypeLedger
    <3>4. \A k \in Credit : k # want.credit => purse'[k] = purse[k]
      BY <3>1, Zenon DEF TypeInv, TypeLedger
    <3>5. /\ history \in Seq(Row) /\ FlightChange(c, mine.fare, mine.paid).change = c
      BY Zenon DEF TypeInv, TypeLedger, FlightChange
    <3> HIDE DEF mine, want
    <3>6. ASSUME NEW d \in Change, d # c,
                 \A i \in DOMAIN history : history[i].change # d
          PROVE  \A i \in DOMAIN history' : history'[i].change # d
      <4> SUFFICES ASSUME NEW row, row.change = c, history' = Append(history, row)
                   PROVE  \A i \in DOMAIN history' : history'[i].change # d
        BY <3>1, <3>5, Zenon
      <4>1. /\ \A i \in DOMAIN history' :
                   i \in DOMAIN history \/ i = Len(history) + 1
            /\ \A i \in DOMAIN history : history'[i] = history[i]
            /\ history'[Len(history) + 1] = row
        BY <3>5, SMTT(30)
      <4> QED
        BY <3>6, <4>1, Zenon
    <3> QED
      BY <3>2, <3>3, <3>4, <3>6, ZenonT(30)
  <2>8. KeepsRows(c)' /\ StaysFresh(c)' /\ Checked(c)' /\ NotYet(c)'
    BY <1>past, <2>2, Zenon DEF KeepsRows, StaysFresh, Checked, NotYet, Ended
  <2>9. ASSUME NEW d \in Change, d # c
        PROVE  KeepsRows(d)' /\ StaysFresh(d)' /\ Checked(d)' /\ NotYet(d)'
    <3>1. /\ pc'[d] = pc[d] /\ inTx'[d] = inTx[d] /\ snap'[d] = snap[d]
          /\ holds'[d] = holds[d] /\ holds[c] \intersect holds[d] = {}
          /\ KeepsRows(d) /\ StaysFresh(d) /\ Checked(d) /\ NotYet(d)
      BY <2>1, <2>2, <2>3, <2>9, Zenon DEF TxInv, Exclusive
    <3>2. KeepsRows(d)' /\ Checked(d)' /\ NotYet(d)'
      BY <2>7, <2>9, <3>1, Zenon DEF KeepsRows, Checked, NotYet
    <3>3. inTx[d] /\ pc[d] \in PastReservation =>
              seat'[Want[d].segment] = seat[Want[d].segment]
      <4>1. inTx[d] /\ pc[d] \in PastReservation =>
                <<"segment", Want[d].segment>> \in holds[d]
        BY <1>past, <3>1, Zenon DEF KeepsRows
      <4> QED
        BY <2>6, <2>7, <3>1, <4>1, WantFacts, Zenon
    <3>4. inTx[d] /\ pc[d] \in PastFare =>
              seats'[Want[d].fare] = seats[Want[d].fare]
      <4>1. inTx[d] /\ pc[d] \in PastFare => <<"fare", Want[d].fare>> \in holds[d]
        BY <1>past, <3>1, Zenon DEF KeepsRows
      <4> QED
        BY <2>6, <2>7, <3>1, <4>1, WantFacts, Zenon
    <3>5. inTx[d] /\ pc[d] \in PastCredit => PurseOf(Want[d])' = PurseOf(Want[d])
      <4>1. inTx[d] /\ pc[d] \in PastCredit /\ Want[d].credit # None =>
                <<"credit", Want[d].credit>> \in holds[d]
        BY <1>past, <3>1, Zenon DEF KeepsRows
      <4>2. inTx[d] /\ pc[d] \in PastCredit /\ Want[d].credit # None =>
                Want[d].credit # want.credit
        BY <2>6, <3>1, <4>1, Zenon
      <4>3. inTx[d] /\ pc[d] \in PastCredit /\ Want[d].credit # None =>
                purse'[Want[d].credit] = purse[Want[d].credit]
        BY <2>7, <4>2, WantFacts, Zenon
      <4> QED
        BY <4>3, Zenon DEF PurseOf
    <3>6. StaysFresh(d)'
      BY <3>1, <3>3, <3>4, <3>5, ZenonT(30) DEF StaysFresh
    <3> QED
      BY <3>2, <3>6, Zenon
  <2>10. TxInv'
    BY <2>3, <2>8, <2>9, Zenon DEF TxInv
  <2> QED
    BY <2>5, <2>10, Zenon DEF LedgerNext
<1>Verify. ASSUME NEW c \in Change, Verify(c) PROVE Goal
  <2>1. /\ pc[c] = "verify" /\ \E l \in {"done", "failed"} : Goto(c, l)
        /\ UNCHANGED <<ledger, inTx, snap, holds>>
    BY <1>Verify, Zenon DEF Verify, locks
  <2>2. /\ pc'[c] \in {"done", "failed"}
        /\ \A d \in Change : d # c => pc'[d] = pc[d]
    BY <2>1, Zenon DEF Goto, TypeInv, TypeWork
  <2>3. KeepsRows(c)' /\ StaysFresh(c)' /\ Checked(c)'
    BY <1>past, <2>2, Zenon DEF KeepsRows, StaysFresh, Checked
  <2>4. Exclusive' /\ pc'[c] \in Ended
    BY <2>1, <2>2, Zenon DEF TxInv, Exclusive, Ended
  <2> QED
    BY <2>1, <2>2, <2>3, <2>4, TxFrame, Zenon
<1>Fault. ASSUME NEW c \in Change, Fault(c) \/ DeadlockDetected(c) PROVE Goal
  <2>1. Fail(c) /\ UNCHANGED <<ledger, snap>>
    BY <1>Fault, ZenonT(30) DEF Fault, DeadlockDetected
  <2> QED
    BY <2>1, FailTx, Zenon
<1>Others. CASE UNCHANGED vars \/ \E k \in Credit : CreditExpires(k)
  <2>1. UNCHANGED <<ledger, pc, inTx, snap, holds>>
    BY <1>Others, Zenon DEF vars, CreditExpires, work, locks
  <2> QED
    BY <2>1, Zenon
    DEF TxInv, Exclusive, KeepsRows, StaysFresh, Checked, NotYet, PurseOf
<1> QED
  BY <1>Query, <1>LockSegment, <1>LockReservation, <1>LockFlight, <1>LockFare,
     <1>LockCredit, <1>Validate, <1>Increment, <1>Create, <1>Commit,
     <1>Verify, <1>Fault, <1>Others, Zenon DEF Next, Step

LEMMA InitTxInv == ASSUME Init PROVE TxInv
<1>1. \A c \in Change : holds[c] = {} /\ ~inTx[c] /\ pc[c] = "check"
  BY ZenonT(30) DEF Init
<1>2. history = <<>>
  BY Zenon DEF Init, LedgerInit
<1>3. Exclusive
  BY <1>1, Zenon DEF Exclusive
<1>4. ASSUME NEW c \in Change
      PROVE  KeepsRows(c) /\ StaysFresh(c) /\ Checked(c) /\ NotYet(c)
  <2>1. KeepsRows(c)
    BY <1>1, Zenon DEF KeepsRows, PastValidate, PastOld
  <2>2. StaysFresh(c) /\ Checked(c)
    BY <1>1, Zenon DEF StaysFresh, Checked, PastValidate, PastOld
  <2>3. NotYet(c)
    BY <1>2 DEF NotYet
  <2> QED
    BY <2>1, <2>2, <2>3, Zenon
<1> QED
  BY <1>3, <1>4, Zenon DEF TxInv

\* The asyncpg data access implements the ledger: whatever selections, locks,
\* faults, deadlocks and expiries interleave, the tables change only by whole
\* rebookings that are valid in the very state they change, each selection
\* at most once.
THEOREM RebooksLikeLedger == Spec => LedgerSpec
<1>1. Init => LedgerInit
  BY Zenon DEF Init
<1> QED
  BY <1>1, InitTypeInv, NextTypeInv, InitTxInv, NextTxInv, PTL
     DEF Spec, LedgerSpec

\* The rows of flight_changes written by execute are a chain for every
\* segment, and the segment is seated where it ends: no selection overwrites
\* a rebooking that it has not seen.
THEOREM RebookingsChain == Spec => []HistoryIsAChain
BY RebooksLikeLedger, LedgerChains, PTL

\* Whatever selections overlap, fail or expire, the free seats of a fare and
\* the passengers seated at it add up to what the fare started with.
THEOREM RebookingsKeepSeats == Spec => []SeatsConserved
BY RebooksLikeLedger, LedgerKeepsSeats, PTL

\* Prices paid, totals and credits are what flight_changes says, although
\* execute writes the four tables with separate statements.
THEOREM RebookingsBalance == Spec => []BooksBalance
BY RebooksLikeLedger, LedgerBalances, PTL
=============================================================================
