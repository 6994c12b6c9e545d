------------------------- MODULE OrmRebookingProofs -------------------------
(***************************************************************************)
(* Proofs about the SQLAlchemy data access, for any set of selections, rows *)
(* and faults: its transactions implement the ledger but for the total of a *)
(* reservation, and never wait for each other in a ring.                    *)
(***************************************************************************)
EXTENDS OrmRebooking, TLAPS

-----------------------------------------------------------------------------
(* The inductive invariant.                                                *)

Snap == [seat : Seat \union {None}, seats : Nat, purse : Purse, total : Int]

TypeTables == /\ seats \in [Fare -> Nat]
              /\ seat \in [Segment -> Seat]
              /\ total \in [Reservation -> Int]
              /\ purse \in [Credit -> Purse]
              /\ history \in Seq(Row)
TypeWork == /\ pc \in [Change -> Label]
            /\ inTx \in [Change -> BOOLEAN]
            /\ seen \in [Change -> Seat \union {None}]
            /\ snap \in [Change -> Snap]
            /\ holds \in [Change -> SUBSET Lockable]
            /\ expired \in SUBSET Credit
            /\ faults \in 0..MaxFaults

\* How far execute has come.
Writing == {"get", "flush", "commit"}
PastFares == {"validate"} \union Writing
PastCredit == {"fares"} \union PastFares
PastSegment == {"target", "credit"} \union PastCredit
Ended == {"verify", "failed", "invalid", "done"}
Outside == {"check", "begin"} \union Ended

\* What a selection has read; the later steps of execute are inside its
\* transaction and work on a snapshot that was found valid.
Shape(c) ==
    /\ pc[c] \in PastSegment => snap[c].seat \in Seat
    /\ pc[c] = "segment" => seen[c] \in Seat
    /\ pc[c] = "credit" => Want[c].credit # None
    /\ pc[c] \in {"fares"} \union Writing => inTx[c]
    /\ pc[c] \in Outside => ~inTx[c]
    /\ pc[c] \in Writing =>
           Valid(Want[c], snap[c].seat, snap[c].seats, snap[c].purse)

\* A row is locked for one transaction at a time, ...
Exclusive == \A c, d \in Change : c # d => holds[c] \intersect holds[d] = {}

\* ... a transaction keeps the rows it has locked, ...
KeepsRows(c) ==
    /\ ~inTx[c] => holds[c] = {}
    /\ inTx[c] /\ pc[c] \in PastSegment =>
           <<"segment", Want[c].segment>> \in holds[c]
    /\ inTx[c] /\ pc[c] \in PastCredit /\ Want[c].credit # None =>
           <<"credit", Want[c].credit>> \in holds[c]
    /\ inTx[c] /\ pc[c] \in PastFares => FaresLeft(c) = {}

\* ... so that the snapshot is what the tables hold, ...
PurseOf(c) == IF Want[c].credit = None THEN NoPurse ELSE purse[Want[c].credit]

StaysFresh(c) ==
    inTx[c] =>
        /\ pc[c] \in PastSegment => snap[c].seat = seat[Want[c].segment]
        /\ pc[c] \in PastFares => /\ snap[c].seats = seats[Want[c].fare]
                                  /\ snap[c].purse = PurseOf(c)

\* ... a selection is carried out once, ...
NotYet(c) ==
    pc[c] \notin Ended => \A i \in DOMAIN history : history[i].change # c

\* ... and what it has locked comes before all that it may still lock.
Climbs(c) ==
    /\ pc[c] = "segment" => holds[c] = {}
    /\ pc[c] \in {"target", "credit"} =>
           \A row \in holds[c] : row[1] = "segment"
    /\ pc[c] = "fares" =>
           \A row \in holds[c] :
               \/ row[1] \in {"segment", "credit"}
               \/ /\ row[1] = "fare"
                  /\ \A f \in FaresLeft(c) : KeyOf[f] > KeyOf[row[2]]
    /\ pc[c] \in PastFares \ {"commit"} =>
           \A row \in holds[c] : row[1] # "reservation"

Local(c) == Shape(c) /\ KeepsRows(c) /\ StaysFresh(c) /\ NotYet(c) /\ Climbs(c)

Inv == TypeTables /\ TypeWork /\ Exclusive /\ \A c \in Change : Local(c)

-----------------------------------------------------------------------------
(* Steps of one selection.                                                 *)

\* The selection and the rows it is about.
LEMMA WantFacts ==
    ASSUME NEW c \in Change
    PROVE  /\ Want[c].segment \in Segment /\ Want[c].fare \in Fare
           /\ Want[c].credit \in Credit \union {None} /\ Want[c].amount \in Int
           /\ BookingOf(Want[c].segment) \in Reservation
           /\ Passengers(Want[c].segment) \in Nat
BY RebookingRulesAssumption DEF BookingOf, Passengers

LEMMA FareFacts ==
    ASSUME NEW f \in Fare
    PROVE  FareRow[f].price \in Nat /\ FareRow[f].fee \in Nat
BY RebookingRulesAssumption

\* Moving passengers between two fares leaves the other fares alone.
LEMMA MovedElsewhere ==
    ASSUME NEW a, NEW n, NEW o, NEW w, NEW f \in DOMAIN a, f # o, f # w
    PROVE  Moved(a, n, o, w)[f] = a[f]
BY DEF Moved

\* A row of flight_changes for one selection adds none for another.
LEMMA OtherRows ==
    ASSUME NEW rows \in Seq(Row), NEW row, NEW d, row.change # d,
           \A i \in DOMAIN rows : rows[i].change # d
    PROVE  \A i \in DOMAIN Append(rows, row) : Append(rows, row)[i].change # d
OBVIOUS

LEMMA FlightChangeFacts ==
    ASSUME NEW c \in Change, NEW o \in Fare, NEW paid \in Nat
    PROVE  FlightChange(c, o, paid) \in Row
<1>1. /\ Want[c].segment \in Segment /\ Want[c].fare \in Fare
      /\ Want[c].amount \in Int
  BY WantFacts
<1>2. FareRow[Want[c].fare].price \in Nat /\ FareRow[Want[c].fare].fee \in Nat
  BY <1>1, FareFacts
<1>3. Difference(Want[c].fare, paid) \in Int
  BY <1>2 DEF Difference
<1> QED
  BY <1>1, <1>2, <1>3 DEF FlightChange, Row

\* Only c moves: its label, its transaction, what it has seen, its snapshot
\* and its locks.
Moves(c, l, tx, row, sn, h) ==
    /\ pc' = [pc EXCEPT ![c] = l]
    /\ inTx' = [inTx EXCEPT ![c] = tx]
    /\ seen' = [seen EXCEPT ![c] = row]
    /\ snap' = [snap EXCEPT ![c] = sn]
    /\ holds' = [holds EXCEPT ![c] = h]

LEMMA MoveFacts ==
    ASSUME TypeWork, NEW c \in Change, NEW l, NEW tx, NEW row, NEW sn, NEW h,
           Moves(c, l, tx, row, sn, h)
    PROVE  /\ pc'[c] = l /\ inTx'[c] = tx /\ seen'[c] = row /\ snap'[c] = sn
           /\ holds'[c] = h
           /\ \A d \in Change : d # c => /\ pc'[d] = pc[d] /\ inTx'[d] = inTx[d]
                                         /\ seen'[d] = seen[d]
                                         /\ snap'[d] = snap[d]
                                         /\ holds'[d] = holds[d]
BY DEF Moves, TypeWork

LEMMA MoveTypes ==
    ASSUME TypeWork, NEW c \in Change, NEW l \in Label, NEW tx \in BOOLEAN,
           NEW row \in Seat \union {None}, NEW sn \in Snap,
           NEW h \in SUBSET Lockable, Moves(c, l, tx, row, sn, h),
           expired' \in SUBSET Credit, faults' \in 0..MaxFaults
    PROVE  TypeWork'
BY DEF Moves, TypeWork

\* A step of c that writes no table leaves the others as they are.
LEMMA MoveFrame ==
    ASSUME Inv, NEW c \in Change, NEW l, NEW tx, NEW row, NEW sn, NEW h,
           Moves(c, l, tx, row, sn, h), UNCHANGED tables, TypeWork', Exclusive',
           Shape(c)', KeepsRows(c)', StaysFresh(c)', Climbs(c)',
           l \notin Ended => pc[c] \notin Ended
    PROVE  Inv'
<1>1. /\ pc'[c] = l
      /\ \A d \in Change : d # c => /\ pc'[d] = pc[d] /\ inTx'[d] = inTx[d]
                                    /\ seen'[d] = seen[d] /\ snap'[d] = snap[d]
                                    /\ holds'[d] = holds[d]
  BY MoveFacts DEF Inv
<1>2. /\ seats' = seats /\ seat' = seat /\ total' = total /\ purse' = purse
      /\ history' = history
  BY DEF tables
<1>3. TypeTables'
  BY <1>2 DEF Inv, TypeTables
<1>4. NotYet(c)'
  BY <1>1, <1>2 DEF Inv, Local, NotYet
<1>5. ASSUME NEW d \in Change, d # c PROVE Local(d)'
  <2>1. Shape(d) /\ KeepsRows(d) /\ StaysFresh(d) /\ NotYet(d) /\ Climbs(d)
    BY DEF Inv, Local
  <2>2. /\ pc'[d] = pc[d] /\ inTx'[d] = inTx[d] /\ seen'[d] = seen[d]
        /\ snap'[d] = snap[d] /\ holds'[d] = holds[d]
    BY <1>1, <1>5
  <2>3. FaresLeft(d)' = FaresLeft(d)
    BY <2>2 DEF FaresLeft
  <2>4. Shape(d)'
    BY <2>1, <2>2 DEF Shape
  <2>5. KeepsRows(d)'
    BY <2>1, <2>2, <2>3 DEF KeepsRows
  <2>6. StaysFresh(d)'
    BY <1>2, <2>1, <2>2 DEF StaysFresh, PurseOf
  <2>7. NotYet(d)'
    BY <1>2, <2>1, <2>2 DEF NotYet
  <2>8. Climbs(d)'
    BY <2>1, <2>2, <2>3 DEF Climbs
  <2> QED
    BY <2>4, <2>5, <2>6, <2>7, <2>8 DEF Local
<1> QED
  BY <1>3, <1>4, <1>5 DEF Inv, Local

-----------------------------------------------------------------------------
(* Locking.                                                                *)

\* _lock_fares has at most two fares left, and takes the first by key.
LEMMA NextFareFacts ==
    ASSUME Inv, NEW c \in Change, pc[c] = "fares", FaresLeft(c) # {}
    PROVE  /\ NextFare(c) \in FaresLeft(c) /\ NextFare(c) \in Fare
           /\ \A g \in FaresLeft(c) : KeyOf[NextFare(c)] <= KeyOf[g]
<1>1. snap[c].seat.fare \in Fare /\ Want[c].fare \in Fare
  BY WantFacts DEF Inv, Local, Shape, PastSegment, PastCredit, Seat
<1>2. FaresLeft(c) \subseteq Fare
  BY <1>1 DEF FaresLeft
<1>3. \A f \in Fare : KeyOf[f] \in Nat
  BY OrmRebookingAssumption
<1>4. \E f \in FaresLeft(c) : \A g \in FaresLeft(c) : KeyOf[f] <= KeyOf[g]
  <2> DEFINE a == snap[c].seat.fare
             b == Want[c].fare
  <2>1. \A g \in FaresLeft(c) : g = a \/ g = b
    BY DEF FaresLeft
  <2>2. KeyOf[a] \in Nat /\ KeyOf[b] \in Nat
    BY <1>1, <1>3
  <2> HIDE DEF a, b
  <2>3. CASE a \notin FaresLeft(c)
    BY <2>1, <2>2, <2>3
  <2>4. CASE b \notin FaresLeft(c)
    BY <2>1, <2>2, <2>4
  <2>5. CASE a \in FaresLeft(c) /\ b \in FaresLeft(c) /\ KeyOf[a] <= KeyOf[b]
    BY <2>1, <2>2, <2>5
  <2>6. CASE a \in FaresLeft(c) /\ b \in FaresLeft(c) /\ KeyOf[b] <= KeyOf[a]
    BY <2>1, <2>2, <2>6
  <2> QED
    BY <2>2, <2>3, <2>4, <2>5, <2>6
<1>5. /\ NextFare(c) \in FaresLeft(c)
      /\ \A g \in FaresLeft(c) : KeyOf[NextFare(c)] <= KeyOf[g]
  BY <1>4, Zenon DEF NextFare
<1> QED
  BY <1>2, <1>5

\* What each statement wants.
LEMMA WantedCases ==
    ASSUME Inv, NEW c \in Change
    PROVE  /\ pc[c] = "segment" =>
                  Wanted(c) = IF inTx[c] THEN <<"segment", Want[c].segment>>
                              ELSE None
           /\ pc[c] = "credit" =>
                  Wanted(c) = IF inTx[c] THEN <<"credit", Want[c].credit>>
                              ELSE None
           /\ pc[c] = "fares" /\ FaresLeft(c) # {} =>
                  Wanted(c) = <<"fare", NextFare(c)>>
           /\ pc[c] = "flush" =>
                  Wanted(c) = <<"reservation", BookingOf(Want[c].segment)>>
           /\ pc[c] \notin {"segment", "credit", "fares", "flush"} =>
                  Wanted(c) = None
           /\ pc[c] = "fares" /\ FaresLeft(c) = {} => Wanted(c) = None
BY DEF Wanted

LEMMA WantedType ==
    ASSUME Inv, NEW c \in Change
    PROVE  Wanted(c) \in Lockable \union {None}
<1>1. /\ Want[c].segment \in Segment /\ Want[c].credit \in Credit \union {None}
      /\ BookingOf(Want[c].segment) \in Reservation
  BY WantFacts
<1>2. CASE pc[c] = "segment"
  BY <1>1, <1>2, WantedCases DEF Lockable
<1>3. CASE pc[c] = "credit"
  <2>1. Want[c].credit # None
    BY <1>3 DEF Inv, Local, Shape
  <2> QED
    BY <1>1, <1>3, <2>1, WantedCases DEF Lockable
<1>4. CASE pc[c] = "fares"
  <2>1. CASE FaresLeft(c) = {}
    BY <1>4, <2>1, WantedCases
  <2>2. CASE FaresLeft(c) # {}
    BY <1>4, <2>2, NextFareFacts, WantedCases DEF Lockable
  <2> QED
    BY <2>1, <2>2
<1>5. CASE pc[c] = "flush"
  BY <1>1, <1>5, WantedCases DEF Lockable
<1>6. CASE pc[c] \notin {"segment", "credit", "fares", "flush"}
  BY <1>6, WantedCases
<1> QED
  BY <1>2, <1>3, <1>4, <1>5, <1>6

\* The rows of c after a statement that locks.
Kept(c) == IF Wanted(c) = None THEN holds[c] ELSE holds[c] \union {Wanted(c)}

LEMMA LockFacts ==
    ASSUME Inv, NEW c \in Change, Lock(c)
    PROVE  /\ holds' = [holds EXCEPT ![c] = Kept(c)]
           /\ Kept(c) \in SUBSET Lockable
           /\ \A d \in Change : d # c => Wanted(c) \notin holds[d]
<1>1. holds' = [holds EXCEPT ![c] = Kept(c)]
  BY DEF Lock, Kept, Inv, TypeWork
<1>2. holds[c] \in SUBSET Lockable
  BY DEF Inv, TypeWork
<1>3. Kept(c) \in SUBSET Lockable
  BY <1>2, WantedType DEF Kept
<1>4. \A d \in Change : d # c => Wanted(c) \notin holds[d]
  BY DEF Lock, Blockers
<1> QED
  BY <1>1, <1>3, <1>4

\* A free row stays with one transaction.
LEMMA LockExclusive ==
    ASSUME Inv, NEW c \in Change, holds' = [holds EXCEPT ![c] = Kept(c)],
           \A d \in Change : d # c => Wanted(c) \notin holds[d]
    PROVE  Exclusive'
<1>1. holds'[c] = Kept(c) /\ \A d \in Change : d # c => holds'[d] = holds[d]
  BY DEF Inv, TypeWork
<1>2. \A d, e \in Change : d # e => holds[d] \intersect holds[e] = {}
  BY DEF Inv, Exclusive
<1>3. \A d \in Change : d # c => Kept(c) \intersect holds[d] = {}
  BY <1>2 DEF Kept
<1>4. ASSUME NEW d \in Change, NEW e \in Change, d # e
      PROVE  holds'[d] \intersect holds'[e] = {}
  <2>1. CASE d # c /\ e # c
    BY <1>1, <1>2, <1>4, <2>1
  <2>2. CASE d = c
    BY <1>1, <1>3, <1>4, <2>2
  <2>3. CASE e = c
    BY <1>1, <1>3, <1>4, <2>3
  <2> QED
    BY <2>1, <2>2, <2>3
<1> QED
  BY <1>4 DEF Exclusive

\* So does any row when c locks nothing more.
LEMMA FewerExclusive ==
    ASSUME Inv, NEW c \in Change, NEW h \in SUBSET holds[c],
           holds' = [holds EXCEPT ![c] = h]
    PROVE  Exclusive'
<1>1. holds'[c] = h /\ \A d \in Change : d # c => holds'[d] = holds[d]
  BY DEF Inv, TypeWork
<1>2. \A d, e \in Change : d # e => holds[d] \intersect holds[e] = {}
  BY DEF Inv, Exclusive
<1>3. \A d \in Change : holds'[d] \subseteq holds[d]
  BY <1>1
<1> QED
  BY <1>2, <1>3 DEF Exclusive

-----------------------------------------------------------------------------
(* The steps that write no table.                                          *)

LEMMA Here ==
    ASSUME Inv, NEW c \in Change
    PROVE  /\ TypeWork /\ TypeTables
           /\ pc[c] \in Label /\ inTx[c] \in BOOLEAN /\ snap[c] \in Snap
           /\ seen[c] \in Seat \union {None} /\ holds[c] \in SUBSET Lockable
           /\ expired \in SUBSET Credit /\ faults \in 0..MaxFaults
           /\ Shape(c) /\ KeepsRows(c) /\ StaysFresh(c) /\ NotYet(c)
           /\ Climbs(c)
BY DEF Inv, TypeWork, Local

LEMMA Stays ==
    ASSUME TypeWork, NEW c \in Change
    PROVE  /\ pc = [pc EXCEPT ![c] = pc[c]]
           /\ inTx = [inTx EXCEPT ![c] = inTx[c]]
           /\ seen = [seen EXCEPT ![c] = seen[c]]
           /\ snap = [snap EXCEPT ![c] = snap[c]]
           /\ holds = [holds EXCEPT ![c] = holds[c]]
BY DEF TypeWork

\* The rows of the selection in the tables.
LEMMA RowTypes ==
    ASSUME TypeTables, NEW c \in Change
    PROVE  /\ seat[Want[c].segment] \in Seat
           /\ seats[Want[c].fare] \in Nat
           /\ total[BookingOf(Want[c].segment)] \in Int
           /\ Want[c].credit # None => purse[Want[c].credit] \in Purse
           /\ NoPurse \in Purse /\ PurseOf(c) \in Purse
BY WantFacts DEF TypeTables, NoPurse, Purse, PurseOf

\* A rollback.
LEMMA FailInv ==
    ASSUME Inv, NEW c \in Change, Fail(c), UNCHANGED <<tables, seen, snap>>,
           expired' = expired, faults' \in 0..MaxFaults
    PROVE  Inv'
<1>0. PICK tx \in BOOLEAN, h \in SUBSET Lockable : tx = FALSE /\ h = {}
  BY Zenon
<1>1. Moves(c, "failed", tx, seen[c], snap[c], h)
  BY <1>0, Here, Stays, Zenon DEF Fail, Goto, Moves
<1>2. TypeWork'
  BY <1>1, Here, MoveTypes DEF Label
<1>3. Exclusive'
  BY FewerExclusive, Zenon DEF Fail
<1>4. pc'[c] = "failed" /\ inTx'[c] = FALSE /\ holds'[c] = {}
  BY <1>0, <1>1, Here, MoveFacts
<1>5. Shape(c)'
  BY <1>4 DEF Shape, Writing, PastFares, PastCredit, PastSegment
<1>6. KeepsRows(c)' /\ StaysFresh(c)'
  BY <1>4 DEF KeepsRows, StaysFresh
<1>7. Climbs(c)'
  BY <1>4 DEF Climbs
<1> QED
  BY <1>1, <1>2, <1>3, <1>5, <1>6, <1>7, MoveFrame DEF Ended

LEMMA QueryInv ==
    ASSUME Inv, NEW c \in Change, Query(c)
    PROVE  Inv'
<1>1. PICK tx \in BOOLEAN : tx = (pc[c] = "begin")
  BY Zenon
<1>2. Moves(c, "segment", tx, seat[Want[c].segment], snap[c], holds[c])
  BY <1>1, Here, Stays, Zenon DEF Query, Goto, Moves
<1>3. UNCHANGED tables /\ expired' = expired /\ faults' = faults
  BY Zenon DEF Query, tables
<1>4. TypeWork'
  BY <1>2, <1>3, Here, RowTypes, MoveTypes, Zenon DEF Label
<1>5. Exclusive'
  BY FewerExclusive, Here, Stays, Zenon DEF Query
<1>6. /\ pc'[c] = "segment" /\ holds'[c] = holds[c]
      /\ seen'[c] = seat[Want[c].segment]
  BY <1>2, Here, MoveFacts
<1>7. pc[c] \in {"check", "begin"}
  BY Zenon DEF Query
<1>8. holds[c] = {}
  BY <1>7, Here, Zenon DEF Shape, KeepsRows, Outside
<1>9. Shape(c)'
  BY <1>6, Here, RowTypes, Zenon
  DEF Shape, Outside, Ended, Writing, PastFares, PastCredit, PastSegment
<1>10. KeepsRows(c)' /\ StaysFresh(c)'
  BY <1>6, <1>8, Zenon
  DEF KeepsRows, StaysFresh, Writing, PastFares, PastCredit, PastSegment
<1>11. Climbs(c)'
  BY <1>6, <1>8, Zenon DEF Climbs, Writing, PastFares
<1> QED
  BY <1>2, <1>3, <1>4, <1>5, <1>7, <1>9, <1>10, <1>11, MoveFrame, Zenon
  DEF Ended

LEMMA SelectSegmentInv ==
    ASSUME Inv, NEW c \in Change, SelectSegment(c)
    PROVE  Inv'
<1>1. PICK now : now = IF inTx[c] THEN seat[Want[c].segment] ELSE seen[c]
  BY Zenon
<1>2. pc[c] = "segment"
  BY Zenon DEF SelectSegment
<1>3. now \in Seat
  BY <1>1, <1>2, Here, RowTypes, Zenon DEF Shape
<1>4. UNCHANGED tables /\ seen' = seen /\ expired' = expired /\ faults' = faults
  BY Zenon DEF SelectSegment, tables
<1>5. CASE Fail(c) /\ UNCHANGED snap
  BY <1>4, <1>5, Here, FailInv, Zenon
<1>6. CASE /\ Lock(c)
           /\ snap' = [snap EXCEPT ![c] = [NoSnap EXCEPT !.seat = now]]
           /\ Goto(c, "target")
           /\ UNCHANGED inTx
  <2>1. PICK sn : sn = [NoSnap EXCEPT !.seat = now]
    BY Zenon
  <2>2. sn \in Snap /\ sn.seat = now
    BY <1>3, <2>1 DEF NoSnap, Snap, NoPurse, Purse
  <2>3. Moves(c, "target", inTx[c], seen[c], sn, Kept(c))
    BY <1>4, <1>6, <2>1, Here, Stays, LockFacts, Zenon DEF Goto, Moves
  <2>4. TypeWork'
    BY <1>4, <1>6, <2>2, <2>3, Here, LockFacts, MoveTypes, Zenon DEF Label
  <2>5. Exclusive'
    BY <1>6, LockFacts, LockExclusive, Zenon
  <2>6. /\ pc'[c] = "target" /\ inTx'[c] = inTx[c] /\ snap'[c] = sn
        /\ holds'[c] = Kept(c)
    BY <2>3, Here, MoveFacts
  <2>7. holds[c] = {}
    BY <1>2, Here, Zenon DEF Climbs
  <2>8. inTx[c] => Kept(c) = {<<"segment", Want[c].segment>>}
    <3>1. <<"segment", Want[c].segment>> \in Lockable
      BY WantFacts, Zenon DEF Lockable
    <3> QED
      BY <1>2, <2>7, <3>1, WantedCases, NoneIsNoRow, Zenon DEF Kept
  <2>9. ~inTx[c] => Kept(c) = {}
    BY <1>2, <2>7, WantedCases, Zenon DEF Kept
  <2>10. Shape(c)'
    BY <1>3, <2>2, <2>6, Zenon
    DEF Shape, Outside, Ended, Writing, PastFares, PastCredit, PastSegment
  <2>11. KeepsRows(c)'
    BY <2>6, <2>8, <2>9, Zenon
    DEF KeepsRows, Writing, PastFares, PastCredit, PastSegment
  <2>12. StaysFresh(c)'
    BY <1>1, <1>4, <2>2, <2>6, Zenon
    DEF StaysFresh, Writing, PastFares, PastCredit, PastSegment, tables
  <2>13. \A row \in Kept(c) : row[1] = "segment"
    BY <2>8, <2>9, Here
  <2>14. Climbs(c)'
    BY <2>6, <2>13, Zenon DEF Climbs, Writing, PastFares
  <2> QED
    BY <1>2, <1>4, <2>3, <2>4, <2>5, <2>10, <2>11, <2>12, <2>14, MoveFrame,
       Zenon DEF Ended
<1> QED
  BY <1>1, <1>5, <1>6, Zenon DEF SelectSegment

\* A statement that locks nothing.
Reads(c, l, sn) == /\ Goto(c, l)
                   /\ snap' = [snap EXCEPT ![c] = sn]
                   /\ UNCHANGED <<tables, inTx, seen, holds, expired, faults>>

LEMMA ReadFacts ==
    ASSUME Inv, NEW c \in Change, NEW l, NEW sn, Reads(c, l, sn)
    PROVE  /\ Moves(c, l, inTx[c], seen[c], sn, holds[c])
           /\ pc'[c] = l /\ snap'[c] = sn /\ inTx'[c] = inTx[c]
           /\ seen'[c] = seen[c] /\ holds'[c] = holds[c]
           /\ seats' = seats /\ seat' = seat /\ purse' = purse
<1>1. Moves(c, l, inTx[c], seen[c], sn, holds[c])
  BY Here, Stays, Zenon DEF Reads, Goto, Moves
<1>2. /\ pc'[c] = l /\ snap'[c] = sn /\ inTx'[c] = inTx[c]
      /\ seen'[c] = seen[c] /\ holds'[c] = holds[c]
  BY <1>1, Here, MoveFacts
<1> QED
  BY <1>1, <1>2, Zenon DEF Reads, tables

LEMMA ReadInv ==
    ASSUME Inv, NEW c \in Change, NEW l \in Label, NEW sn \in Snap,
           Reads(c, l, sn), l \notin Ended => pc[c] \notin Ended,
           Shape(c)', KeepsRows(c)', StaysFresh(c)', Climbs(c)'
    PROVE  Inv'
<1>1. Moves(c, l, inTx[c], seen[c], sn, holds[c])
  BY ReadFacts, Zenon
<1>2. UNCHANGED tables /\ expired' = expired /\ faults' = faults
  BY Zenon DEF Reads, tables
<1>3. TypeWork'
  BY <1>1, <1>2, Here, MoveTypes, Zenon
<1>4. Exclusive'
  BY FewerExclusive, Here, Stays, Zenon DEF Reads
<1> QED
  BY <1>1, <1>2, <1>3, <1>4, MoveFrame, Zenon

LEMMA SelectTargetInv ==
    ASSUME Inv, NEW c \in Change, SelectTarget(c)
    PROVE  Inv'
<1>1. PICK l, sn : /\ l = IF Want[c].credit = None THEN Complete(c) ELSE "credit"
                   /\ sn = [snap[c] EXCEPT !.seats = seats[Want[c].fare]]
  BY Zenon
<1>2. pc[c] = "target"
  BY Zenon DEF SelectTarget
<1>3. sn \in Snap /\ sn.seat = snap[c].seat
  BY <1>1, Here, RowTypes, Zenon DEF Snap
<1>4. Reads(c, l, sn)
  BY <1>1, Here, Zenon DEF SelectTarget, Reads, Goto, TypeWork
<1>5. /\ l \in {"credit", "fares", "validate"}
      /\ l = "credit" => Want[c].credit # None
      /\ l = "fares" => inTx[c] /\ Want[c].credit = None
      /\ l = "validate" => ~inTx[c]
  BY <1>1, Zenon DEF Complete
<1>6. /\ pc'[c] = l /\ snap'[c] = sn /\ inTx'[c] = inTx[c]
      /\ holds'[c] = holds[c] /\ seat' = seat
  BY <1>4, ReadFacts, Zenon
<1>7. /\ snap[c].seat \in Seat
      /\ ~inTx[c] => holds[c] = {}
      /\ inTx[c] => /\ <<"segment", Want[c].segment>> \in holds[c]
                    /\ snap[c].seat = seat[Want[c].segment]
      /\ \A row \in holds[c] : row[1] = "segment"
  BY <1>2, Here, Zenon DEF Shape, KeepsRows, StaysFresh, Climbs, PastSegment
<1>8. Shape(c)'
  BY <1>3, <1>5, <1>6, <1>7, Zenon DEF Shape, Outside, Ended, Writing
<1>9. KeepsRows(c)'
  BY <1>5, <1>6, <1>7, Zenon DEF KeepsRows, Writing, PastFares, PastCredit
<1>10. StaysFresh(c)'
  BY <1>3, <1>5, <1>6, <1>7, Zenon DEF StaysFresh, Writing, PastFares
<1>11. Climbs(c)'
  BY <1>5, <1>6, <1>7, Zenon DEF Climbs, Writing, PastFares
<1> QED
  BY <1>2, <1>3, <1>4, <1>5, <1>8, <1>9, <1>10, <1>11, ReadInv, Zenon
  DEF Label, Ended

LEMMA GetCreditInv ==
    ASSUME Inv, NEW c \in Change, GetCredit(c)
    PROVE  Inv'
<1>1. PICK l, sn : /\ l = Complete(c)
                   /\ sn = [snap[c] EXCEPT !.purse = purse[Want[c].credit]]
  BY Zenon
<1>2. pc[c] = "credit" /\ Lock(c)
  BY Zenon DEF GetCredit
<1>3. Want[c].credit # None
  BY <1>2, Here, Zenon DEF Shape
<1>4. sn \in Snap /\ sn.seat = snap[c].seat
  BY <1>1, <1>3, Here, RowTypes, Zenon DEF Snap
<1>5. UNCHANGED tables /\ expired' = expired /\ faults' = faults
  BY Zenon DEF GetCredit, tables
<1>6. Moves(c, l, inTx[c], seen[c], sn, Kept(c))
  BY <1>1, <1>2, Here, Stays, LockFacts, Zenon
  DEF GetCredit, Goto, Moves, TypeWork
<1>7. /\ l \in {"fares", "validate"}
      /\ l = "fares" => inTx[c]
      /\ l = "validate" => ~inTx[c]
  BY <1>1, Zenon DEF Complete
<1>8. TypeWork'
  BY <1>2, <1>4, <1>5, <1>6, <1>7, Here, LockFacts, MoveTypes DEF Label
<1>9. Exclusive'
  BY <1>2, LockFacts, LockExclusive, Zenon
<1>10. /\ pc'[c] = l /\ snap'[c] = sn /\ inTx'[c] = inTx[c]
       /\ holds'[c] = Kept(c)
  BY <1>6, Here, MoveFacts, SMTT(30)
<1>11. /\ snap[c].seat \in Seat
       /\ ~inTx[c] => holds[c] = {}
       /\ inTx[c] => /\ <<"segment", Want[c].segment>> \in holds[c]
                     /\ snap[c].seat = seat[Want[c].segment]
       /\ \A row \in holds[c] : row[1] = "segment"
  BY <1>2, Here, Zenon DEF Shape, KeepsRows, StaysFresh, Climbs, PastSegment
<1>12. inTx[c] => Kept(c) = holds[c] \union {<<"credit", Want[c].credit>>}
  <2>1. <<"credit", Want[c].credit>> \in Lockable
    BY <1>3, WantFacts, Zenon DEF Lockable
  <2> QED
    BY <1>2, <2>1, WantedCases, NoneIsNoRow, Zenon DEF Kept
<1>13. ~inTx[c] => Kept(c) = {}
  BY <1>2, <1>11, WantedCases, Zenon DEF Kept
<1>14. Shape(c)'
  BY <1>4, <1>7, <1>10, <1>11, Zenon DEF Shape, Outside, Ended, Writing
<1>15. KeepsRows(c)'
  BY <1>7, <1>10, <1>11, <1>12, <1>13, Zenon DEF KeepsRows, Writing, PastFares
<1>16. StaysFresh(c)'
  BY <1>4, <1>5, <1>7, <1>10, <1>11, Zenon
  DEF StaysFresh, Writing, PastFares, tables
<1>17. \A row \in Kept(c) : row[1] \in {"segment", "credit"}
  BY <1>11, <1>12, <1>13, Here
<1>18. Climbs(c)'
  BY <1>7, <1>10, <1>17, Zenon DEF Climbs, Writing, PastFares
<1> QED
  BY <1>2, <1>5, <1>6, <1>8, <1>9, <1>14, <1>15, <1>16, <1>18, MoveFrame, Zenon
  DEF Ended

LEMMA LockFareInv ==
    ASSUME Inv, NEW c \in Change, LockFare(c)
    PROVE  Inv'
<1>1. pc[c] = "fares" /\ FaresLeft(c) # {} /\ Lock(c)
  BY Zenon DEF LockFare
<1>2. UNCHANGED tables /\ expired' = expired /\ faults' = faults
  BY Zenon DEF LockFare, tables
<1>3. Moves(c, "fares", inTx[c], seen[c], snap[c], Kept(c))
  BY <1>1, Here, Stays, LockFacts, ZenonT(30) DEF LockFare, Moves
<1>4. TypeWork'
  BY <1>1, <1>2, <1>3, Here, LockFacts, MoveTypes, Zenon DEF Label
<1>5. Exclusive'
  BY <1>1, LockFacts, LockExclusive, Zenon
<1>6. /\ pc'[c] = "fares" /\ snap'[c] = snap[c] /\ inTx'[c] = inTx[c]
      /\ holds'[c] = Kept(c)
  BY <1>3, Here, MoveFacts
<1>7. /\ NextFare(c) \in FaresLeft(c) /\ NextFare(c) \in Fare
      /\ \A g \in FaresLeft(c) : KeyOf[NextFare(c)] <= KeyOf[g]
  BY <1>1, NextFareFacts, Zenon
<1>8. PICK row : row = <<"fare", NextFare(c)>>
  BY Zenon
<1>9. Kept(c) = holds[c] \union {row}
  BY <1>1, <1>7, <1>8, WantedCases, NoneIsNoRow DEF Kept, Lockable
<1>10. FaresLeft(c)' = FaresLeft(c) \ {NextFare(c)}
  BY <1>6, <1>8, <1>9 DEF FaresLeft
<1>11. /\ inTx[c] /\ snap[c].seat \in Seat
       /\ <<"segment", Want[c].segment>> \in holds[c]
       /\ Want[c].credit # None => <<"credit", Want[c].credit>> \in holds[c]
       /\ snap[c].seat = seat[Want[c].segment]
  BY <1>1, Here, ZenonT(30)
  DEF Shape, KeepsRows, StaysFresh, PastSegment, PastCredit
<1>12. Shape(c)'
  BY <1>6, <1>11, Zenon DEF Shape, Outside, Ended, Writing
<1>13. KeepsRows(c)'
  BY <1>6, <1>9, <1>11, Zenon DEF KeepsRows, Writing, PastFares
<1>14. StaysFresh(c)'
  BY <1>2, <1>6, <1>11, Zenon DEF StaysFresh, Writing, PastFares, tables
<1>15. \A old \in holds[c] :
           \/ old[1] \in {"segment", "credit"}
           \/ /\ old[1] = "fare"
              /\ \A f \in FaresLeft(c) : KeyOf[f] > KeyOf[old[2]]
  BY <1>1, Here, Zenon DEF Climbs
<1>16. \A f \in FaresLeft(c)' : KeyOf[f] > KeyOf[NextFare(c)]
  <2>1. FaresLeft(c) \subseteq Fare
    BY <1>11, WantFacts, Zenon DEF FaresLeft, Seat
  <2> QED
    BY <1>7, <1>10, <2>1, OrmRebookingAssumption
<1>17. \A more \in Kept(c) :
           \/ more[1] \in {"segment", "credit"}
           \/ /\ more[1] = "fare"
              /\ \A f \in FaresLeft(c)' : KeyOf[f] > KeyOf[more[2]]
  BY <1>8, <1>9, <1>10, <1>15, <1>16
<1>18. Climbs(c)'
  BY <1>6, <1>17, Zenon DEF Climbs, Writing, PastFares
<1> QED
  BY <1>1, <1>2, <1>3, <1>4, <1>5, <1>12, <1>13, <1>14, <1>18, MoveFrame, Zenon
  DEF Ended

LEMMA SnapshotAgainInv ==
    ASSUME Inv, NEW c \in Change, SnapshotAgain(c)
    PROVE  Inv'
<1>1. PICK sn : sn = Refreshed(c)
  BY Zenon
<1>2. pc[c] = "fares" /\ FaresLeft(c) = {}
  BY Zenon DEF SnapshotAgain
<1>3. /\ sn \in Snap /\ sn.seat = seat[Want[c].segment]
      /\ sn.seats = seats[Want[c].fare] /\ sn.purse = PurseOf(c)
  BY <1>1, Here, RowTypes, Zenon DEF Refreshed, Snap, PurseOf
<1>4. Reads(c, "validate", sn)
  BY <1>1, Here, Zenon DEF SnapshotAgain, Reads, Goto
<1>5. /\ pc'[c] = "validate" /\ snap'[c] = sn /\ inTx'[c] = inTx[c]
      /\ holds'[c] = holds[c] /\ seats' = seats /\ seat' = seat
      /\ purse' = purse
  BY <1>4, ReadFacts, Zenon
<1>6. /\ inTx[c] /\ snap[c].seat \in Seat
      /\ <<"segment", Want[c].segment>> \in holds[c]
      /\ Want[c].credit # None => <<"credit", Want[c].credit>> \in holds[c]
      /\ snap[c].seat = seat[Want[c].segment]
  BY <1>2, Here, Zenon
  DEF Shape, KeepsRows, StaysFresh, PastSegment, PastCredit
<1>7. FaresLeft(c)' = {}
  BY <1>2, <1>3, <1>5, <1>6, Zenon DEF FaresLeft
<1>8. Shape(c)'
  BY <1>3, <1>5, <1>6, Zenon DEF Shape, Outside, Ended, Writing
<1>9. KeepsRows(c)'
  BY <1>5, <1>6, <1>7, Zenon DEF KeepsRows
<1>10. StaysFresh(c)'
  BY <1>3, <1>5, ZenonT(30) DEF StaysFresh, PurseOf
<1>11. Climbs(c)'
  BY <1>2, <1>5, Here, ZenonT(30) DEF Climbs
<1> QED
  BY <1>2, <1>3, <1>4, <1>8, <1>9, <1>10, <1>11, ReadInv, Zenon
  DEF Label, Ended

LEMMA ValidateInv ==
    ASSUME Inv, NEW c \in Change, Validate(c)
    PROVE  Inv'
<1>1. pc[c] = "validate"
  BY Zenon DEF Validate
<1>2. CASE ~SnapValid(c) /\ inTx[c] /\ Fail(c)
  <2>1. UNCHANGED <<tables, seen, snap, expired, faults>>
    BY Zenon DEF Validate
  <2> QED
    BY <1>2, <2>1, Here, FailInv, Zenon
<1>3. CASE ~SnapValid(c) /\ ~inTx[c] /\ Goto(c, "invalid") /\ UNCHANGED <<inTx, holds>>
  <2>1. Reads(c, "invalid", snap[c])
    BY <1>3, Here, Stays, Zenon DEF Validate, Reads
  <2>2. /\ pc'[c] = "invalid" /\ inTx'[c] = inTx[c] /\ holds'[c] = holds[c]
    BY <2>1, ReadFacts, Zenon
  <2>3. Shape(c)'
    BY <1>3, <2>2, Zenon DEF Shape, Writing, PastFares, PastCredit, PastSegment
  <2>4. KeepsRows(c)' /\ StaysFresh(c)'
    BY <1>3, <2>2, Here, Zenon DEF KeepsRows, StaysFresh
  <2>5. Climbs(c)'
    BY <2>2, Zenon DEF Climbs, Writing, PastFares
  <2> QED
    BY <2>1, <2>3, <2>4, <2>5, Here, ReadInv, Zenon DEF Label, Ended
<1>4. CASE /\ SnapValid(c) /\ UNCHANGED <<inTx, holds>>
           /\ Goto(c, IF inTx[c] THEN "get" ELSE "begin")
  <2>1. PICK l : l = IF inTx[c] THEN "get" ELSE "begin"
    BY Zenon
  <2>2. Reads(c, l, snap[c])
    BY <1>4, <2>1, Here, Stays, Zenon DEF Validate, Reads
  <2>3. /\ pc'[c] = l /\ snap'[c] = snap[c] /\ inTx'[c] = inTx[c]
        /\ holds'[c] = holds[c] /\ seats' = seats /\ seat' = seat
        /\ purse' = purse
    BY <2>2, ReadFacts, Zenon
  <2>4. FaresLeft(c)' = FaresLeft(c)
    BY <2>3, Zenon DEF FaresLeft
  <2>5. Valid(Want[c], snap[c].seat, snap[c].seats, snap[c].purse)
    BY <1>4, ZenonT(30) DEF SnapValid
  <2>6. Shape(c)'
    BY <1>1, <2>1, <2>3, <2>5, Here, ZenonT(30)
    DEF Shape, Outside, Ended, Writing, PastFares, PastCredit, PastSegment
  <2>7. KeepsRows(c)'
    BY <1>1, <2>1, <2>3, <2>4, Here, Zenon
    DEF KeepsRows, Writing, PastFares, PastCredit, PastSegment
  <2>8. StaysFresh(c)'
    BY <1>1, <2>1, <2>3, Here, Zenon
    DEF StaysFresh, PurseOf, Writing, PastFares, PastCredit, PastSegment
  <2>9. Climbs(c)'
    BY <1>1, <2>1, <2>3, Here, Zenon DEF Climbs, Writing, PastFares
  <2> QED
    BY <1>1, <2>1, <2>2, <2>6, <2>7, <2>8, <2>9, Here, ReadInv, Zenon
    DEF Label, Ended
<1> QED
  BY <1>2, <1>3, <1>4, Zenon DEF Validate

LEMMA GetReservationInv ==
    ASSUME Inv, NEW c \in Change, GetReservation(c)
    PROVE  Inv'
<1>1. PICK sn : sn = [snap[c] EXCEPT !.total =
                          total[BookingOf(Want[c].segment)]]
  BY Zenon
<1>2. pc[c] = "get"
  BY Zenon DEF GetReservation
<1>3. /\ sn \in Snap /\ sn.seat = snap[c].seat /\ sn.seats = snap[c].seats
      /\ sn.purse = snap[c].purse
  BY <1>1, Here, RowTypes, Zenon DEF Snap
<1>4. Reads(c, "flush", sn)
  BY <1>1, Here, Zenon DEF GetReservation, Reads, Goto, TypeWork
<1>5. /\ pc'[c] = "flush" /\ snap'[c] = sn /\ inTx'[c] = inTx[c]
      /\ holds'[c] = holds[c] /\ seats' = seats /\ seat' = seat
      /\ purse' = purse
  BY <1>4, ReadFacts, Zenon
<1>6. FaresLeft(c)' = FaresLeft(c)
  BY <1>3, <1>5, Zenon DEF FaresLeft
<1>7. Shape(c)'
  BY <1>2, <1>3, <1>5, Here, Zenon
  DEF Shape, Outside, Ended, Writing, PastFares, PastCredit, PastSegment
<1>8. KeepsRows(c)'
  BY <1>2, <1>5, <1>6, Here, Zenon
  DEF KeepsRows, Writing, PastFares, PastCredit, PastSegment
<1>9. StaysFresh(c)'
  BY <1>2, <1>3, <1>5, Here, Zenon
  DEF StaysFresh, PurseOf, Writing, PastFares, PastCredit, PastSegment
<1>10. Climbs(c)'
  BY <1>2, <1>5, Here, Zenon DEF Climbs, Writing, PastFares
<1> QED
  BY <1>2, <1>3, <1>4, <1>7, <1>8, <1>9, <1>10, ReadInv, Zenon DEF Label, Ended

LEMMA FlushInv ==
    ASSUME Inv, NEW c \in Change, Flush(c)
    PROVE  Inv'
<1>1. pc[c] = "flush" /\ Lock(c)
  BY Zenon DEF Flush
<1>2. /\ UNCHANGED tables /\ expired' = expired /\ faults' = faults
      /\ seats' = seats /\ seat' = seat /\ purse' = purse
  BY Zenon DEF Flush, tables
<1>3. Moves(c, "commit", inTx[c], seen[c], snap[c], Kept(c))
  BY <1>1, Here, Stays, LockFacts, ZenonT(30) DEF Flush, Goto, Moves
<1>4. TypeWork'
  BY <1>1, <1>2, <1>3, Here, LockFacts, MoveTypes, Zenon DEF Label
<1>5. Exclusive'
  BY <1>1, LockFacts, LockExclusive, Zenon
<1>6. /\ pc'[c] = "commit" /\ snap'[c] = snap[c] /\ inTx'[c] = inTx[c]
      /\ holds'[c] = Kept(c) /\ holds[c] \subseteq Kept(c)
  <2>1. /\ pc'[c] = "commit" /\ snap'[c] = snap[c] /\ inTx'[c] = inTx[c]
        /\ holds'[c] = Kept(c)
    <3>1. TypeWork
      BY Here, Zenon
    <3> QED
      BY <1>3, <3>1, ZenonT(30) DEF Moves, TypeWork
  <2>2. holds[c] \subseteq Kept(c)
    BY Zenon DEF Kept
  <2> QED
    BY <2>1, <2>2, Zenon
<1>7. inTx[c] /\ FaresLeft(c) = {}
  BY <1>1, Here, Zenon DEF Shape, KeepsRows, Writing, PastFares
<1>8. FaresLeft(c)' = {}
  BY <1>6, <1>7, Zenon DEF FaresLeft
<1>9. Shape(c)'
  BY <1>1, <1>6, Here, Zenon
  DEF Shape, Outside, Ended, Writing, PastFares, PastCredit, PastSegment
<1>10. KeepsRows(c)'
  BY <1>1, <1>6, <1>7, <1>8, Here, ZenonT(30)
  DEF KeepsRows, Writing, PastFares, PastCredit, PastSegment
<1>11. StaysFresh(c)'
  BY <1>1, <1>2, <1>6, Here, Zenon
  DEF StaysFresh, PurseOf, Writing, PastFares, PastCredit, PastSegment
<1>12. Climbs(c)'
  BY <1>6, Zenon DEF Climbs
<1> QED
  BY <1>1, <1>2, <1>3, <1>4, <1>5, <1>9, <1>10, <1>11, <1>12, MoveFrame, Zenon
  DEF Ended

LEMMA VerifyInv ==
    ASSUME Inv, NEW c \in Change, Verify(c)
    PROVE  Inv'
<1>1. PICK l \in {"done", "failed"} : Goto(c, l)
  BY Zenon DEF Verify
<1>2. Reads(c, l, snap[c])
  BY <1>1, Here, Stays, ZenonT(30) DEF Verify, Reads
<1>3. pc'[c] = l /\ inTx'[c] = inTx[c] /\ holds'[c] = holds[c]
  BY <1>2, ReadFacts, Zenon
<1>4. ~inTx[c]
  BY Here, Zenon DEF Verify, Shape, Outside, Ended
<1>5. Shape(c)'
  BY <1>3, <1>4, ZenonT(30)
  DEF Shape, Writing, PastFares, PastCredit, PastSegment
<1>6. KeepsRows(c)' /\ StaysFresh(c)'
  BY <1>3, <1>4, Here, Zenon DEF KeepsRows, StaysFresh
<1>7. Climbs(c)'
  BY <1>3, Zenon DEF Climbs, Writing, PastFares
<1> QED
  BY <1>2, <1>5, <1>6, <1>7, Here, ReadInv, Zenon DEF Label, Ended

LEMMA FaultInv ==
    ASSUME Inv, NEW c \in Change, Fault(c)
    PROVE  Inv'
<1>1. faults' \in 0..MaxFaults
  BY Here, OrmRebookingAssumption DEF Fault
<1> QED
  BY <1>1, FailInv, ZenonT(30) DEF Fault

\* Time, and steps of nobody.
LEMMA IdleInv ==
    ASSUME Inv, UNCHANGED <<tables, pc, inTx, seen, snap, holds, faults>>,
           expired' \in SUBSET Credit
    PROVE  Inv'
<1>1. /\ seats' = seats /\ seat' = seat /\ total' = total /\ purse' = purse
      /\ history' = history /\ pc' = pc /\ inTx' = inTx /\ seen' = seen
      /\ snap' = snap /\ holds' = holds /\ faults' = faults
  BY Zenon DEF tables
<1>2. TypeTables' /\ TypeWork' /\ Exclusive'
  BY <1>1, Zenon DEF Inv, TypeTables, TypeWork, Exclusive
<1>3. ASSUME NEW c \in Change PROVE Local(c)'
  <2>1. Local(c)
    BY Zenon DEF Inv
  <2>2. FaresLeft(c)' = FaresLeft(c)
    BY <1>1, Zenon DEF FaresLeft
  <2> QED
    BY <1>1, <2>1, <2>2, ZenonT(30)
    DEF Local, Shape, KeepsRows, StaysFresh, PurseOf, NotYet, Climbs
<1> QED
  BY <1>2, <1>3, Zenon DEF Inv

-----------------------------------------------------------------------------
(* The commit.                                                             *)

\* What execute validated is what the tables hold when it commits, and it
\* has locked every row that it writes.
LEMMA CommitFacts ==
    ASSUME Inv, NEW c \in Change, Commit(c)
    PROVE  /\ snap[c].seat = seat[Want[c].segment]
           /\ snap[c].seats = seats[Want[c].fare]
           /\ snap[c].purse = PurseOf(c)
           /\ Valid(Want[c], snap[c].seat, snap[c].seats, snap[c].purse)
           /\ \A i \in DOMAIN history : history[i].change # c
           /\ <<"segment", Want[c].segment>> \in holds[c]
           /\ <<"fare", Want[c].fare>> \in holds[c]
           /\ <<"fare", snap[c].seat.fare>> \in holds[c]
           /\ Want[c].credit # None => <<"credit", Want[c].credit>> \in holds[c]
           /\ snap[c].seat \in Seat
<1>1. pc[c] = "commit"
  BY ZenonT(30) DEF Commit
<1>2. /\ inTx[c] /\ snap[c].seat \in Seat
      /\ Valid(Want[c], snap[c].seat, snap[c].seats, snap[c].purse)
  BY <1>1, Here, Zenon DEF Shape, Writing, PastFares, PastCredit, PastSegment
<1>3. FaresLeft(c) = {}
  BY <1>1, <1>2, Here, Zenon DEF KeepsRows, Writing, PastFares
<1>4. /\ <<"fare", Want[c].fare>> \in holds[c]
      /\ <<"fare", snap[c].seat.fare>> \in holds[c]
  BY <1>3, Zenon DEF FaresLeft
<1>5. /\ <<"segment", Want[c].segment>> \in holds[c]
      /\ Want[c].credit # None => <<"credit", Want[c].credit>> \in holds[c]
  BY <1>1, <1>2, Here, SMTT(30)
  DEF KeepsRows, Writing, PastFares, PastCredit, PastSegment
<1>6. /\ snap[c].seat = seat[Want[c].segment]
      /\ snap[c].seats = seats[Want[c].fare]
      /\ snap[c].purse = PurseOf(c)
  BY <1>1, <1>2, Here, ZenonT(30)
  DEF StaysFresh, Writing, PastFares, PastCredit, PastSegment
<1>7. \A i \in DOMAIN history : history[i].change # c
  BY <1>1, Here, Zenon DEF NotYet, Ended
<1> QED
  BY <1>2, <1>4, <1>5, <1>6, <1>7, Zenon

\* What Valid says of the seats and of the credit.
LEMMA ValidFacts ==
    ASSUME NEW c \in Change, NEW s, NEW n, NEW p, Valid(Want[c], s, n, p)
    PROVE  /\ n >= Passengers(Want[c].segment)
           /\ Want[c].credit # None => /\ Want[c].amount > 0
                                       /\ p.left >= Want[c].amount
BY Zenon DEF Valid, EnoughSeats, CreditFits

\* The absolute values are those of the guarded updates.
LEMMA CommitWrites ==
    ASSUME Inv, NEW c \in Change, Commit(c)
    PROVE  /\ seats' = Moved(seats, Passengers(Want[c].segment),
                             seat[Want[c].segment].fare, Want[c].fare)
           /\ seat' = [seat EXCEPT ![Want[c].segment] = Changed(Want[c].fare)]
           /\ purse' = IF Want[c].credit = None THEN purse
                       ELSE [purse EXCEPT ![Want[c].credit] =
                                Consumed(@, Want[c].amount)]
           /\ history' = Append(history, FlightChange(c,
                  seat[Want[c].segment].fare, seat[Want[c].segment].paid))
<1>1. Written(c)
  BY Zenon DEF Commit
<1>2. /\ snap[c].seat = seat[Want[c].segment]
      /\ snap[c].seats = seats[Want[c].fare]
      /\ snap[c].purse = PurseOf(c)
      /\ Valid(Want[c], snap[c].seat, snap[c].seats, snap[c].purse)
  BY CommitFacts, Zenon
<1>3. /\ snap[c].seats >= Passengers(Want[c].segment)
      /\ Want[c].credit # None => snap[c].purse.left >= Want[c].amount
  BY <1>2, ValidFacts, Zenon
<1>4. seats' = Moved(seats, Passengers(Want[c].segment),
                     seat[Want[c].segment].fare, Want[c].fare)
  <2>1. [seats EXCEPT ![Want[c].fare] =
             snap[c].seats - Passengers(Want[c].segment)]
        = [seats EXCEPT ![Want[c].fare] =
             IF @ >= Passengers(Want[c].segment)
             THEN @ - Passengers(Want[c].segment) ELSE @]
    BY <1>2, <1>3, Here, Zenon DEF TypeTables
  <2> QED
    BY <1>1, <1>2, <2>1, Zenon DEF Written, WrittenSeats, Moved
<1>5. seat' = [seat EXCEPT ![Want[c].segment] = Changed(Want[c].fare)]
  BY <1>1, Zenon DEF Written
<1>6. history' = Append(history, FlightChange(c,
          seat[Want[c].segment].fare, seat[Want[c].segment].paid))
  BY <1>1, <1>2, Zenon DEF Written
<1>7. CASE Want[c].credit = None
  BY <1>1, <1>4, <1>5, <1>6, <1>7, Zenon DEF Written
<1>8. CASE Want[c].credit # None
  <2>1. purse[Want[c].credit] \in Purse /\ Want[c].amount \in Int
    BY <1>8, Here, RowTypes, WantFacts, ZenonT(30)
  <2>2. snap[c].purse = purse[Want[c].credit]
    BY <1>2, <1>8, Zenon DEF PurseOf
  <2>3. WrittenPurse(c) = Consumed(purse[Want[c].credit], Want[c].amount)
    BY <1>3, <1>8, <2>1, <2>2 DEF WrittenPurse, Consumed, Purse
  <2>4. purse' = [purse EXCEPT ![Want[c].credit] = WrittenPurse(c)]
    BY <1>1, <1>8, Zenon DEF Written
  <2> QED
    BY <1>4, <1>5, <1>6, <1>8, <2>3, <2>4, ZenonT(30)
<1> QED
  BY <1>7, <1>8, Zenon

LEMMA CommitTables ==
    ASSUME Inv, NEW c \in Change, Commit(c)
    PROVE  TypeTables'
<1>1. /\ snap[c].seat = seat[Want[c].segment] /\ snap[c].seat \in Seat
      /\ snap[c].purse = PurseOf(c)
      /\ Valid(Want[c], snap[c].seat, snap[c].seats, snap[c].purse)
  BY CommitFacts, Zenon
<1>2. /\ Want[c].segment \in Segment /\ Want[c].fare \in Fare
      /\ Want[c].credit \in Credit \union {None} /\ Want[c].amount \in Int
      /\ BookingOf(Want[c].segment) \in Reservation
      /\ Passengers(Want[c].segment) \in Nat
  BY WantFacts, Zenon
<1>3. /\ seat[Want[c].segment].fare \in Fare /\ seat[Want[c].segment].paid \in Nat
      /\ FareRow[Want[c].fare].price \in Nat /\ FareRow[Want[c].fare].fee \in Nat
  BY <1>1, <1>2, FareFacts, Zenon DEF Seat
<1>4. TypeTables /\ snap[c] \in Snap
  BY Here, ZenonT(30)
<1>5. seats' \in [Fare -> Nat]
  <2>1. PICK less : less = [seats EXCEPT ![Want[c].fare] =
                                IF @ >= Passengers(Want[c].segment)
                                THEN @ - Passengers(Want[c].segment) ELSE @]
    BY Zenon
  <2>2. less \in [Fare -> Nat]
    BY <1>2, <1>4, <2>1 DEF TypeTables
  <2>3. seats' = [less EXCEPT ![seat[Want[c].segment].fare] =
                      @ + Passengers(Want[c].segment)]
    BY <2>1, CommitWrites, Zenon DEF Moved
  <2> QED
    BY <1>2, <1>3, <2>2, <2>3
<1>6. seat' \in [Segment -> Seat]
  <2>1. seat' = [seat EXCEPT ![Want[c].segment] = Changed(Want[c].fare)]
    BY CommitWrites, ZenonT(30)
  <2>2. Changed(Want[c].fare) \in Seat
    BY <1>2, <1>3, ZenonT(30) DEF Changed, Seat
  <2> QED
    BY <1>2, <1>4, <2>1, <2>2, Zenon DEF TypeTables
<1>7. total' \in [Reservation -> Int]
  <2>1. total' = [total EXCEPT ![BookingOf(Want[c].segment)] =
                      snap[c].total + Added(Want[c], snap[c].seat.paid)]
    BY ZenonT(30) DEF Commit, Written
  <2>2. snap[c].total + Added(Want[c], snap[c].seat.paid) \in Int
    BY <1>1, <1>2, <1>3, <1>4 DEF Added, Difference, Snap
  <2> QED
    BY <1>2, <1>4, <2>1, <2>2, ZenonT(30) DEF TypeTables
<1>8. purse' \in [Credit -> Purse]
  <2>1. CASE Want[c].credit = None
    BY <1>4, <2>1, CommitWrites, Zenon DEF TypeTables
  <2>2. CASE Want[c].credit # None
    <3>1. purse[Want[c].credit] \in Purse
      BY <1>4, <2>2, RowTypes, Zenon
    <3>2. Consumed(purse[Want[c].credit], Want[c].amount) \in Purse
      BY <1>2, <3>1 DEF Consumed, Purse
    <3>3. purse' = [purse EXCEPT ![Want[c].credit] =
                        Consumed(purse[Want[c].credit], Want[c].amount)]
      BY <2>2, CommitWrites, Zenon
    <3> QED
      BY <1>2, <1>4, <2>2, <3>2, <3>3, ZenonT(30) DEF TypeTables
  <2> QED
    BY <2>1, <2>2, Zenon
<1>9. history' \in Seq(Row)
  <2>1. PICK row : row = FlightChange(c, seat[Want[c].segment].fare,
                                      seat[Want[c].segment].paid)
    BY ZenonT(30)
  <2>2. row \in Row
    BY <1>3, <2>1, FlightChangeFacts, Zenon
  <2>3. history' = Append(history, row)
    BY <2>1, CommitWrites, Zenon
  <2> QED
    BY <1>4, <2>2, <2>3 DEF TypeTables
<1> QED
  BY <1>5, <1>6, <1>7, <1>8, <1>9, Zenon DEF TypeTables

\* The commit of c writes no row that another transaction has locked.
LEMMA CommitSpares ==
    ASSUME Inv, NEW c \in Change, Commit(c), NEW d \in Change, d # c
    PROVE  /\ <<"segment", Want[d].segment>> \in holds[d] =>
                  seat'[Want[d].segment] = seat[Want[d].segment]
           /\ <<"fare", Want[d].fare>> \in holds[d] =>
                  seats'[Want[d].fare] = seats[Want[d].fare]
           /\ <<"credit", Want[d].credit>> \in holds[d] =>
                  purse'[Want[d].credit] = purse[Want[d].credit]
<1>1. holds[c] \intersect holds[d] = {}
  BY Zenon DEF Inv, Exclusive
<1>2. /\ <<"segment", Want[c].segment>> \in holds[c]
      /\ <<"fare", Want[c].fare>> \in holds[c]
      /\ <<"fare", seat[Want[c].segment].fare>> \in holds[c]
      /\ Want[c].credit # None => <<"credit", Want[c].credit>> \in holds[c]
  BY CommitFacts, Zenon
<1>3. /\ Want[d].segment \in Segment /\ Want[d].fare \in Fare
      /\ Want[c].fare \in Fare
  BY WantFacts, Zenon
<1>4. TypeTables
  BY Here, Zenon
<1>5. ASSUME <<"segment", Want[d].segment>> \in holds[d]
      PROVE  seat'[Want[d].segment] = seat[Want[d].segment]
  <2>1. Want[d].segment # Want[c].segment
    BY <1>1, <1>2, <1>5, Zenon
  <2> QED
    BY <1>3, <1>4, <2>1, CommitWrites, Zenon DEF TypeTables
<1>6. ASSUME <<"fare", Want[d].fare>> \in holds[d]
      PROVE  seats'[Want[d].fare] = seats[Want[d].fare]
  <2>1. /\ Want[d].fare # Want[c].fare
        /\ Want[d].fare # seat[Want[c].segment].fare
    BY <1>1, <1>2, <1>6, Zenon
  <2>2. Want[d].fare \in DOMAIN seats
    BY <1>3, <1>4, Zenon DEF TypeTables
  <2>3. seats' = Moved(seats, Passengers(Want[c].segment),
                       seat[Want[c].segment].fare, Want[c].fare)
    BY CommitWrites, Zenon
  <2> QED
    BY <2>1, <2>2, <2>3, MovedElsewhere, SMT
<1>7. ASSUME <<"credit", Want[d].credit>> \in holds[d]
      PROVE  purse'[Want[d].credit] = purse[Want[d].credit]
  <2>1. CASE Want[c].credit = None
    BY <2>1, CommitWrites, Zenon
  <2>2. CASE Want[c].credit # None
    <3>1. Want[d].credit # Want[c].credit
      BY <1>1, <1>2, <1>7, <2>2, Zenon
    <3>2. Want[d].credit \in Credit
      <4>1. <<"credit", Want[d].credit>> \in Lockable
        BY <1>7, Here, Zenon
      <4> QED
        BY <4>1, Zenon DEF Lockable
    <3>3. purse' = [purse EXCEPT ![Want[c].credit] =
                        Consumed(purse[Want[c].credit], Want[c].amount)]
      BY <2>2, CommitWrites, Zenon
    <3> QED
      BY <1>4, <3>1, <3>2, <3>3, Zenon DEF TypeTables
  <2> QED
    BY <2>1, <2>2, Zenon
<1> QED
  BY <1>5, <1>6, <1>7, Zenon

LEMMA CommitInv ==
    ASSUME Inv, NEW c \in Change, Commit(c)
    PROVE  Inv'
<1>1. PICK l \in {"verify", "failed"} :
          /\ Goto(c, l)
          /\ faults' \in 0..MaxFaults
  <2>1. CASE Goto(c, "verify") /\ UNCHANGED faults
    BY <2>1, Here, Zenon
  <2>2. CASE faults < MaxFaults /\ faults' = faults + 1 /\ Goto(c, "failed")
    BY <2>2, Here, OrmRebookingAssumption
  <2> QED
    BY <2>1, <2>2, Zenon DEF Commit
<1>2. PICK tx \in BOOLEAN, h \in SUBSET Lockable : tx = FALSE /\ h = {}
  BY Zenon
<1>3. Moves(c, l, tx, seen[c], snap[c], h)
  BY <1>1, <1>2, Here, Stays, Zenon DEF Commit, Moves, Goto
<1>4. TypeWork'
  BY <1>1, <1>3, Here, MoveTypes, Zenon DEF Label, Commit
<1>5. Exclusive'
  BY FewerExclusive, Zenon DEF Commit
<1>6. /\ pc'[c] = l /\ inTx'[c] = FALSE /\ holds'[c] = {}
      /\ \A d \in Change : d # c => /\ pc'[d] = pc[d] /\ inTx'[d] = inTx[d]
                                    /\ seen'[d] = seen[d] /\ snap'[d] = snap[d]
                                    /\ holds'[d] = holds[d]
  <2>1. TypeWork
    BY Here, Zenon
  <2> QED
    BY <1>2, <1>3, <2>1, ZenonT(30) DEF Moves, TypeWork
<1>7. Local(c)'
  <2>1. Shape(c)'
    BY <1>6, Zenon DEF Shape, Writing, PastFares, PastCredit, PastSegment
  <2>2. KeepsRows(c)' /\ StaysFresh(c)'
    BY <1>6, Zenon DEF KeepsRows, StaysFresh
  <2>3. NotYet(c)' /\ Climbs(c)'
    BY <1>6, Zenon DEF NotYet, Ended, Climbs
  <2> QED
    BY <2>1, <2>2, <2>3, Zenon DEF Local
<1>8. ASSUME NEW d \in Change, d # c PROVE Local(d)'
  <2>1. Shape(d) /\ KeepsRows(d) /\ StaysFresh(d) /\ NotYet(d) /\ Climbs(d)
    BY Here, Zenon
  <2>2. /\ pc'[d] = pc[d] /\ inTx'[d] = inTx[d] /\ seen'[d] = seen[d]
        /\ snap'[d] = snap[d] /\ holds'[d] = holds[d]
    BY <1>6, <1>8, Zenon
  <2>3. FaresLeft(d)' = FaresLeft(d)
    BY <2>2, ZenonT(30) DEF FaresLeft
  <2>4. Shape(d)'
    BY <2>1, <2>2, ZenonT(30) DEF Shape
  <2>5. KeepsRows(d)' /\ Climbs(d)'
    BY <2>1, <2>2, <2>3, Zenon DEF KeepsRows, Climbs
  <2>6. NotYet(d)'
    <3>1. PICK row : /\ row = FlightChange(c, seat[Want[c].segment].fare,
                                           seat[Want[c].segment].paid)
                     /\ history' = Append(history, row)
      BY CommitWrites, ZenonT(30)
    <3>2. row.change = c
      BY <3>1, Zenon DEF FlightChange
    <3>3. history \in Seq(Row)
      BY Here, Zenon DEF TypeTables
    <3>4. ASSUME pc[d] \notin Ended
          PROVE  \A i \in DOMAIN history' : history'[i].change # d
      <4>1. \A i \in DOMAIN history : history[i].change # d
        BY <2>1, <3>4, Zenon DEF NotYet
      <4>2. row.change # d
        BY <1>8, <3>2, Zenon
      <4>3. \A i \in DOMAIN Append(history, row) :
                Append(history, row)[i].change # d
        BY <3>3, <4>1, <4>2, OtherRows, Zenon
      <4> QED
        BY <3>1, <4>3, Zenon
    <3> QED
      BY <2>2, <3>4, Zenon DEF NotYet
  <2>7. ASSUME inTx[d], pc[d] \in PastSegment
        PROVE  snap'[d].seat = seat'[Want[d].segment]
    BY <1>8, <2>1, <2>2, <2>7, CommitSpares, Zenon DEF KeepsRows, StaysFresh
  <2>8. ASSUME inTx[d], pc[d] \in PastFares
        PROVE  snap'[d].seats = seats'[Want[d].fare]
               /\ snap'[d].purse = PurseOf(d)'
    <3>1. <<"fare", Want[d].fare>> \in holds[d]
      BY <2>1, <2>8, Zenon DEF KeepsRows, FaresLeft
    <3>2. Want[d].credit # None => <<"credit", Want[d].credit>> \in holds[d]
      BY <2>1, <2>8, ZenonT(30) DEF KeepsRows, PastCredit
    <3>3. snap[d].seats = seats[Want[d].fare] /\ snap[d].purse = PurseOf(d)
      BY <2>1, <2>8, Zenon DEF StaysFresh
    <3> QED
      BY <1>8, <2>2, <3>1, <3>2, <3>3, CommitSpares, Zenon DEF PurseOf
  <2>9. StaysFresh(d)'
    BY <2>2, <2>7, <2>8, Zenon DEF StaysFresh
  <2> QED
    BY <2>4, <2>5, <2>6, <2>9, Zenon DEF Local
<1> QED
  BY <1>4, <1>5, <1>7, <1>8, CommitTables, Zenon DEF Inv

-----------------------------------------------------------------------------
(* The invariant, and the types.                                           *)

LEMMA InitInv == Init => Inv
<1> SUFFICES ASSUME Init PROVE Inv
  BY Zenon
<1>1. TypeTables
  BY RebookingRulesAssumption DEF Init, TypeTables, Seat, Purse
<1>2. NoSnap \in Snap
  BY SMTT(30) DEF NoSnap, Snap, NoPurse, Purse
<1>3. TypeWork
  BY <1>2, OrmRebookingAssumption, SMTT(30) DEF Init, TypeWork, Label
<1>4. Exclusive
  BY Zenon DEF Init, Exclusive
<1>5. ASSUME NEW c \in Change PROVE Local(c)
  <2>1. /\ pc[c] = "check" /\ inTx[c] = FALSE /\ holds[c] = {}
        /\ history = <<>>
    BY Zenon DEF Init
  <2>2. Shape(c)
    BY <2>1, ZenonT(30) DEF Shape, Writing, PastFares, PastCredit, PastSegment
  <2>3. KeepsRows(c) /\ StaysFresh(c) /\ NotYet(c) /\ Climbs(c)
    BY <2>1 DEF KeepsRows, StaysFresh, NotYet, Climbs
  <2> QED
    BY <2>2, <2>3, Zenon DEF Local
<1> QED
  BY <1>1, <1>3, <1>4, <1>5, Zenon DEF Inv

LEMMA NextInv == Inv /\ [Next]_vars => Inv'
<1> SUFFICES ASSUME Inv, [Next]_vars PROVE Inv'
  BY Zenon
<1>1. ASSUME NEW c \in Change, Step(c) PROVE Inv'
  BY <1>1, QueryInv, SelectSegmentInv, SelectTargetInv, GetCreditInv,
     LockFareInv, SnapshotAgainInv, ValidateInv, GetReservationInv, FlushInv,
     CommitInv, VerifyInv, Zenon DEF Step
<1>2. ASSUME NEW c \in Change, Fault(c) PROVE Inv'
  BY <1>2, FaultInv, Zenon
<1>3. ASSUME NEW k \in Credit, CreditExpires(k) PROVE Inv'
  <2>1. expired' \in SUBSET Credit
    BY <1>3, Zenon DEF CreditExpires, Inv, TypeWork
  <2> QED
    BY <1>3, <2>1, IdleInv, Zenon DEF CreditExpires
<1>4. CASE UNCHANGED vars
  <2>1. expired' \in SUBSET Credit
    BY <1>4, Zenon DEF vars, Inv, TypeWork
  <2> QED
    BY <1>4, <2>1, IdleInv, Zenon DEF vars
<1> QED
  BY <1>1, <1>2, <1>3, <1>4, Zenon DEF Next

LEMMA AlwaysInv == Spec => []Inv
BY InitInv, NextInv, PTL DEF Spec

\* get_snapshot, execute and verify keep every variable in its type: execute
\* never oversells a fare and never overdraws a credit, whatever the
\* selections of the others, although it writes both as absolute values.
THEOREM OrmTypes == Spec => []TypeOK
<1>1. Inv => TypeOK
  BY Zenon DEF Inv, TypeTables, TypeWork, TypeOK, Snap
<1> QED
  BY <1>1, AlwaysInv, PTL

-----------------------------------------------------------------------------
(* No ring.                                                                *)

\* The order in which all transactions lock: segments, credits, fares by
\* key, reservations.
Place(row) == CASE row[1] = "segment" -> 0
                [] row[1] = "credit"  -> 1
                [] row[1] = "fare"    -> 2
                [] OTHER              -> 3

After(a, b) == \/ Place(a) > Place(b)
               \/ /\ Place(a) = Place(b)
                  /\ a[1] = "fare" /\ b[1] = "fare"
                  /\ KeyOf[a[2]] > KeyOf[b[2]]

LEMMA PlaceType == \A row : Place(row) \in 0..3
BY DEF Place

LEMMA AfterStrict ==
    \A a \in Lockable : ~After(a, a)
<1> SUFFICES ASSUME NEW a \in Lockable, After(a, a) PROVE FALSE
  BY Zenon
<1>1. a[1] = "fare" /\ KeyOf[a[2]] > KeyOf[a[2]]
  BY PlaceType DEF After
<1>2. a[2] \in Fare
  BY <1>1, Zenon DEF Lockable
<1>3. KeyOf[a[2]] \in Nat
  BY <1>2, OrmRebookingAssumption, Zenon
<1> QED
  BY <1>1, <1>3

LEMMA AfterTransitive ==
    \A a, b, d \in Lockable : After(a, b) /\ After(b, d) => After(a, d)
<1> SUFFICES ASSUME NEW a \in Lockable, NEW b \in Lockable, NEW d \in Lockable,
                    After(a, b), After(b, d)
             PROVE  After(a, d)
  BY Zenon
<1>1. Place(a) \in 0..3 /\ Place(b) \in 0..3 /\ Place(d) \in 0..3
  BY PlaceType, Zenon
<1>2. \A row \in Lockable : row[1] = "fare" => KeyOf[row[2]] \in Nat
  <2>1. \A row \in Lockable : row[1] = "fare" => row[2] \in Fare
    BY ZenonT(30) DEF Lockable
  <2> QED
    BY <2>1, OrmRebookingAssumption, Zenon
<1> QED
  BY <1>1, <1>2 DEF After

\* What a selection wants comes after all that it holds.
LEMMA WantsAfter ==
    ASSUME Inv, NEW c \in Change, Wanted(c) # None, NEW row \in holds[c]
    PROVE  After(Wanted(c), row)
<1>1. row \in Lockable /\ Climbs(c) /\ KeepsRows(c)
  BY Here, ZenonT(30)
<1>2. CASE pc[c] = "segment"
  BY <1>1, <1>2, Zenon DEF Climbs
<1>3. CASE pc[c] = "credit"
  <2>1. Wanted(c) = <<"credit", Want[c].credit>> /\ row[1] = "segment"
    BY <1>1, <1>3, WantedCases, Zenon DEF Climbs
  <2> QED
    BY <2>1 DEF After, Place
<1>4. CASE pc[c] = "fares"
  <2>1. FaresLeft(c) # {} /\ Wanted(c) = <<"fare", NextFare(c)>>
    BY <1>4, WantedCases, Zenon
  <2>2. NextFare(c) \in FaresLeft(c)
    BY <1>4, <2>1, NextFareFacts, Zenon
  <2>3. \/ row[1] \in {"segment", "credit"}
        \/ row[1] = "fare" /\ KeyOf[NextFare(c)] > KeyOf[row[2]]
    BY <1>1, <1>4, <2>2, Zenon DEF Climbs
  <2> QED
    BY <2>1, <2>3 DEF After, Place
<1>5. CASE pc[c] = "flush"
  <2>1. Wanted(c)[1] = "reservation" /\ row[1] # "reservation"
    BY <1>1, <1>5, WantedCases DEF Climbs, PastFares, Writing
  <2>2. row[1] \in {"segment", "credit", "fare"}
    BY <1>1, <2>1, Zenon DEF Lockable
  <2> QED
    BY <2>1, <2>2 DEF After, Place
<1> QED
  BY <1>2, <1>3, <1>4, <1>5, WantedCases, ZenonT(30)

-----------------------------------------------------------------------------
(* The ledger that this module is compared with, and what is proved of it. *)

LP == INSTANCE RebookingLedgerProofs WITH total <- TotalByHistory

LEMMA SameFinite == \A S : LP!IsFiniteSet(S) <=> IsFiniteSet(S)
BY Zenon DEF LP!IsFiniteSet, IsFiniteSet

LEMMA LedgerAssumption == LP!RebookingRulesAssumption
BY RebookingRulesAssumption, SameFinite, Zenon

\* Among sets of subsets of a finite set there is a smallest one.
LEMMA SubsetMin ==
    ASSUME NEW S, IsFiniteSet(S), NEW Some \in SUBSET SUBSET S, Some # {}
    PROVE  \E s \in Some : \A t \in Some : t \subseteq s => t = s
<1>1. LP!IsFiniteSet(S)
  BY SameFinite, Zenon
<1> QED
  BY <1>1, LedgerAssumption, LP!SubsetMin

LEMMA InvNoRing == Inv => NoLockRing
<1> SUFFICES ASSUME Inv, NEW ring \in SUBSET Change, ring # {},
                    \A d \in ring : Blockers(d) \intersect ring # {}
             PROVE  FALSE
  BY ZenonT(30) DEF NoLockRing
<1> DEFINE Up(d) == {e \in ring : After(Wanted(e), Wanted(d))}
           Ups == {Up(d) : d \in ring}
<1>1. \A d \in ring : \E e \in ring : Wanted(d) \in holds[e]
  BY Zenon DEF Blockers
<1>2. \A d \in ring : Wanted(d) \in Lockable /\ Wanted(d) # None
  <2>1. \A e \in ring : holds[e] \in SUBSET Lockable
    BY Here, Zenon
  <2> QED
    BY <1>1, <2>1, NoneIsNoRow, ZenonT(30)
<1>3. \A d \in ring : \E e \in ring : After(Wanted(e), Wanted(d))
  <2>1. \A e \in ring : \A row \in holds[e] : After(Wanted(e), row)
    BY <1>2, WantsAfter, Zenon
  <2> QED
    BY <1>1, <2>1, Zenon
<1>4. PICK up \in Ups : \A more \in Ups : more \subseteq up => more = up
  <2>1. Ups \in SUBSET SUBSET Change /\ Ups # {}
    BY Zenon
  <2>2. IsFiniteSet(Change)
    BY RebookingRulesAssumption, Zenon
  <2> HIDE DEF Ups
  <2> QED
    BY <2>1, <2>2, SubsetMin
<1>5. PICK d \in ring : up = Up(d)
  BY Zenon
<1>6. PICK e \in ring : After(Wanted(e), Wanted(d))
  BY <1>3, Zenon
<1>7. Up(e) \subseteq Up(d)
  BY <1>2, <1>6, AfterTransitive, Zenon
<1>8. Up(e) = Up(d)
  BY <1>4, <1>5, <1>7, Zenon
<1>9. After(Wanted(e), Wanted(e))
  BY <1>6, <1>8, Zenon
<1> QED
  BY <1>2, <1>9, AfterStrict, Zenon

\* Two sessions that run execute never wait for each other in a ring, however
\* many there are: _lock_fares sorts the keys, and every session locks the
\* segment, the credit, the fares and the reservation in this order.
THEOREM OrmNeverDeadlocks == Spec => []NoLockRing
BY AlwaysInv, InvNoRing, PTL

-----------------------------------------------------------------------------
(* The commits are the rebookings of the ledger.                           *)

LEMMA SameSums == \A rows, r : LP!Charged(rows, r) = Charged(rows, r)
BY Zenon DEF LP!Charged, Charged, LP!SumFunctionOnSet, SumFunctionOnSet,
       LP!FoldFunctionOnSet, FoldFunctionOnSet, LP!MapThenFoldSet,
       MapThenFoldSet, LP!BookingOf, BookingOf

LEMMA SameRow == LP!Row = Row /\ \A s : LP!BookingOf(s) = BookingOf(s)
BY Zenon DEF LP!Row, Row, LP!BookingOf, BookingOf

LEMMA ChargedAdd ==
    ASSUME NEW rows \in Seq(Row), NEW row \in Row, NEW r
    PROVE  Charged(Append(rows, row), r) =
               IF BookingOf(row.segment) = r
               THEN Charged(rows, r) + (row.difference + row.fee - row.used)
               ELSE Charged(rows, r)
<1>1. LP!Charged(Append(rows, row), r) =
          IF LP!BookingOf(row.segment) = r
          THEN LP!Charged(rows, r) + (row.difference + row.fee - row.used)
          ELSE LP!Charged(rows, r)
  BY LP!ChargedAdd, SameRow, LedgerAssumption
<1> QED
  BY <1>1, SameSums, SameRow, ZenonT(30)

LEMMA ChargedNone ==
    ASSUME NEW rows, DOMAIN rows = {}, NEW r
    PROVE  Charged(rows, r) = 0
<1>1. LP!Charged(rows, r) = 0
  BY LP!NoRows, LedgerAssumption, Zenon
<1> QED
  BY <1>1, SameSums, ZenonT(30)

LEMMA SameRules ==
    /\ \A s : Ledger!BookingOf(s) = BookingOf(s)
    /\ \A s : Ledger!Passengers(s) = Passengers(s)
    /\ \A f : Ledger!Changed(f) = Changed(f)
    /\ \A w, p : Ledger!Added(w, p) = Added(w, p)
    /\ \A p, n : Ledger!Consumed(p, n) = Consumed(p, n)
    /\ \A w, s, n, p : Ledger!Valid(w, s, n, p) <=> Valid(w, s, n, p)
    /\ \A a, n, o, w : Ledger!Moved(a, n, o, w) = Moved(a, n, o, w)
    /\ \A c, o, p : Ledger!FlightChange(c, o, p) = FlightChange(c, o, p)
<1>1. \A s : Ledger!BookingOf(s) = BookingOf(s)
  BY Zenon DEF Ledger!BookingOf, BookingOf
<1>2. \A s : Ledger!Passengers(s) = Passengers(s)
  BY <1>1, Zenon DEF Ledger!Passengers, Passengers
<1>3. \A s : Ledger!Owner(s) = Owner(s)
  BY <1>1, Zenon DEF Ledger!Owner, Owner
<1>4. \A f : Ledger!RouteOf(f) = RouteOf(f)
  BY Zenon DEF Ledger!RouteOf, RouteOf
<1>5. \A f, p : Ledger!Difference(f, p) = Difference(f, p)
  BY Zenon DEF Ledger!Difference, Difference
<1>6. \A f, p : Ledger!AmountDue(f, p) = AmountDue(f, p)
  BY <1>5, Zenon DEF Ledger!AmountDue, AmountDue
<1>7. \A w, n : Ledger!EnoughSeats(w, n) <=> EnoughSeats(w, n)
  BY <1>2, Zenon DEF Ledger!EnoughSeats, EnoughSeats
<1>8. \A w, p : Ledger!CreditFits(w, p) <=> CreditFits(w, p)
  BY <1>3, Zenon DEF Ledger!CreditFits, CreditFits
<1>9. \A w, p : Ledger!PaysExactly(w, p) <=> PaysExactly(w, p)
  BY <1>6, Zenon DEF Ledger!PaysExactly, PaysExactly
<1>10. \A w, s, n, p : Ledger!Valid(w, s, n, p) <=> Valid(w, s, n, p)
  <2> TAKE w, s, n, p
  <2>1. /\ Ledger!BookingOf(w.segment) = BookingOf(w.segment)
        /\ Ledger!RouteOf(s.fare) = RouteOf(s.fare)
        /\ Ledger!RouteOf(w.fare) = RouteOf(w.fare)
    BY <1>1, <1>4, Zenon
  <2>2. /\ Ledger!EnoughSeats(w, n) <=> EnoughSeats(w, n)
        /\ Ledger!CreditFits(w, p) <=> CreditFits(w, p)
        /\ Ledger!PaysExactly(w, s.paid) <=> PaysExactly(w, s.paid)
    BY <1>7, <1>8, <1>9, ZenonT(30)
  <2> QED
    BY <2>1, <2>2, Zenon DEF Ledger!Valid, Valid
<1>11. \A f : Ledger!Changed(f) = Changed(f)
  BY Zenon DEF Ledger!Changed, Changed
<1>12. \A w, p : Ledger!Added(w, p) = Added(w, p)
  BY <1>5, Zenon DEF Ledger!Added, Added
<1>13. \A p, n : Ledger!Consumed(p, n) = Consumed(p, n)
  BY Zenon DEF Ledger!Consumed, Consumed
<1>14. \A a, n, o, w : Ledger!Moved(a, n, o, w) = Moved(a, n, o, w)
  BY Zenon DEF Ledger!Moved, Moved
<1>15. \A c, o, p : Ledger!FlightChange(c, o, p) = FlightChange(c, o, p)
  BY <1>5, Zenon DEF Ledger!FlightChange, FlightChange
<1> QED
  BY <1>1, <1>2, <1>10, <1>11, <1>12, <1>13, <1>14, <1>15, ZenonT(30)

\* The rows of flight_changes charge what the ledger adds to the total.
LEMMA CommitTotal ==
    ASSUME Inv, NEW c \in Change, Commit(c)
    PROVE  TotalByHistory' =
               [TotalByHistory EXCEPT ![BookingOf(Want[c].segment)] =
                    @ + Added(Want[c], seat[Want[c].segment].paid)]
<1>1. PICK rows, more, row :
          /\ rows = history /\ more = history'
          /\ row = FlightChange(c, seat[Want[c].segment].fare,
                                seat[Want[c].segment].paid)
  BY ZenonT(30)
<1>2. more = Append(rows, row)
  BY <1>1, CommitWrites, Zenon
<1>3. /\ Want[c].segment \in Segment /\ Want[c].fare \in Fare
      /\ Want[c].amount \in Int /\ BookingOf(Want[c].segment) \in Reservation
      /\ FareRow[Want[c].fare].price \in Nat /\ FareRow[Want[c].fare].fee \in Nat
      /\ seat[Want[c].segment].fare \in Fare /\ seat[Want[c].segment].paid \in Nat
  <2>1. seat[Want[c].segment] \in Seat
    BY Here, RowTypes, Zenon
  <2> QED
    BY <2>1, WantFacts, FareFacts, ZenonT(30) DEF Seat
<1>4. rows \in Seq(Row)
  BY <1>1, Here, Zenon DEF TypeTables
<1>5. row \in Row
  BY <1>1, <1>3, FlightChangeFacts, ZenonT(30)
<1>6. row.difference + row.fee - row.used
          = Added(Want[c], seat[Want[c].segment].paid)
  BY <1>1, <1>3, ZenonT(30) DEF FlightChange, Added, Difference
<1>7. row.segment = Want[c].segment
  BY <1>1, SMTT(30) DEF FlightChange
<1>8. \A r \in Reservation :
          Charged(more, r) =
              IF r = BookingOf(Want[c].segment)
              THEN Charged(rows, r) + Added(Want[c], seat[Want[c].segment].paid)
              ELSE Charged(rows, r)
  <2> TAKE r \in Reservation
  <2>1. Charged(Append(rows, row), r) =
            IF BookingOf(row.segment) = r
            THEN Charged(rows, r) + (row.difference + row.fee - row.used)
            ELSE Charged(rows, r)
    BY <1>4, <1>5, ChargedAdd, ZenonT(30)
  <2> QED
    BY <1>2, <1>6, <1>7, <2>1, ZenonT(30)
<1>9. /\ TotalByHistory = [r \in Reservation |-> Charged(rows, r)]
      /\ TotalByHistory' = [r \in Reservation |-> Charged(more, r)]
  BY <1>1, Zenon DEF TotalByHistory
<1> QED
  BY <1>3, <1>8, <1>9, ZenonT(30)

LEMMA CommitRebooks ==
    ASSUME Inv, NEW c \in Change, Commit(c)
    PROVE  Ledger!Rebook(c)
<1> DEFINE mine == seat[Want[c].segment]
<1>1. /\ Valid(Want[c], mine, seats[Want[c].fare], PurseOf(c))
      /\ \A i \in DOMAIN history : history[i].change # c
  BY CommitFacts, Zenon
<1>2. Ledger!PurseOf(Want[c]) = PurseOf(c)
  BY Zenon DEF Ledger!PurseOf, PurseOf, Ledger!NoPurse, NoPurse
<1>3. Ledger!Valid(Want[c], mine, seats[Want[c].fare], Ledger!PurseOf(Want[c]))
  BY <1>1, <1>2, SameRules, ZenonT(30)
<1>4. seats' = Ledger!Moved(seats, Ledger!Passengers(Want[c].segment),
                            mine.fare, Want[c].fare)
  BY CommitWrites, SameRules, ZenonT(30)
<1>5. seat' = [seat EXCEPT ![Want[c].segment] = Ledger!Changed(Want[c].fare)]
  BY CommitWrites, SameRules, Zenon
<1>6. TotalByHistory' =
          [TotalByHistory EXCEPT ![Ledger!BookingOf(Want[c].segment)] =
               @ + Ledger!Added(Want[c], mine.paid)]
  BY CommitTotal, SameRules, Zenon
<1>7. purse' = IF Want[c].credit = None THEN purse
               ELSE [purse EXCEPT ![Want[c].credit] =
                        Ledger!Consumed(@, Want[c].amount)]
  BY CommitWrites, SameRules, ZenonT(30)
<1>8. history' = Append(history, Ledger!FlightChange(c, mine.fare, mine.paid))
  BY CommitWrites, SameRules, Zenon
<1>9. Ledger!Written(c, mine.fare, mine.paid)
  BY <1>4, <1>5, <1>6, <1>7, <1>8, ZenonT(30) DEF Ledger!Written
<1> QED
  BY <1>1, <1>3, <1>9, ZenonT(30) DEF Ledger!Rebook

LEMMA InitRebooks == Init => Ledger!LedgerInit
<1> SUFFICES ASSUME Init PROVE Ledger!LedgerInit
  BY Zenon
<1>1. DOMAIN history = {}
  BY DEF Init
<1>2. TotalByHistory = [r \in Reservation |-> 0]
  BY <1>1, ChargedNone, Zenon DEF TotalByHistory
<1> QED
  BY <1>2, ZenonT(30) DEF Init, Ledger!LedgerInit

LEMMA NextRebooks ==
    Inv /\ [Next]_vars => [Ledger!LedgerNext]_(Ledger!ledger)
<1> SUFFICES ASSUME Inv, [Next]_vars
             PROVE  Ledger!LedgerNext \/ UNCHANGED Ledger!ledger
  BY Zenon
<1>1. ASSUME NEW c \in Change, Commit(c) PROVE Ledger!LedgerNext
  BY <1>1, CommitRebooks, Zenon DEF Ledger!LedgerNext
<1>2. CASE UNCHANGED tables
  <2>1. /\ seats' = seats /\ seat' = seat /\ purse' = purse
        /\ history' = history
    BY <1>2, Zenon DEF tables
  <2>2. TotalByHistory' = TotalByHistory
    BY <2>1, Zenon DEF TotalByHistory
  <2> QED
    BY <2>1, <2>2, Zenon DEF Ledger!ledger
<1>3. UNCHANGED tables \/ \E c \in Change : Commit(c)
  <2>1. ASSUME NEW c \in Change, Step(c) PROVE UNCHANGED tables \/ Commit(c)
    BY <2>1, Zenon
    DEF Step, Query, SelectSegment, SelectTarget, GetCredit, LockFare,
       SnapshotAgain, Validate, GetReservation, Flush, Verify
  <2> QED
    BY <2>1, Zenon DEF Next, Fault, CreditExpires, vars
<1> QED
  BY <1>1, <1>2, <1>3, ZenonT(30)

\* execute, seen at its commits, is the ledger for the seats, the segments,
\* the credits and the history, whatever the interleaving of the sessions:
\* the locks keep the second snapshot true until the commit.
THEOREM OrmImplementsLedger == Spec => RebooksLikeLedger
<1>1. Inv /\ [Next]_vars => [Ledger!LedgerNext]_(Ledger!ledger)
  BY NextRebooks, Zenon
<1> QED
  BY <1>1, InitRebooks, AlwaysInv, PTL
  DEF Spec, RebooksLikeLedger, Ledger!LedgerSpec

-----------------------------------------------------------------------------
(* What is proved of the ledger holds of the tables.                       *)

LEMMA SameLedger ==
    /\ Ledger!LedgerInit => LP!LedgerInit
    /\ Ledger!LedgerNext => LP!LedgerNext
    /\ UNCHANGED Ledger!ledger => UNCHANGED LP!ledger
<1>1. Ledger!LedgerInit => LP!LedgerInit
  BY Zenon DEF LP!LedgerInit, Ledger!LedgerInit
<1>2. UNCHANGED Ledger!ledger => UNCHANGED LP!ledger
  BY Zenon DEF LP!ledger, Ledger!ledger
<1>3. Ledger!LedgerNext => LP!LedgerNext
  BY Zenon DEF LP!LedgerNext, Ledger!LedgerNext, LP!Rebook, Ledger!Rebook,
         LP!Written, Ledger!Written, LP!Valid, Ledger!Valid, LP!BookingOf,
         Ledger!BookingOf, LP!RouteOf, Ledger!RouteOf, LP!EnoughSeats,
         Ledger!EnoughSeats, LP!CreditFits, Ledger!CreditFits,
         LP!PaysExactly, Ledger!PaysExactly, LP!Owner, Ledger!Owner,
         LP!AmountDue, Ledger!AmountDue, LP!Difference, Ledger!Difference,
         LP!Passengers, Ledger!Passengers, LP!PurseOf, Ledger!PurseOf,
         LP!NoPurse, Ledger!NoPurse, LP!Moved, Ledger!Moved, LP!Changed,
         Ledger!Changed, LP!Added, Ledger!Added, LP!Consumed,
         Ledger!Consumed, LP!FlightChange, Ledger!FlightChange
<1> QED
  BY <1>1, <1>2, <1>3, ZenonT(30)

LEMMA LedgerOfSpec == Spec => LP!LedgerSpec
<1>1. [Ledger!LedgerNext]_(Ledger!ledger) => [LP!LedgerNext]_(LP!ledger)
  BY SameLedger, Zenon
<1>2. Ledger!LedgerInit => LP!LedgerInit
  BY SameLedger, Zenon
<1> QED
  BY <1>1, <1>2, OrmImplementsLedger, PTL
  DEF RebooksLikeLedger, Ledger!LedgerSpec, LP!LedgerSpec

\* The seats that execute of the SQLAlchemy access takes and gives back
\* cancel out, for any number of sessions at once.
THEOREM OrmKeepsSeats == Spec => []Ledger!SeatsConserved
<1>1. LP!SeatsConserved => Ledger!SeatsConserved
  BY Zenon DEF LP!SeatsConserved, Ledger!SeatsConserved, LP!SumFunctionOnSet,
         Ledger!SumFunctionOnSet, LP!FoldFunctionOnSet,
         Ledger!FoldFunctionOnSet, LP!MapThenFoldSet, Ledger!MapThenFoldSet,
         LP!Passengers, Ledger!Passengers, LP!BookingOf, Ledger!BookingOf
<1>2. LP!LedgerSpec => []LP!SeatsConserved
  BY LP!LedgerKeepsSeats, LedgerAssumption, ZenonT(30)
<1> QED
  BY <1>1, <1>2, LedgerOfSpec, PTL

\* No session overwrites the change of another unseen: the rows that execute
\* of the SQLAlchemy access inserts for a segment form a chain that ends at
\* the fare where the segment is seated.
THEOREM OrmChains == Spec => []Ledger!HistoryIsAChain
<1>1. LP!HistoryIsAChain => Ledger!HistoryIsAChain
  BY ZenonT(30) DEF LP!HistoryIsAChain, Ledger!HistoryIsAChain, LP!Max, Ledger!Max
<1>2. LP!LedgerSpec => []LP!HistoryIsAChain
  BY LP!LedgerChains, LedgerAssumption, ZenonT(30)
<1> QED
  BY <1>1, <1>2, LedgerOfSpec, PTL

\* The price paid for a segment and what is left of a credit are what the rows
\* of flight_changes say.  The total of the ledger is their sum by definition
\* here; total_amount itself may lose a change, see TotalsBalance.
THEOREM OrmBalances == Spec => []Ledger!BooksBalance
<1>1. LP!BooksBalance => Ledger!BooksBalance
  BY Zenon DEF LP!BooksBalance, Ledger!BooksBalance, LP!Differences,
         Ledger!Differences, LP!Charged, Ledger!Charged, LP!Spent,
         Ledger!Spent, LP!SumFunctionOnSet, Ledger!SumFunctionOnSet,
         LP!FoldFunctionOnSet, Ledger!FoldFunctionOnSet, LP!MapThenFoldSet,
         Ledger!MapThenFoldSet, LP!BookingOf, Ledger!BookingOf
<1>2. LP!LedgerSpec => []LP!BooksBalance
  BY LP!LedgerBalances, LedgerAssumption, Zenon
<1> QED
  BY <1>1, <1>2, LedgerOfSpec, PTL

=============================================================================
