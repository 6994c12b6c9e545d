------------------------ MODULE RebookingLedgerProofs ------------------------
(***************************************************************************)
(* Proofs about the ledger of rebookings, for any selections, fares,        *)
(* segments and credits: the seats are conserved, the books balance and the *)
(* history of every segment is a chain.  A data access that implements the  *)
(* ledger has all three.                                                    *)
(***************************************************************************)
EXTENDS RebookingLedger, FiniteSetTheorems, TLAPS

-----------------------------------------------------------------------------
(* Types.                                                                  *)

TypeLedger == /\ seats \in [Fare -> Nat]
              /\ seat \in [Segment -> Seat]
              /\ total \in [Reservation -> Int]
              /\ purse \in [Credit -> Purse]
              /\ history \in Seq(Row)

\* The selection and the rows it is about.
LEMMA WantFacts ==
    ASSUME NEW c \in Change
    PROVE  /\ Want[c].segment \in Segment /\ Want[c].fare \in Fare
           /\ Want[c].credit \in Credit \union {None} /\ Want[c].amount \in Int
           /\ BookingOf(Want[c].segment) \in Reservation
           /\ Passengers(Want[c].segment) \in Nat
BY RebookingRulesAssumption, Zenon DEF BookingOf, Passengers

LEMMA FareFacts ==
    ASSUME NEW f \in Fare
    PROVE  /\ FareRow[f].flight \in Flight /\ FareRow[f].price \in Nat
           /\ FareRow[f].fee \in Nat
BY RebookingRulesAssumption, Zenon

\* The six writes keep the tables in their types, by the conditions of the
\* two guarded UPDATE statements alone.
LEMMA WrittenType ==
    ASSUME TypeLedger, NEW c \in Change, NEW old \in Fare, NEW paid \in Nat,
           Written(c, old, paid)
    PROVE  TypeLedger'
<1> DEFINE want == Want[c]
           s == want.segment
           n == Passengers(s)
<1>1. /\ s \in Segment /\ want.fare \in Fare /\ want.amount \in Int
      /\ want.credit \in Credit \union {None} /\ n \in Nat
      /\ BookingOf(s) \in Reservation
  BY WantFacts, Zenon
<1>2. FareRow[want.fare].price \in Nat /\ FareRow[want.fare].fee \in Nat
  BY <1>1, FareFacts, Zenon
<1>3. seats' \in [Fare -> Nat]
  <2> DEFINE less == [seats EXCEPT ![want.fare] =
                        IF seats[want.fare] >= n THEN seats[want.fare] - n
                        ELSE seats[want.fare]]
  <2>1. seats' = [less EXCEPT ![old] = less[old] + n]
    BY Zenon DEF Written, Moved
  <2>2. less \in [Fare -> Nat]
    BY <1>1 DEF TypeLedger
  <2> HIDE DEF less
  <2> QED
    BY <1>1, <2>1, <2>2
<1>4. seat' \in [Segment -> Seat]
  <2>1. Changed(want.fare) \in Seat
    BY <1>1, <1>2, Zenon DEF Changed, Seat
  <2> QED
    BY <1>1, <2>1, Zenon DEF Written, TypeLedger
<1>5. total' \in [Reservation -> Int]
  <2>1. Added(want, paid) \in Int
    BY <1>1, <1>2 DEF Added, Difference
  <2>2. total' = [total EXCEPT ![BookingOf(s)] =
                      total[BookingOf(s)] + Added(want, paid)]
    BY Zenon DEF Written
  <2> QED
    BY <1>1, <2>1, <2>2 DEF TypeLedger
<1>6. purse' \in [Credit -> Purse]
  <2>1. CASE want.credit = None
    BY <2>1, Zenon DEF Written, TypeLedger
  <2>2. CASE want.credit # None
    <3>1. purse' = [purse EXCEPT ![want.credit] =
                        Consumed(purse[want.credit], want.amount)]
      BY <2>2, Zenon DEF Written
    <3>2. purse[want.credit] \in Purse
      BY <1>1, <2>2, Zenon DEF TypeLedger
    <3>3. Consumed(purse[want.credit], want.amount) \in Purse
      BY <1>1, <3>2 DEF Consumed, Purse
    <3> QED
      BY <3>1, <3>3, Zenon DEF TypeLedger
  <2> QED
    BY <2>1, <2>2, Zenon
<1>7. history' \in Seq(Row)
  <2>1. FlightChange(c, old, paid) \in Row
    BY <1>1, <1>2 DEF FlightChange, Difference, Row
  <2>2. history' = Append(history, FlightChange(c, old, paid))
    BY Zenon DEF Written
  <2> QED
    BY <2>1, <2>2 DEF TypeLedger
<1> QED
  BY <1>3, <1>4, <1>5, <1>6, <1>7, Zenon DEF TypeLedger

LEMMA InitTypeLedger == ASSUME LedgerInit PROVE TypeLedger
<1>1. \A s \in Segment :
          [fare |-> Fare0[s], status |-> "CONFIRMED",
           paid |-> FareRow[Fare0[s]].price] \in Seat
  BY RebookingRulesAssumption, Zenon DEF Seat
<1>2. \A k \in Credit :
          [left |-> CreditRow[k].amount, status |-> "AVAILABLE"] \in Purse
  BY RebookingRulesAssumption, Zenon DEF Purse
<1>3. seats \in [Fare -> Nat] /\ seat \in [Segment -> Seat]
      /\ purse \in [Credit -> Purse]
  BY <1>1, <1>2, RebookingRulesAssumption, Zenon DEF LedgerInit
<1> QED
  BY <1>3 DEF LedgerInit, TypeLedger

LEMMA NextTypeLedger == ASSUME TypeLedger, [LedgerNext]_ledger PROVE TypeLedger'
<1>1. ASSUME NEW c \in Change, Rebook(c) PROVE TypeLedger'
  <2>1. seat[Want[c].segment] \in Seat
    BY WantFacts, Zenon DEF TypeLedger
  <2>2. PICK old, paid : /\ old = seat[Want[c].segment].fare
                         /\ paid = seat[Want[c].segment].paid
    BY Zenon
  <2>3. old \in Fare /\ paid \in Nat
    BY <2>1, <2>2, Zenon DEF Seat
  <2>4. Written(c, old, paid)
    BY <1>1, <2>2, Zenon DEF Rebook
  <2> QED
    BY <2>3, <2>4, WrittenType, Zenon
<1>2. CASE UNCHANGED ledger
  BY <1>2, Zenon DEF ledger, TypeLedger
<1> QED
  BY <1>1, <1>2, Zenon DEF LedgerNext

-----------------------------------------------------------------------------
(* Sums over finite sets.  The library's induction takes an operator as a   *)
(* parameter; a minimal counterexample among the subsets of a finite set    *)
(* does the same work.                                                     *)

Pick(s) == CHOOSE x \in s : TRUE

Iter(f, S) ==
    LET iter[s \in SUBSET S] ==
            IF s = {} THEN 0
            ELSE LET x == CHOOSE x \in s : TRUE IN f[x] + iter[s \ {x}]
    IN iter

Unfolds(f, S, g) ==
    g = [s \in SUBSET S |->
            IF s = {} THEN 0 ELSE f[Pick(s)] + g[s \ {Pick(s)}]]

LEMMA PickFacts == ASSUME NEW s, s # {} PROVE Pick(s) \in s
BY Zenon DEF Pick

LEMMA SubsetMin ==
    ASSUME NEW S, IsFiniteSet(S), NEW Bad \in SUBSET SUBSET S, Bad # {}
    PROVE  \E s \in Bad : \A t \in Bad : t \subseteq s => t = s
<1>1. IsWellFoundedOn(StrictSubsetOrdering(S), FiniteSubsetsOf(S))
  BY FS_StrictSubsetOrderingWellFounded, Zenon
<1>2. Bad \subseteq FiniteSubsetsOf(S)
  BY FS_Subset, Zenon DEF FiniteSubsetsOf
<1>3. PICK s \in Bad : \A t \in Bad : ~(<<t, s>> \in StrictSubsetOrdering(S))
  BY <1>1, <1>2, WFMin, Zenon
<1>4. \A t \in Bad : t \subseteq s /\ t # s =>
          <<t, s>> \in StrictSubsetOrdering(S)
  BY Zenon DEF StrictSubsetOrdering
<1>5. \A t \in Bad : t \subseteq s => t = s
  BY <1>3, <1>4, Zenon
<1> QED
  BY <1>5, Zenon

LEMMA IterSum == \A f, S : SumFunctionOnSet(f, S) = Iter(f, S)[S]
BY Zenon DEF SumFunctionOnSet, FoldFunctionOnSet, MapThenFoldSet, Iter

LEMMA IterUnfolds ==
    ASSUME NEW f, NEW S, NEW g, Unfolds(f, S, g)
    PROVE  Unfolds(f, S, Iter(f, S))
BY Zenon DEF Iter, Unfolds, Pick


\* A function that unfolds is the only one.
LEMMA UnfoldsOnce ==
    ASSUME NEW f, NEW S, IsFiniteSet(S), NEW g, NEW h,
           Unfolds(f, S, g), Unfolds(f, S, h)
    PROVE  g = h
<1> DEFINE Bad == {s \in SUBSET S : g[s] # h[s]}
<1>1. SUFFICES ASSUME Bad # {} PROVE FALSE
  <2>1. /\ g = [s \in SUBSET S |-> g[s]]
        /\ h = [s \in SUBSET S |-> h[s]]
    BY Zenon DEF Unfolds
  <2> QED
    BY <1>1, <2>1, Zenon
<1>2. PICK s \in Bad : \A t \in Bad : t \subseteq s => t = s
  <2>1. Bad \in SUBSET SUBSET S
    BY Zenon
  <2> HIDE DEF Bad
  <2> QED
    BY <1>1, <2>1, SubsetMin
<1>3. CASE s = {}
  BY <1>3, Zenon DEF Unfolds
<1>4. CASE s # {}
  <2>1. Pick(s) \in s
    BY <1>4, PickFacts, Zenon
  <2>2. g[s \ {Pick(s)}] = h[s \ {Pick(s)}]
    BY <1>2, <2>1
  <2>3. /\ g[s] = f[Pick(s)] + g[s \ {Pick(s)}]
        /\ h[s] = f[Pick(s)] + h[s \ {Pick(s)}]
    BY <1>4, Zenon DEF Unfolds
  <2> QED
    BY <2>2, <2>3, Zenon
<1> QED
  BY <1>3, <1>4, Zenon

\* What unfolds on a set unfolds on its subsets.
LEMMA UnfoldsBelow ==
    ASSUME NEW f, NEW S, NEW g, Unfolds(f, S, g), NEW T \in SUBSET S
    PROVE  Unfolds(f, T, [s \in SUBSET T |-> g[s]])
<1> DEFINE h == [s \in SUBSET T |-> g[s]]
<1>1. \A s \in SUBSET T : s # {} => h[s \ {Pick(s)}] = g[s \ {Pick(s)}]
  BY Zenon
<1>2. \A s \in SUBSET T :
          g[s] = IF s = {} THEN 0 ELSE f[Pick(s)] + g[s \ {Pick(s)}]
  BY Zenon DEF Unfolds
<1>3. h = [s \in SUBSET T |->
              IF s = {} THEN 0 ELSE f[Pick(s)] + h[s \ {Pick(s)}]]
  BY <1>1, <1>2, Zenon
<1> QED
  BY <1>3, Zenon DEF Unfolds

\* The sum over every finite set unfolds.
LEMMA IterExists ==
    ASSUME NEW f, NEW S, IsFiniteSet(S)
    PROVE  Unfolds(f, S, Iter(f, S))
<1> DEFINE Bad == {T \in SUBSET S : ~Unfolds(f, T, Iter(f, T))}
<1>1. SUFFICES ASSUME Bad # {} PROVE FALSE
  BY <1>1, Zenon
<1>2. PICK T \in Bad : \A U \in Bad : U \subseteq T => U = T
  <2>1. Bad \in SUBSET SUBSET S
    BY Zenon
  <2> HIDE DEF Bad
  <2> QED
    BY <1>1, <2>1, SubsetMin
<1>3. \A U \in SUBSET T : U # T => Unfolds(f, U, Iter(f, U))
  BY <1>2, Zenon
<1> DEFINE g == [s \in SUBSET T |->
                    IF s = {} THEN 0
                    ELSE f[Pick(s)] + Iter(f, s \ {Pick(s)})[s \ {Pick(s)}]]
<1>4. ASSUME NEW U \in SUBSET T, U # T
      PROVE  g[U] = Iter(f, U)[U]
  <2>1. Unfolds(f, U, Iter(f, U))
    BY <1>3, <1>4, Zenon
  <2>2. CASE U = {}
    BY <2>1, <2>2, Zenon DEF Unfolds
  <2>3. CASE U # {}
    <3> DEFINE V == U \ {Pick(U)}
    <3>1. Pick(U) \in U /\ V \in SUBSET U /\ V \in SUBSET T /\ V # T /\ V \in SUBSET V
      BY <2>3, <1>4, PickFacts, Zenon
    <3>2. IsFiniteSet(V)
      BY <3>1, FS_Subset, Zenon
    <3>3. Unfolds(f, V, Iter(f, V))
      BY <1>3, <3>1, Zenon
    <3>4. Unfolds(f, V, [s \in SUBSET V |-> Iter(f, U)[s]])
      BY <2>1, <3>1, UnfoldsBelow, Zenon
    <3>5. Iter(f, V) = [s \in SUBSET V |-> Iter(f, U)[s]]
      BY <3>2, <3>3, <3>4, UnfoldsOnce, Zenon
    <3>6. Iter(f, V)[V] = Iter(f, U)[V]
      BY <3>1, <3>5, Zenon
    <3>7. Iter(f, U)[U] = f[Pick(U)] + Iter(f, U)[V]
      BY <2>1, <2>3, Zenon DEF Unfolds
    <3>8. g[U] = f[Pick(U)] + Iter(f, V)[V]
      BY <2>3, Zenon
    <3> QED
      BY <3>6, <3>7, <3>8, Zenon
  <2> QED
    BY <2>2, <2>3, Zenon
<1>5. \A s \in SUBSET T : s # {} =>
          g[s \ {Pick(s)}] = Iter(f, s \ {Pick(s)})[s \ {Pick(s)}]
  <2> SUFFICES ASSUME NEW s \in SUBSET T, s # {}
               PROVE  g[s \ {Pick(s)}] = Iter(f, s \ {Pick(s)})[s \ {Pick(s)}]
    BY Zenon
  <2>1. Pick(s) \in s
    BY PickFacts, Zenon
  <2>2. s \ {Pick(s)} \in SUBSET T /\ s \ {Pick(s)} # T
    BY <2>1, Zenon
  <2> QED
    BY <1>4, <2>2, Zenon
<1>6. Unfolds(f, T, g)
  <2>1. \A s \in SUBSET T :
            g[s] = IF s = {} THEN 0
                   ELSE f[Pick(s)] + Iter(f, s \ {Pick(s)})[s \ {Pick(s)}]
    BY Zenon
  <2>2. g = [s \in SUBSET T |-> IF s = {} THEN 0 ELSE f[Pick(s)] + g[s \ {Pick(s)}]]
    BY <1>5, <2>1, Zenon
  <2> QED
    BY <2>2, Zenon DEF Unfolds
<1>7. Unfolds(f, T, Iter(f, T))
  BY <1>6, IterUnfolds, Zenon
<1> QED
  BY <1>2, <1>7, Zenon

\* A sum over a finite set is the term of any one element and the sum over
\* the others.
LEMMA SumPick ==
    ASSUME NEW f, NEW S, IsFiniteSet(S), S # {}
    PROVE  SumFunctionOnSet(f, S) =
               f[Pick(S)] + SumFunctionOnSet(f, S \ {Pick(S)})
<1> DEFINE T == S \ {Pick(S)}
<1>1. Unfolds(f, S, Iter(f, S))
  BY IterExists, Zenon
<1>2. T \in SUBSET S /\ T \in SUBSET T /\ IsFiniteSet(T)
  BY FS_Subset, Zenon
<1>3. Unfolds(f, T, Iter(f, T))
  BY <1>2, IterExists, Zenon
<1>4. Unfolds(f, T, [s \in SUBSET T |-> Iter(f, S)[s]])
  BY <1>1, <1>2, UnfoldsBelow, Zenon
<1>5. Iter(f, T) = [s \in SUBSET T |-> Iter(f, S)[s]]
  BY <1>2, <1>3, <1>4, UnfoldsOnce, Zenon
<1>6. Iter(f, T)[T] = Iter(f, S)[T]
  BY <1>2, <1>5, Zenon
<1>7. Iter(f, S)[S] = f[Pick(S)] + Iter(f, S)[T]
  BY <1>1, Zenon DEF Unfolds
<1> QED
  BY <1>6, <1>7, IterSum, Zenon

LEMMA SumEmpty == ASSUME NEW f PROVE SumFunctionOnSet(f, {}) = 0
<1>1. Unfolds(f, {}, Iter(f, {}))
  BY IterExists, FS_EmptySet, Zenon
<1>2. Iter(f, {})[{}] = 0
  BY <1>1, Zenon DEF Unfolds
<1> QED
  BY <1>2, IterSum, Zenon

LEMMA SumType ==
    ASSUME NEW f, NEW S, IsFiniteSet(S), \A x \in S : f[x] \in Int
    PROVE  SumFunctionOnSet(f, S) \in Int
<1> DEFINE Bad == {s \in SUBSET S : SumFunctionOnSet(f, s) \notin Int}
<1>1. SUFFICES ASSUME Bad # {} PROVE FALSE
  BY <1>1, Zenon
<1>2. PICK s \in Bad : \A t \in Bad : t \subseteq s => t = s
  <2>1. Bad \in SUBSET SUBSET S
    BY Zenon
  <2> HIDE DEF Bad
  <2> QED
    BY <1>1, <2>1, SubsetMin
<1>3. s # {}
  BY SumEmpty
<1>4. Pick(s) \in s
  BY <1>3, PickFacts, Zenon
<1>5. IsFiniteSet(s)
  BY FS_Subset, Zenon
<1>6. SumFunctionOnSet(f, s \ {Pick(s)}) \in Int
  BY <1>2, <1>4
<1>7. SumFunctionOnSet(f, s) = f[Pick(s)] + SumFunctionOnSet(f, s \ {Pick(s)})
  BY <1>3, <1>5, SumPick, Zenon
<1>8. f[Pick(s)] \in Int
  BY <1>4, Zenon
<1> QED
  BY <1>6, <1>7, <1>8

LEMMA SumRemove ==
    ASSUME NEW f, NEW S, IsFiniteSet(S), \A x \in S : f[x] \in Int, NEW x \in S
    PROVE  SumFunctionOnSet(f, S) = f[x] + SumFunctionOnSet(f, S \ {x})
<1> DEFINE Sum(s) == SumFunctionOnSet(f, s)
           Bad == {s \in SUBSET S : \E z \in s : Sum(s) # f[z] + Sum(s \ {z})}
<1>1. SUFFICES ASSUME Bad # {} PROVE FALSE
  BY <1>1, Zenon
<1>2. PICK s \in Bad : \A t \in Bad : t \subseteq s => t = s
  <2>1. Bad \in SUBSET SUBSET S
    BY Zenon
  <2> HIDE DEF Bad
  <2> QED
    BY <1>1, <2>1, SubsetMin
<1>3. PICK z \in s : Sum(s) # f[z] + Sum(s \ {z})
  BY Zenon
<1>4. PICK y : y = Pick(s)
  BY Zenon
<1>5. y \in s /\ y \in S /\ z \in S
  BY <1>3, <1>4, PickFacts, Zenon
<1>6. IsFiniteSet(s)
  BY FS_Subset, Zenon
<1>7. Sum(s) = f[y] + Sum(s \ {y})
  BY <1>3, <1>4, <1>6, SumPick, Zenon
<1>8. y # z
  BY <1>3, <1>7, Zenon
<1>9. s \ {y} \in SUBSET S /\ s \ {y} # s /\ s \ {z} \in SUBSET S /\ s \ {z} # s
      /\ z \in s \ {y} /\ y \in s \ {z}
  BY <1>3, <1>5, <1>8, Zenon
<1>10. Sum(s \ {y}) = f[z] + Sum((s \ {y}) \ {z})
  BY <1>2, <1>9, Zenon
<1>11. Sum(s \ {z}) = f[y] + Sum((s \ {z}) \ {y})
  BY <1>2, <1>9, Zenon
<1>12. (s \ {y}) \ {z} = (s \ {z}) \ {y}
  BY Zenon
<1>13. PICK n : n = Sum((s \ {z}) \ {y})
  BY Zenon
<1>14. n \in Int
  <2>1. IsFiniteSet((s \ {z}) \ {y})
    BY FS_Subset, Zenon
  <2> QED
    BY <1>13, <2>1, SumType, Zenon
<1>15. Sum(s) = f[y] + (f[z] + n) /\ Sum(s \ {z}) = f[y] + n
  BY <1>7, <1>10, <1>11, <1>12, <1>13, Zenon
<1>16. f[y] \in Int /\ f[z] \in Int
  BY <1>5, Zenon
<1> HIDE DEF Sum
<1> QED
  BY <1>3, <1>14, <1>15, <1>16

LEMMA SumSame ==
    ASSUME NEW f, NEW g, NEW S, IsFiniteSet(S), \A x \in S : f[x] = g[x]
    PROVE  SumFunctionOnSet(f, S) = SumFunctionOnSet(g, S)
<1> DEFINE Bad == {s \in SUBSET S :
                       SumFunctionOnSet(f, s) # SumFunctionOnSet(g, s)}
<1>1. SUFFICES ASSUME Bad # {} PROVE FALSE
  BY <1>1, Zenon
<1>2. PICK s \in Bad : \A t \in Bad : t \subseteq s => t = s
  <2>1. Bad \in SUBSET SUBSET S
    BY Zenon
  <2> HIDE DEF Bad
  <2> QED
    BY <1>1, <2>1, SubsetMin
<1>3. s # {}
  BY SumEmpty, Zenon
<1>4. Pick(s) \in s
  BY <1>3, PickFacts, Zenon
<1>5. IsFiniteSet(s)
  BY FS_Subset, Zenon
<1>6. SumFunctionOnSet(f, s \ {Pick(s)}) = SumFunctionOnSet(g, s \ {Pick(s)})
  BY <1>2, <1>4
<1>7. /\ SumFunctionOnSet(f, s) = f[Pick(s)] + SumFunctionOnSet(f, s \ {Pick(s)})
      /\ SumFunctionOnSet(g, s) = g[Pick(s)] + SumFunctionOnSet(g, s \ {Pick(s)})
  BY <1>3, <1>5, SumPick, Zenon
<1> QED
  BY <1>4, <1>6, <1>7, Zenon

-----------------------------------------------------------------------------
(* Seats.                                                                  *)

\* The passengers seated at a fare, for an assignment of fares.
People == [s \in Segment |-> Passengers(s)]
SeatedAt(f, at) == {s \in Segment : at[s] = f}
Seated(f, at) == SumFunctionOnSet(People, SeatedAt(f, at))
Now == [s \in Segment |-> seat[s].fare]

LEMMA PeopleFacts ==
    /\ \A s \in Segment : People[s] \in Int
    /\ \A f, at : IsFiniteSet(SeatedAt(f, at))
    /\ \A f, at : Seated(f, at) \in Int
<1>1. \A s \in Segment : People[s] \in Int
  BY RebookingRulesAssumption DEF People, Passengers, BookingOf
<1>2. \A f, at : IsFiniteSet(SeatedAt(f, at)) /\ SeatedAt(f, at) \subseteq Segment
  BY RebookingRulesAssumption, FS_Subset, Zenon DEF SeatedAt
<1>3. ASSUME NEW f, NEW at PROVE Seated(f, at) \in Int
  <2>1. PICK S : S = SeatedAt(f, at)
    BY Zenon
  <2>2. IsFiniteSet(S) /\ \A s \in S : People[s] \in Int
    BY <1>1, <1>2, <2>1, Zenon
  <2>3. SumFunctionOnSet(People, S) \in Int
    BY <2>2, SumType, Zenon
  <2> QED
    BY <2>1, <2>3, Zenon DEF Seated
<1> QED
  BY <1>1, <1>2, <1>3, Zenon

\* When one segment moves, its passengers leave one fare for another.
LEMMA SeatedMoves ==
    ASSUME NEW m \in Segment, NEW at, NEW to, at[m] # to[m],
           \A s \in Segment : s # m => to[s] = at[s],
           NEW f
    PROVE  Seated(f, to) = IF f = to[m] THEN Seated(f, at) + People[m]
                           ELSE IF f = at[m] THEN Seated(f, at) - People[m]
                           ELSE Seated(f, at)
<1>1. PICK A, T : A = SeatedAt(f, at) /\ T = SeatedAt(f, to)
  BY Zenon
<1>2. /\ IsFiniteSet(A) /\ \A s \in A : People[s] \in Int
      /\ IsFiniteSet(T) /\ \A s \in T : People[s] \in Int
  BY <1>1, PeopleFacts, Zenon DEF SeatedAt
<1>3. SumFunctionOnSet(People, A) \in Int /\ SumFunctionOnSet(People, T) \in Int
  BY <1>2, SumType, Zenon
<1>4. People[m] \in Int
  BY PeopleFacts, Zenon
<1>5. CASE f = to[m]
  <2>1. m \in T /\ T \ {m} = A
    BY <1>1, <1>5, Zenon DEF SeatedAt
  <2>2. SumFunctionOnSet(People, T) = People[m] + SumFunctionOnSet(People, A)
    BY <1>2, <2>1, SumRemove
  <2> QED
    BY <1>1, <1>3, <1>4, <1>5, <2>2 DEF Seated
<1>6. CASE f = at[m]
  <2>1. m \in A /\ A \ {m} = T
    BY <1>1, <1>6, Zenon DEF SeatedAt
  <2>2. SumFunctionOnSet(People, A) = People[m] + SumFunctionOnSet(People, T)
    BY <1>2, <2>1, SumRemove
  <2>3. SumFunctionOnSet(People, T) = SumFunctionOnSet(People, A) - People[m]
    BY <1>3, <1>4, <2>2
  <2> QED
    BY <1>1, <1>6, <2>3, Zenon DEF Seated
<1>7. CASE f # to[m] /\ f # at[m]
  <2>1. A = T
    BY <1>1, <1>7, Zenon DEF SeatedAt
  <2> QED
    BY <1>1, <1>7, <2>1, Zenon DEF Seated
<1> QED
  BY <1>5, <1>6, <1>7, Zenon

\* SeatsConserved, with its operators named.
SeatsInv == \A f \in Fare :
    seats[f] + Seated(f, Now) = Seats0[f] + Seated(f, Fare0)

LEMMA RebookSeats ==
    ASSUME TypeLedger, SeatsInv, NEW c \in Change, Rebook(c)
    PROVE  SeatsInv'
<1>1. PICK m, n, old, new :
          /\ m = Want[c].segment /\ n = Passengers(m)
          /\ old = seat[m].fare /\ new = Want[c].fare
  BY Zenon
<1>2. /\ m \in Segment /\ n \in Nat /\ old \in Fare /\ new \in Fare
      /\ n = People[m]
  BY <1>1, WantFacts, Zenon DEF TypeLedger, Seat, People
<1>3. seats \in [Fare -> Nat] /\ seat \in [Segment -> Seat]
  BY Zenon DEF TypeLedger
<1>4. seats[new] >= n
  BY <1>1, Zenon DEF Rebook, Valid, EnoughSeats
<1>5. seats' = Moved(seats, n, old, new)
  BY <1>1, Zenon DEF Rebook, Written
<1>6. seat' = [seat EXCEPT ![m] = Changed(new)]
  BY <1>1, Zenon DEF Rebook, Written
<1>7. PICK less : less = [seats EXCEPT ![new] = seats[new] - n]
  BY Zenon
<1>8. seats' = [less EXCEPT ![old] = less[old] + n]
  BY <1>4, <1>5, <1>7, Zenon DEF Moved
<1>9. /\ \A f \in Fare : less[f] = IF f = new THEN seats[f] - n ELSE seats[f]
      /\ less \in [Fare -> Int]
  BY <1>2, <1>3, <1>7
<1>10. \A f \in Fare : seats'[f] = IF f = old THEN less[f] + n ELSE less[f]
  BY <1>2, <1>8, <1>9, Zenon
<1>11. PICK at, to : at = Now /\ to = Now'
  BY Zenon
<1>12. /\ at[m] = old /\ to[m] = new
       /\ \A s \in Segment : s # m => to[s] = at[s]
  BY <1>1, <1>2, <1>3, <1>6, <1>11, Zenon DEF Now, Changed
<1>13. \A f \in Fare : seats[f] + Seated(f, at) = Seats0[f] + Seated(f, Fare0)
  BY <1>11, Zenon DEF SeatsInv
<1>14. ASSUME NEW f \in Fare
       PROVE  seats'[f] + Seated(f, to) = seats[f] + Seated(f, at)
  <2>1. seats[f] \in Int /\ n \in Int /\ Seated(f, at) \in Int
    BY <1>2, <1>3, PeopleFacts
  <2>2. CASE old = new
    <3>1. SeatedAt(f, to) = SeatedAt(f, at)
      BY <1>12, <2>2, Zenon DEF SeatedAt
    <3>2. Seated(f, to) = Seated(f, at)
      BY <3>1, Zenon DEF Seated
    <3>3. seats'[f] = seats[f]
      BY <1>9, <1>10, <2>1, <2>2
    <3> QED
      BY <3>2, <3>3, Zenon
  <2>3. CASE old # new
    <3>1. Seated(f, to) = IF f = new THEN Seated(f, at) + n
                          ELSE IF f = old THEN Seated(f, at) - n
                          ELSE Seated(f, at)
      BY <1>2, <1>12, <2>3, SeatedMoves
    <3>2. seats'[f] = IF f = new THEN seats[f] - n
                      ELSE IF f = old THEN seats[f] + n ELSE seats[f]
      BY <1>9, <1>10, <2>3, Zenon
    <3> QED
      BY <2>1, <3>1, <3>2
  <2> QED
    BY <2>2, <2>3, Zenon
<1>15. \A f \in Fare : seats'[f] + Seated(f, to) = Seats0[f] + Seated(f, Fare0)
  BY <1>13, <1>14, Zenon
<1> QED
  BY <1>11, <1>15, Zenon DEF SeatsInv

LEMMA NextSeats ==
    ASSUME TypeLedger, SeatsInv, [LedgerNext]_ledger
    PROVE  SeatsInv'
<1>1. CASE UNCHANGED ledger
  BY <1>1, Zenon DEF ledger, SeatsInv, Now
<1> QED
  BY <1>1, RebookSeats, Zenon DEF LedgerNext

\* A fare's free seats and the passengers seated at it add up to the same
\* number for ever, for reservations of any size: the decrement of the new
\* fare and the increment of the old one in execute move the same people.
THEOREM LedgerKeepsSeats == LedgerSpec => []SeatsConserved
<1>1. SeatsInv => SeatsConserved
  BY Zenon DEF SeatsInv, SeatsConserved, Seated, SeatedAt, People, Now
<1>2. ASSUME LedgerInit PROVE SeatsInv
  <2>1. \A s \in Segment : Now[s] = Fare0[s]
    BY <1>2, Zenon DEF LedgerInit, Now
  <2>2. \A f : SeatedAt(f, Now) = SeatedAt(f, Fare0)
    BY <2>1, Zenon DEF SeatedAt
  <2> QED
    BY <1>2, <2>2, Zenon DEF LedgerInit, SeatsInv, Seated
<1>3. LedgerInit => TypeLedger /\ SeatsInv
  BY <1>2, InitTypeLedger, Zenon
<1>4. TypeLedger /\ SeatsInv /\ [LedgerNext]_ledger => TypeLedger' /\ SeatsInv'
  BY NextTypeLedger, NextSeats, Zenon
<1> QED
  BY <1>1, <1>3, <1>4, PTL DEF LedgerSpec

-----------------------------------------------------------------------------
(* Books.                                                                  *)

\* A sum over rows, when one more row comes that may count or not.
LEMMA SumAppend ==
    ASSUME NEW n \in Nat, NEW f, NEW g, NEW S \in SUBSET (1..n), NEW T,
           \A i \in S : f[i] \in Int /\ g[i] = f[i],
           T = S \/ (T = S \union {n + 1} /\ g[n + 1] \in Int)
    PROVE  /\ SumFunctionOnSet(f, S) \in Int
           /\ SumFunctionOnSet(g, T) =
                  IF n + 1 \in T THEN SumFunctionOnSet(f, S) + g[n + 1]
                  ELSE SumFunctionOnSet(f, S)
<1>1. IsFiniteSet(S) /\ n + 1 \notin S
  <2>1. IsFiniteSet(1..n)
    BY FS_Interval
  <2>2. IsFiniteSet(S)
    BY <2>1, FS_Subset, Zenon
  <2> QED
    BY <2>2
<1>2. SumFunctionOnSet(f, S) \in Int
  BY <1>1, SumType, Zenon
<1>3. SumFunctionOnSet(g, S) = SumFunctionOnSet(f, S)
  BY <1>1, SumSame, Zenon
<1>4. CASE T = S
  BY <1>1, <1>2, <1>3, <1>4, Zenon
<1>5. CASE T = S \union {n + 1} /\ g[n + 1] \in Int
  <2>1. n + 1 \in T /\ T \ {n + 1} = S
    BY <1>1, <1>5, Zenon
  <2>2. IsFiniteSet(T)
    BY <1>1, <1>5, FS_AddElement, Zenon
  <2>3. \A i \in T : g[i] \in Int
    BY <1>5, Zenon
  <2>4. SumFunctionOnSet(g, T) = g[n + 1] + SumFunctionOnSet(g, S)
    BY <2>1, <2>2, <2>3, SumRemove
  <2> QED
    BY <1>2, <1>3, <1>5, <2>1, <2>4
<1> QED
  BY <1>4, <1>5, Zenon

\* One more row.
LEMMA OneMoreRow ==
    ASSUME NEW rows \in Seq(Row), NEW row \in Row, NEW more,
           more = Append(rows, row)
    PROVE  \E n \in Nat :
               /\ DOMAIN rows = 1..n /\ DOMAIN more = 1..n \union {n + 1}
               /\ \A i \in 1..n : more[i] = rows[i] /\ rows[i] \in Row
               /\ more[n + 1] = row
<1>1. PICK n \in Nat : n = Len(rows)
  OBVIOUS
<1>2. DOMAIN rows = 1..n /\ DOMAIN more = 1..(n + 1)
  BY <1>1
<1>3. 1..(n + 1) = 1..n \union {n + 1}
  OBVIOUS
<1>4. \A i \in 1..n : more[i] = rows[i] /\ rows[i] \in Row
  BY <1>1
<1>5. more[n + 1] = row
  BY <1>1
<1> QED
  BY <1>2, <1>3, <1>4, <1>5, Zenon

\* What it adds to the differences of a segment, ...
LEMMA DifferencesAdd ==
    ASSUME NEW rows \in Seq(Row), NEW row \in Row, NEW s
    PROVE  /\ Differences(rows, s) \in Int
           /\ Differences(Append(rows, row), s) =
                  IF row.segment = s THEN Differences(rows, s) + row.difference
                  ELSE Differences(rows, s)
<1>more. PICK more : more = Append(rows, row)
  BY Zenon
<1>1. PICK n \in Nat :
          /\ DOMAIN rows = 1..n /\ DOMAIN more = 1..n \union {n + 1}
          /\ \A i \in 1..n : more[i] = rows[i] /\ rows[i] \in Row
          /\ more[n + 1] = row
  BY <1>more, OneMoreRow
<1>2. PICK f, g, S, T :
          /\ f = [i \in DOMAIN rows |-> rows[i].difference]
          /\ g = [i \in DOMAIN more |-> more[i].difference]
          /\ S = {i \in DOMAIN rows : rows[i].segment = s}
          /\ T = {i \in DOMAIN more : more[i].segment = s}
  BY Zenon
<1>3. S \in SUBSET (1..n) /\ \A i \in S : f[i] \in Int /\ g[i] = f[i]
  BY <1>1, <1>2, Zenon DEF Row
<1>4. g[n + 1] = row.difference /\ g[n + 1] \in Int
  BY <1>1, <1>2, Zenon DEF Row
<1>5. T = IF row.segment = s THEN S \union {n + 1} ELSE S
  BY <1>1, <1>2, Zenon
<1>6. n + 1 \in T <=> row.segment = s
  BY <1>1, <1>2, Zenon
<1>7. T = S \/ (T = S \union {n + 1} /\ g[n + 1] \in Int)
  BY <1>4, <1>5, Zenon
<1>8. /\ SumFunctionOnSet(f, S) \in Int
      /\ SumFunctionOnSet(g, T) =
             IF n + 1 \in T THEN SumFunctionOnSet(f, S) + g[n + 1]
             ELSE SumFunctionOnSet(f, S)
  BY <1>3, <1>7, SumAppend
<1> QED
  BY <1>more, <1>2, <1>4, <1>6, <1>8, Zenon DEF Differences

\* ... to the charges of a reservation ...
LEMMA ChargedAdd ==
    ASSUME NEW rows \in Seq(Row), NEW row \in Row, NEW r
    PROVE  /\ Charged(rows, r) \in Int
           /\ Charged(Append(rows, row), r) =
                  IF BookingOf(row.segment) = r
                  THEN Charged(rows, r) + (row.difference + row.fee - row.used)
                  ELSE Charged(rows, r)
<1>more. PICK more : more = Append(rows, row)
  BY Zenon
<1>1. PICK n \in Nat :
          /\ DOMAIN rows = 1..n /\ DOMAIN more = 1..n \union {n + 1}
          /\ \A i \in 1..n : more[i] = rows[i] /\ rows[i] \in Row
          /\ more[n + 1] = row
  BY <1>more, OneMoreRow
<1>2. PICK f, g, S, T :
          /\ f = [i \in DOMAIN rows |->
                      rows[i].difference + rows[i].fee - rows[i].used]
          /\ g = [i \in DOMAIN more |->
                      more[i].difference + more[i].fee - more[i].used]
          /\ S = {i \in DOMAIN rows : BookingOf(rows[i].segment) = r}
          /\ T = {i \in DOMAIN more : BookingOf(more[i].segment) = r}
  BY Zenon
<1>3. S \in SUBSET (1..n) /\ \A i \in S : f[i] \in Int /\ g[i] = f[i]
  <2>1. \A i \in 1..n : /\ rows[i].difference \in Int /\ rows[i].fee \in Int
                         /\ rows[i].used \in Int
    BY <1>1 DEF Row
  <2> QED
    BY <1>1, <1>2, <2>1
<1>4. g[n + 1] = row.difference + row.fee - row.used /\ g[n + 1] \in Int
  BY <1>1, <1>2 DEF Row
<1>5. T = IF BookingOf(row.segment) = r THEN S \union {n + 1} ELSE S
  BY <1>1, <1>2, Zenon
<1>6. n + 1 \in T <=> BookingOf(row.segment) = r
  BY <1>1, <1>2, Zenon
<1>7. T = S \/ (T = S \union {n + 1} /\ g[n + 1] \in Int)
  BY <1>4, <1>5, Zenon
<1>8. /\ SumFunctionOnSet(f, S) \in Int
      /\ SumFunctionOnSet(g, T) =
             IF n + 1 \in T THEN SumFunctionOnSet(f, S) + g[n + 1]
             ELSE SumFunctionOnSet(f, S)
  BY <1>3, <1>7, SumAppend
<1> QED
  BY <1>more, <1>2, <1>4, <1>6, <1>8, Zenon DEF Charged

\* ... and to what was paid from a credit.
LEMMA SpentAdd ==
    ASSUME NEW rows \in Seq(Row), NEW row \in Row, NEW k
    PROVE  /\ Spent(rows, k) \in Int
           /\ Spent(Append(rows, row), k) =
                  IF Want[row.change].credit = k THEN Spent(rows, k) + row.used
                  ELSE Spent(rows, k)
<1>more. PICK more : more = Append(rows, row)
  BY Zenon
<1>1. PICK n \in Nat :
          /\ DOMAIN rows = 1..n /\ DOMAIN more = 1..n \union {n + 1}
          /\ \A i \in 1..n : more[i] = rows[i] /\ rows[i] \in Row
          /\ more[n + 1] = row
  BY <1>more, OneMoreRow
<1>2. PICK f, g, S, T :
          /\ f = [i \in DOMAIN rows |-> rows[i].used]
          /\ g = [i \in DOMAIN more |-> more[i].used]
          /\ S = {i \in DOMAIN rows : Want[rows[i].change].credit = k}
          /\ T = {i \in DOMAIN more : Want[more[i].change].credit = k}
  BY Zenon
<1>3. S \in SUBSET (1..n) /\ \A i \in S : f[i] \in Int /\ g[i] = f[i]
  BY <1>1, <1>2, Zenon DEF Row
<1>4. g[n + 1] = row.used /\ g[n + 1] \in Int
  BY <1>1, <1>2, Zenon DEF Row
<1>5. T = IF Want[row.change].credit = k THEN S \union {n + 1} ELSE S
  BY <1>1, <1>2, Zenon
<1>6. n + 1 \in T <=> Want[row.change].credit = k
  BY <1>1, <1>2, Zenon
<1>7. T = S \/ (T = S \union {n + 1} /\ g[n + 1] \in Int)
  BY <1>4, <1>5, Zenon
<1>8. /\ SumFunctionOnSet(f, S) \in Int
      /\ SumFunctionOnSet(g, T) =
             IF n + 1 \in T THEN SumFunctionOnSet(f, S) + g[n + 1]
             ELSE SumFunctionOnSet(f, S)
  BY <1>3, <1>7, SumAppend
<1> QED
  BY <1>more, <1>2, <1>4, <1>6, <1>8, Zenon DEF Spent

\* BooksBalance, strengthened: a credit never has more left than it had.
BooksInv == /\ BooksBalance
            /\ \A k \in Credit : purse[k].left <= CreditRow[k].amount

\* What is left of a credit once part of it is spent.
Spends(amount, left, spent, a) ==
    /\ left - a = amount - (spent + a)
    /\ left - a # amount
    /\ left - a <= amount
    /\ left - a = 0 <=> left = a

LEMMA SpendNumbers ==
    ASSUME NEW amount \in Nat, NEW left \in Nat, NEW spent \in Int,
           NEW a \in Int, a > 0, left >= a, left = amount - spent,
           left <= amount
    PROVE  Spends(amount, left, spent, a)
BY DEF Spends

\* A booked change keeps every sum equal to what the rows say.
LEMMA RebookBooks ==
    ASSUME TypeLedger, BooksInv, NEW c \in Change, Rebook(c)
    PROVE  BooksInv'
<1>1. PICK m, new, mine, row :
          /\ m = Want[c].segment /\ new = Want[c].fare /\ mine = seat[m]
          /\ row = FlightChange(c, mine.fare, mine.paid)
  BY Zenon
<1>2. /\ m \in Segment /\ new \in Fare /\ Want[c].amount \in Int
      /\ BookingOf(m) \in Reservation /\ Want[c].credit \in Credit \union {None}
  BY <1>1, WantFacts, Zenon
<1>3. mine.fare \in Fare /\ mine.paid \in Nat
  BY <1>1, <1>2, Zenon DEF TypeLedger, Seat
<1>4. FareRow[new].price \in Nat /\ FareRow[new].fee \in Nat
  BY <1>2, FareFacts, Zenon
<1>5. /\ row.change = c /\ row.segment = m /\ row.used = Want[c].amount
      /\ row.difference = FareRow[new].price - mine.paid
      /\ row.fee = FareRow[new].fee
  BY <1>1, Zenon DEF FlightChange, Difference
<1>6. row \in Row
  BY <1>1, <1>2, <1>3, <1>4 DEF FlightChange, Difference, Row
<1>7. PICK rows, more : rows = history /\ more = history'
  BY Zenon
<1>8. rows \in Seq(Row) /\ more = Append(rows, row)
  BY <1>1, <1>7, Zenon DEF TypeLedger, Rebook, Written
<1>paid. ASSUME NEW s \in Segment
         PROVE  seat'[s].paid = FareRow[Fare0[s]].price + Differences(more, s)
  <2>1. seat[s].paid = FareRow[Fare0[s]].price + Differences(rows, s)
    BY <1>7, Zenon DEF BooksInv, BooksBalance
  <2>2. FareRow[Fare0[s]].price \in Nat
    BY RebookingRulesAssumption, Zenon
  <2>3. /\ Differences(rows, s) \in Int
        /\ Differences(more, s) = IF m = s THEN Differences(rows, s) + row.difference
                                  ELSE Differences(rows, s)
    <3>1. /\ Differences(rows, s) \in Int
          /\ Differences(Append(rows, row), s) = IF row.segment = s
                               THEN Differences(rows, s) + row.difference
                               ELSE Differences(rows, s)
      BY <1>6, <1>8, DifferencesAdd, Zenon
    <3> QED
      BY <1>5, <1>8, <3>1, Zenon
  <2>4. seat' = [seat EXCEPT ![m] = Changed(new)] /\ seat \in [Segment -> Seat]
    BY <1>1, Zenon DEF TypeLedger, Rebook, Written
  <2>5. seat'[s].paid = IF m = s THEN FareRow[new].price ELSE seat[s].paid
    BY <1>2, <2>4, Zenon DEF Changed
  <2>6. m = s => mine.paid = seat[s].paid
    BY <1>1, Zenon
  <2> QED
    BY <1>3, <1>4, <1>5, <2>1, <2>2, <2>3, <2>5, <2>6
<1>total. ASSUME NEW r \in Reservation PROVE total'[r] = Charged(more, r)
  <2>1. total[r] = Charged(rows, r)
    BY <1>7, Zenon DEF BooksInv, BooksBalance
  <2>2. /\ Charged(rows, r) \in Int
        /\ Charged(more, r) = IF BookingOf(m) = r
                              THEN Charged(rows, r)
                                       + (row.difference + row.fee - row.used)
                              ELSE Charged(rows, r)
    <3>1. /\ Charged(rows, r) \in Int
          /\ Charged(Append(rows, row), r) = IF BookingOf(row.segment) = r
                               THEN Charged(rows, r) + (row.difference + row.fee - row.used)
                               ELSE Charged(rows, r)
      BY <1>6, <1>8, ChargedAdd, Zenon
    <3> QED
      BY <1>5, <1>8, <3>1, Zenon
  <2>3. /\ total' = [total EXCEPT ![BookingOf(m)] =
                         total[BookingOf(m)] + Added(Want[c], mine.paid)]
        /\ total \in [Reservation -> Int]
    BY <1>1, Zenon DEF TypeLedger, Rebook, Written
  <2>4. Added(Want[c], mine.paid) = row.difference + row.fee - row.used
    BY <1>1, <1>5, Zenon DEF Added, Difference
  <2>5. total'[r] = IF BookingOf(m) = r
                    THEN total[r] + (row.difference + row.fee - row.used)
                    ELSE total[r]
    BY <1>2, <2>3, <2>4, Zenon
  <2> QED
    BY <2>1, <2>2, <2>5
<1>credit. ASSUME NEW k \in Credit
           PROVE  /\ purse'[k].left = CreditRow[k].amount - Spent(more, k)
                  /\ purse'[k].status =
                         IF purse'[k].left = CreditRow[k].amount THEN "AVAILABLE"
                         ELSE IF purse'[k].left = 0 THEN "USED"
                         ELSE "PARTIALLY_USED"
                  /\ purse'[k].left <= CreditRow[k].amount
  <2>1. /\ purse[k].left = CreditRow[k].amount - Spent(rows, k)
        /\ purse[k].status =
               IF purse[k].left = CreditRow[k].amount THEN "AVAILABLE"
               ELSE IF purse[k].left = 0 THEN "USED"
               ELSE "PARTIALLY_USED"
        /\ purse[k].left <= CreditRow[k].amount
    BY <1>7, Zenon DEF BooksInv, BooksBalance
  <2>2. CreditRow[k].amount \in Nat
    BY RebookingRulesAssumption, Zenon
  <2>3. /\ Spent(rows, k) \in Int
        /\ Spent(more, k) = IF Want[c].credit = k
                            THEN Spent(rows, k) + row.used ELSE Spent(rows, k)
    <3>1. /\ Spent(rows, k) \in Int
          /\ Spent(Append(rows, row), k) = IF Want[row.change].credit = k
                               THEN Spent(rows, k) + row.used
                               ELSE Spent(rows, k)
      BY <1>6, <1>8, SpentAdd, Zenon
    <3> QED
      BY <1>5, <1>8, <3>1, Zenon
  <2>4. purse \in [Credit -> Purse] /\ k # None
    BY RebookingRulesAssumption, Zenon DEF TypeLedger
  <2>5. CASE Want[c].credit # k
    <3>1. purse'[k] = purse[k]
      BY <1>2, <2>4, <2>5, Zenon DEF Rebook, Written
    <3> QED
      BY <2>1, <2>3, <2>5, <3>1, Zenon
  <2>6. CASE Want[c].credit = k
    <3>1. PICK p, a : p = purse[k] /\ a = Want[c].amount
      BY Zenon
    <3>2. p.left \in Nat /\ a \in Int
      BY <1>2, <2>4, <3>1, Zenon DEF Purse
    <3>3. a > 0 /\ p.left >= a
      <4>1. CreditFits(Want[c], PurseOf(Want[c]))
        BY Zenon DEF Rebook, Valid
      <4>2. PurseOf(Want[c]) = p
        BY <2>4, <2>6, <3>1, Zenon DEF PurseOf
      <4> QED
        BY <2>4, <2>6, <3>1, <4>1, <4>2, Zenon DEF CreditFits
    <3>4. purse'[k] = Consumed(p, a)
      BY <2>4, <2>6, <3>1, Zenon DEF Rebook, Written
    <3>5. /\ purse'[k].left = p.left - a
          /\ purse'[k].status = IF p.left = a THEN "USED" ELSE "PARTIALLY_USED"
      BY <3>2, <3>3, <3>4 DEF Consumed
    <3>6. Spends(CreditRow[k].amount, p.left, Spent(rows, k), a)
      <4>1. PICK l \in Nat, s \in Int, am \in Nat :
                l = p.left /\ s = Spent(rows, k) /\ am = CreditRow[k].amount
        BY <2>2, <2>3, <3>2, Zenon
      <4>2. a \in Int /\ a > 0 /\ l = am - s /\ l <= am /\ l >= a
        BY <2>1, <3>1, <3>2, <3>3, <4>1, Zenon
      <4>3. Spends(am, l, s, a)
        BY <4>2, SpendNumbers, Zenon
      <4> QED
        BY <4>1, <4>3, Zenon
    <3>7. Spent(more, k) = Spent(rows, k) + a
      BY <1>5, <2>3, <2>6, <3>1, Zenon
    <3> QED
      BY <3>5, <3>6, <3>7, Zenon DEF Spends
  <2> QED
    BY <2>5, <2>6, Zenon
<1> QED
  BY <1>7, <1>paid, <1>total, <1>credit, Zenon DEF BooksInv, BooksBalance

LEMMA NextBooks ==
    ASSUME TypeLedger, BooksInv, [LedgerNext]_ledger
    PROVE  BooksInv'
<1>1. CASE UNCHANGED ledger
  BY <1>1, Zenon DEF ledger, BooksInv, BooksBalance
<1> QED
  BY <1>1, RebookBooks, Zenon DEF LedgerNext

\* Before the first rebooking nothing was charged.
LEMMA NoRows ==
    ASSUME NEW rows, DOMAIN rows = {}, NEW x
    PROVE  /\ Differences(rows, x) = 0 /\ Charged(rows, x) = 0
           /\ Spent(rows, x) = 0
<1>1. /\ {i \in DOMAIN rows : rows[i].segment = x} = {}
      /\ {i \in DOMAIN rows : BookingOf(rows[i].segment) = x} = {}
      /\ {i \in DOMAIN rows : Want[rows[i].change].credit = x} = {}
  BY Zenon
<1> QED
  BY <1>1, SumEmpty, Zenon DEF Differences, Charged, Spent

LEMMA InitBooks == ASSUME LedgerInit PROVE BooksInv
<1>1. DOMAIN history = {}
  BY DEF LedgerInit
<1>2. \A x : /\ Differences(history, x) = 0 /\ Charged(history, x) = 0
            /\ Spent(history, x) = 0
  BY <1>1, NoRows, Zenon
<1>3. \A s \in Segment : seat[s].paid = FareRow[Fare0[s]].price
                         /\ FareRow[Fare0[s]].price \in Nat
  BY RebookingRulesAssumption, Zenon DEF LedgerInit
<1>4. \A r \in Reservation : total[r] = 0
  BY Zenon DEF LedgerInit
<1>5. \A k \in Credit : /\ purse[k].left = CreditRow[k].amount
                        /\ purse[k].status = "AVAILABLE"
                        /\ CreditRow[k].amount \in Nat
  BY RebookingRulesAssumption, Zenon DEF LedgerInit
<1>6. /\ \A s \in Segment :
             seat[s].paid = FareRow[Fare0[s]].price + Differences(history, s)
      /\ \A r \in Reservation : total[r] = Charged(history, r)
      /\ \A k \in Credit : /\ purse[k].left = CreditRow[k].amount - Spent(history, k)
                           /\ purse[k].left <= CreditRow[k].amount
  BY <1>2, <1>3, <1>4, <1>5
<1> QED
  BY <1>5, <1>6, Zenon DEF BooksInv, BooksBalance

\* The price paid for a segment, the total of a reservation and what is left
\* of a credit are what the rows of flight_changes say, for any number of
\* rebookings: the UPDATE statements of execute and its INSERT agree.
THEOREM LedgerBalances == LedgerSpec => []BooksBalance
<1>1. BooksInv => BooksBalance
  BY Zenon DEF BooksInv
<1>2. LedgerInit => TypeLedger /\ BooksInv
  BY InitTypeLedger, InitBooks, Zenon
<1>3. TypeLedger /\ BooksInv /\ [LedgerNext]_ledger => TypeLedger' /\ BooksInv'
  BY NextTypeLedger, NextBooks, Zenon
<1> QED
  BY <1>1, <1>2, <1>3, PTL DEF LedgerSpec

-----------------------------------------------------------------------------
(* The history of a segment.                                               *)

RowsOf(s) == {i \in DOMAIN history : history[i].segment = s}
Before(s, i) == {j \in RowsOf(s) : j < i}
At(s, i) == IF Before(s, i) = {} THEN Fare0[s]
            ELSE history[Max(Before(s, i))].new

HasTop(S) == S = {} \/ \E m \in S : \A x \in S : m >= x

\* The chain, and that the last row before another exists.
ChainInv ==
    \A s \in Segment :
        /\ \A i \in 1..(Len(history) + 1) : HasTop(Before(s, i))
        /\ \A i \in RowsOf(s) : history[i].old = At(s, i)
        /\ seat[s].fare = At(s, Len(history) + 1)

LEMMA MaxFacts ==
    ASSUME NEW S, S \subseteq Int
    PROVE  /\ S # {} /\ HasTop(S) => Max(S) \in S
           /\ \A m \in S : (\A x \in S : m >= x) => Max(S) = m
<1>1. ASSUME NEW m \in S, \A x \in S : m >= x
      PROVE  Max(S) \in S /\ \A x \in S : Max(S) >= x
  BY <1>1, Zenon DEF Max
<1>2. ASSUME NEW m \in S, \A x \in S : m >= x PROVE Max(S) = m
  <2>1. Max(S) \in S /\ Max(S) >= m
    BY <1>1, <1>2, Zenon
  <2>2. m >= Max(S)
    BY <1>2, <2>1, Zenon
  <2>3. m \in Int /\ Max(S) \in Int
    BY <2>1, Zenon
  <2> QED
    BY <2>1, <2>2, <2>3
<1> QED
  BY <1>1, <1>2, Zenon DEF HasTop

\* A rebooking leaves what is before its own row as it is, and comes last.
LEMMA RebookChain ==
    ASSUME TypeLedger, ChainInv, NEW c \in Change, Rebook(c)
    PROVE  ChainInv'
<1> DEFINE mine == Want[c].segment
<1>types. history \in Seq(Row)
  BY Zenon DEF TypeLedger
<1>want. mine \in Segment /\ Want[c].fare \in Fare
  BY WantFacts, Zenon
<1>1. /\ history' = Append(history, FlightChange(c, seat[mine].fare, seat[mine].paid))
      /\ seat' = [seat EXCEPT ![mine] = Changed(Want[c].fare)]
  BY Zenon DEF Rebook, Written
<1> SUFFICES ASSUME NEW n \in Nat, n = Len(history),
                    NEW row, row = FlightChange(c, seat[mine].fare,
                                                seat[mine].paid)
             PROVE  ChainInv'
  BY <1>types, SMTT(30)
<1>2. row.segment = mine /\ row.old = seat[mine].fare /\ row.new = Want[c].fare
  BY Zenon DEF FlightChange
<1>3. /\ Len(history') = n + 1 /\ DOMAIN history' = 1..(n + 1)
      /\ DOMAIN history = 1..n
      /\ \A i \in 1..n : history'[i] = history[i]
      /\ history'[n + 1] = row
  <2>1. row \in Row
    <3>1. seat[mine] \in Seat
      BY <1>want, Zenon DEF TypeLedger
    <3> QED
      BY <1>want, <3>1, WantFacts, FareFacts, SMTT(30)
         DEF FlightChange, Row, Seat, Difference
  <2>2. history' = Append(history, row)
    BY <1>1, Zenon
  <2> QED
    BY <1>types, <2>1, <2>2, SMTT(30)
<1> SUFFICES ASSUME NEW s \in Segment
             PROVE  /\ \A i \in 1..(n + 2) : HasTop(Before(s, i))'
                    /\ \A i \in RowsOf(s)' : history'[i].old = At(s, i)'
                    /\ seat'[s].fare = At(s, n + 2)'
  <2>1. Len(history') + 1 = n + 2
    BY <1>3, SMTT(30)
  <2> QED
    BY <2>1, Zenon DEF ChainInv
<1>4. RowsOf(s) \subseteq 1..n /\ RowsOf(s)' \subseteq 1..(n + 1)
  BY <1>3, Zenon DEF RowsOf
<1>5. \A i \in 1..n : i \in RowsOf(s)' <=> i \in RowsOf(s)
  BY <1>3, SMTT(30) DEF RowsOf
<1>6. n + 1 \in RowsOf(s)' <=> s = mine
  BY <1>2, <1>3 DEF RowsOf
<1>7. ASSUME NEW i \in 1..(n + 1)
      PROVE  Before(s, i)' = Before(s, i) /\ Before(s, i) \subseteq 1..n
  BY <1>4, <1>5 DEF Before
<1>8. ASSUME NEW i \in 1..(n + 1)
      PROVE  HasTop(Before(s, i)) /\ At(s, i)' = At(s, i)
  <2>1. HasTop(Before(s, i))
    BY Zenon DEF ChainInv
  <2>2. Before(s, i) # {} => Max(Before(s, i)) \in 1..n
    <3>1. Before(s, i) \subseteq Int
      BY <1>7
    <3> QED
      BY <1>7, <2>1, <3>1, MaxFacts, Zenon
  <2>3. Before(s, i) # {} => history'[Max(Before(s, i))] = history[Max(Before(s, i))]
    BY <1>3, <2>2, Zenon
  <2> QED
    BY <1>7, <2>1, <2>3, Zenon DEF At
<1>9. seat[s].fare = At(s, n + 1)
  BY Zenon DEF ChainInv
<1>10. n + 1 \in 1..(n + 1)
  OBVIOUS
<1>11. ASSUME NEW i \in RowsOf(s)' PROVE history'[i].old = At(s, i)'
  <2>1. CASE i \in 1..n
    <3>1. i \in RowsOf(s) /\ i \in 1..(n + 1)
      BY <1>5, <1>11, <2>1, SMTT(30)
    <3>2. history[i].old = At(s, i)
      BY <3>1, Zenon DEF ChainInv
    <3> QED
      BY <1>3, <1>8, <2>1, <3>1, <3>2, Zenon
  <2>2. CASE i = n + 1
    BY <1>2, <1>3, <1>6, <1>8, <1>9, <1>10, <1>11, <2>2, Zenon
  <2> QED
    BY <1>4, <1>11, <2>1, <2>2
<1>12. ASSUME HasTop(Before(s, n + 2))'
       PROVE  \A i \in 1..(n + 2) : HasTop(Before(s, i))'
  <2> SUFFICES ASSUME NEW i \in 1..(n + 1) PROVE HasTop(Before(s, i))'
    BY <1>12
  <2> QED
    BY <1>7, <1>8, Zenon DEF HasTop
<1>13. CASE s = mine
  <2>1. /\ n + 1 \in Before(s, n + 2)'
        /\ \A x \in Before(s, n + 2)' : n + 1 >= x
        /\ Before(s, n + 2)' \subseteq Int
    BY <1>4, <1>6, <1>13 DEF Before
  <2>2. Max(Before(s, n + 2)') = n + 1 /\ HasTop(Before(s, n + 2))'
    BY <2>1, MaxFacts, Zenon DEF HasTop
  <2>3. At(s, n + 2)' = history'[n + 1].new
    BY <2>1, <2>2, Zenon DEF At
  <2>4. seat'[s].fare = Want[c].fare
    BY <1>1, <1>13, Zenon DEF Changed, TypeLedger
  <2> QED
    BY <1>2, <1>3, <1>11, <1>12, <2>2, <2>3, <2>4, Zenon
<1>14. CASE s # mine
  <2>1. Before(s, n + 2)' = Before(s, n + 1)'
    BY <1>4, <1>6, <1>14 DEF Before
  <2>2. At(s, n + 2)' = At(s, n + 1)' /\ HasTop(Before(s, n + 2))'
    BY <1>7, <1>8, <1>10, <2>1, Zenon DEF At
  <2>3. seat'[s] = seat[s]
    BY <1>1, <1>14, Zenon DEF TypeLedger
  <2> QED
    BY <1>8, <1>9, <1>10, <1>11, <1>12, <2>2, <2>3, Zenon
<1> QED
  BY <1>13, <1>14, Zenon

LEMMA InitChain == ASSUME LedgerInit PROVE ChainInv
<1> SUFFICES ASSUME NEW s \in Segment
             PROVE  /\ \A i \in 1..(Len(history) + 1) : HasTop(Before(s, i))
                    /\ \A i \in RowsOf(s) : history[i].old = At(s, i)
                    /\ seat[s].fare = At(s, Len(history) + 1)
  BY Zenon DEF ChainInv
<1>1. RowsOf(s) = {}
  BY DEF LedgerInit, RowsOf
<1>2. \A i : Before(s, i) = {}
  BY <1>1, Zenon DEF Before
<1>3. seat[s].fare = Fare0[s]
  BY Zenon DEF LedgerInit
<1> QED
  BY <1>1, <1>2, <1>3, Zenon DEF At, HasTop

LEMMA NextChain ==
    ASSUME TypeLedger, ChainInv, [LedgerNext]_ledger
    PROVE  ChainInv'
<1>1. CASE \E c \in Change : Rebook(c)
  BY <1>1, RebookChain, Zenon
<1>2. CASE UNCHANGED ledger
  <2>1. history' = history /\ seat' = seat
    BY <1>2, Zenon DEF ledger
  <2>2. \A s : RowsOf(s)' = RowsOf(s)
    BY <2>1, Zenon DEF RowsOf
  <2>3. \A s, i : Before(s, i)' = Before(s, i)
    BY <2>2, Zenon DEF Before
  <2>4. \A s, i : At(s, i)' = At(s, i)
    BY <2>1, <2>3, Zenon DEF At
  <2>5. \A s, i : HasTop(Before(s, i))' <=> HasTop(Before(s, i))
    BY <2>3, Zenon DEF HasTop
  <2> QED
    BY <2>1, <2>2, <2>4, <2>5, Zenon DEF ChainInv
<1> QED
  BY <1>1, <1>2, Zenon DEF LedgerNext

\* The rows of flight_changes are a chain for every segment, and the segment
\* is seated where it ends.
THEOREM LedgerChains == LedgerSpec => []HistoryIsAChain
<1>1. ASSUME ChainInv PROVE HistoryIsAChain
  BY <1>1, Zenon DEF ChainInv, HistoryIsAChain, RowsOf, Before, At
<1>2. LedgerInit => TypeLedger /\ ChainInv
  BY InitTypeLedger, InitChain, Zenon
<1>3. TypeLedger /\ ChainInv /\ [LedgerNext]_ledger => TypeLedger' /\ ChainInv'
  BY NextTypeLedger, NextChain, Zenon
<1> QED
  BY <1>1, <1>2, <1>3, PTL DEF LedgerSpec
=============================================================================
