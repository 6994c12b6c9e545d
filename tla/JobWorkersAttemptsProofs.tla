---------------------- MODULE JobWorkersAttemptsProofs ----------------------
(***************************************************************************)
(* max_attempts bounds the runs of the agent for a job, whatever fails.     *)
(* FuelInv: the runs of a job so far, with those that its copies in the     *)
(* queues and its deliveries at the workers can still cause (Stock,         *)
(* Backlog, Credits), stay within what the publish and the faults so far    *)
(* allow.  Only a publish and a fault add to the allowance; every other     *)
(* step moves runs from one place to another.                               *)
(***************************************************************************)
EXTENDS JobWorkersProofs, FiniteSetTheorems

-----------------------------------------------------------------------------
(* A function to Nat is weighed by the number of units in its places.      *)

Tank(f) == {t \in (DOMAIN f) \X Nat : t[2] \in 1..f[t[1]]}
Weight(f) == Cardinality(Tank(f))

\* g is x units heavier than f.
Heavier(f, g, x) ==
    IsFiniteSet(Tank(f)) => IsFiniteSet(Tank(g)) /\ Weight(g) = Weight(f) + x

\* A finite tank has a weight.
LEMMA WeightType ==
    ASSUME NEW f, IsFiniteSet(Tank(f))
    PROVE  Weight(f) \in Nat
BY FS_CardinalityType DEF Weight

\* A function that is zero everywhere weighs nothing.
LEMMA WeightZero ==
    ASSUME NEW D, NEW f \in [D -> Nat], \A x \in D : f[x] = 0
    PROVE  IsFiniteSet(Tank(f)) /\ Weight(f) = 0
<1>1. Tank(f) = {}
  <2>1. ASSUME NEW t \in D \X Nat PROVE ~(t[2] \in 1..f[t[1]])
    <3>1. f[t[1]] = 0 /\ t[2] \in Nat
      BY <2>1
    <3> QED
      BY <3>1
  <2> QED
    BY <2>1 DEF Tank
<1> QED
  BY <1>1, FS_EmptySet DEF Weight

\* The numbers in the sizes of 1..n and of a product with a singleton.
LEMMA BlockSize ==
    ASSUME NEW n \in Nat
    PROVE  /\ 1 \in Int /\ n \in Int
           /\ (IF 1 > n THEN 0 ELSE n - 1 + 1) = n
           /\ 1 * n = n
OBVIOUS

\* Changing one place changes the weight by the difference there.
LEMMA OnePlace ==
    ASSUME NEW D, NEW f \in [D -> Nat], NEW g \in [D -> Nat], NEW p \in D,
           \A d \in D : d # p => g[d] = f[d]
    PROVE  Heavier(f, g, g[p] - f[p])
<1> SUFFICES ASSUME IsFiniteSet(Tank(f))
             PROVE  /\ IsFiniteSet(Tank(g))
                    /\ Weight(g) = Weight(f) + (g[p] - f[p])
  BY DEF Heavier
<1> DEFINE Block(n) == {p} \X (1..n)
           Rest == Tank(f) \ Block(f[p])
<1>1. ASSUME NEW n \in Nat
      PROVE  IsFiniteSet(Block(n)) /\ Cardinality(Block(n)) = n
  <2>1. IsFiniteSet(1..n) /\ Cardinality(1..n) = n
    BY BlockSize, FS_Interval, Zenon
  <2>2. IsFiniteSet({p}) /\ Cardinality({p}) = 1
    BY FS_Singleton, Zenon
  <2>3. /\ IsFiniteSet({p} \X (1..n))
        /\ Cardinality({p} \X (1..n)) = Cardinality({p}) * Cardinality(1..n)
    BY <2>1, <2>2, FS_Product, Zenon
  <2> QED
    BY <2>1, <2>2, <2>3, BlockSize, Zenon
<1>2. f[p] \in Nat /\ g[p] \in Nat
  OBVIOUS
<1>3. ASSUME NEW h \in [D -> Nat], NEW t
      PROVE  t \in Tank(h) <=> /\ t \in D \X Nat
                               /\ t[2] \in 1..h[t[1]]
  BY DEF Tank
<1>4. ASSUME NEW h \in [D -> Nat] PROVE Block(h[p]) \subseteq Tank(h)
  <2>1. ASSUME NEW t \in Block(h[p]) PROVE t \in Tank(h)
    <3>1. t[1] = p /\ t[2] \in 1..h[p] /\ h[p] \in Nat /\ t = <<t[1], t[2]>>
      BY <2>1
    <3>2. t \in D \X Nat
      BY <3>1
    <3> QED
      BY <3>1, <3>2, <1>3
  <2> QED
    BY <2>1
<1>5. Rest = Tank(g) \ Block(g[p])
  <2>1. ASSUME NEW h \in [D -> Nat], NEW t \in D \X Nat, t \in Tank(h)
        PROVE  t \in Block(h[p]) <=> t[1] = p
    <3>1. t[2] \in 1..h[t[1]] /\ t = <<t[1], t[2]>>
      BY <1>3, <2>1
    <3> QED
      BY <3>1
  <2>2. ASSUME NEW t \in D \X Nat, t[1] # p
        PROVE  t \in Tank(f) <=> t \in Tank(g)
    <3>1. t[1] \in D
      BY <2>2
    <3>2. f[t[1]] = g[t[1]]
      BY <2>2, <3>1
    <3> QED
      BY <1>3, <3>2
  <2>3. Tank(f) \subseteq D \X Nat /\ Tank(g) \subseteq D \X Nat
    BY <1>3
  <2> HIDE DEF Block
  <2> QED
    BY <2>1, <2>2, <2>3
<1> HIDE DEF Block
<1>6. Tank(g) = Rest \union Block(g[p]) /\ Rest \cap Block(g[p]) = {}
  BY <1>4, <1>5
<1>7. /\ IsFiniteSet(Rest)
      /\ Cardinality(Rest) = Cardinality(Tank(f)) - f[p]
  <2>1. Tank(f) \cap Block(f[p]) = Block(f[p])
    BY <1>4
  <2>2. /\ IsFiniteSet(Rest)
        /\ Cardinality(Rest) =
               Cardinality(Tank(f)) - Cardinality(Tank(f) \cap Block(f[p]))
    BY FS_Difference, Zenon
  <2>3. Cardinality(Block(f[p])) = f[p]
    BY <1>1, <1>2
  <2> QED
    BY <2>1, <2>2, <2>3, Zenon
<1> HIDE DEF Rest
<1>8. /\ IsFiniteSet(Rest \union Block(g[p]))
      /\ Cardinality(Rest \union Block(g[p])) = Cardinality(Rest) + g[p] - 0
  <2>1. IsFiniteSet(Block(g[p])) /\ Cardinality(Block(g[p])) = g[p]
    BY <1>1, <1>2
  <2>2. /\ IsFiniteSet(Rest \union Block(g[p]))
        /\ Cardinality(Rest \union Block(g[p])) =
               Cardinality(Rest) + Cardinality(Block(g[p]))
               - Cardinality(Rest \cap Block(g[p]))
    BY <1>7, <2>1, FS_Union, Zenon
  <2>3. Cardinality({}) = 0
    BY FS_EmptySet, Zenon
  <2> QED
    BY <1>6, <2>1, <2>2, <2>3, Zenon
<1>9. Cardinality(Tank(f)) \in Nat
  BY FS_CardinalityType
<1> QED
  BY <1>2, <1>6, <1>7, <1>8, <1>9 DEF Weight

-----------------------------------------------------------------------------
(* The runs that copies in the queues can still cause.                     *)

\* The runs that copy m leaves to job j.
Worth(j, m) == IF m.id = j THEN MaxAttempts - m.attempt ELSE 0

Stock(j, q) == [m \in Envelope |-> q[m] * Worth(j, m)]
Backlog(j, d) ==
    [p \in Level \X Envelope |-> d[p[1]][p[2]] * Worth(j, p[2])]

\* Products of counts, as numbers the provers can add.
LEMMA Times ==
    ASSUME NEW a \in Nat, NEW b \in Nat
    PROVE  a * b \in Nat
OBVIOUS

\* One copy more.
LEMMA TimesUp ==
    ASSUME NEW a \in Nat, NEW b \in Nat, NEW x, NEW y,
           x = (a + 1) * b, y = a * b
    PROVE  x - y = b
OBVIOUS

\* One copy less.
LEMMA TimesDown ==
    ASSUME NEW a \in Nat, NEW b \in Nat, NEW x, NEW y,
           x = (a - 1) * b, y = a * b
    PROVE  x - y = 0 - b
OBVIOUS

\* What a copy is worth is a number of runs.
LEMMA WorthType ==
    ASSUME NEW j, NEW m \in Envelope
    PROVE  Worth(j, m) \in Nat
<1>1. m.attempt \in 0..MaxAttempts /\ MaxAttempts \in Nat
  BY EnvelopeFacts, JobWorkersAssumption
<1> QED
  BY <1>1 DEF Worth

\* So is what the copies of a queue are worth.
LEMMA StockType ==
    ASSUME NEW j, NEW q \in [Envelope -> Nat]
    PROVE  Stock(j, q) \in [Envelope -> Nat]
<1>1. \A m \in Envelope : q[m] * Worth(j, m) \in Nat
  BY WorthType, Times, Zenon
<1> QED
  BY <1>1, Zenon DEF Stock

\* And those of the delay queues.
LEMMA BacklogType ==
    ASSUME NEW j, NEW d \in [Level -> [Envelope -> Nat]]
    PROVE  Backlog(j, d) \in [Level \X Envelope -> Nat]
<1>1. ASSUME NEW p \in Level \X Envelope
      PROVE  d[p[1]][p[2]] * Worth(j, p[2]) \in Nat
  <2>1. p[1] \in Level /\ p[2] \in Envelope
    BY <1>1
  <2>2. d[p[1]][p[2]] \in Nat
    BY <2>1, Zenon
  <2> QED
    BY <2>1, <2>2, WorthType, Times, Zenon
<1> QED
  BY <1>1, Zenon DEF Backlog

\* Queueing a copy adds what it is worth, taking it removes that.
LEMMA StockMoves ==
    ASSUME NEW j, NEW q \in [Envelope -> Nat], NEW m \in Envelope
    PROVE  /\ Heavier(Stock(j, q), Stock(j, Put(q, m)), Worth(j, m))
           /\ q[m] > 0 =>
                  Heavier(Stock(j, q), Stock(j, Take(q, m)), 0 - Worth(j, m))
<1>1. q[m] \in Nat /\ Worth(j, m) \in Nat /\ Stock(j, q) \in [Envelope -> Nat]
  BY WorthType, StockType, Zenon
<1>2. Heavier(Stock(j, q), Stock(j, Put(q, m)), Worth(j, m))
  <2>1. Put(q, m) \in [Envelope -> Nat] /\ Put(q, m)[m] = q[m] + 1
    BY <1>1 DEF Put
  <2>2. \A e \in Envelope : e # m => Put(q, m)[e] = q[e]
    BY Zenon DEF Put
  <2>3. Stock(j, Put(q, m)) \in [Envelope -> Nat]
    BY <2>1, StockType, Zenon
  <2>4. \A e \in Envelope : e # m => Stock(j, Put(q, m))[e] = Stock(j, q)[e]
    BY <2>2, Zenon DEF Stock
  <2>5. Stock(j, Put(q, m))[m] - Stock(j, q)[m] = Worth(j, m)
    <3>1. /\ Stock(j, Put(q, m))[m] = (q[m] + 1) * Worth(j, m)
          /\ Stock(j, q)[m] = q[m] * Worth(j, m)
      BY <2>1, Zenon DEF Stock
    <3> QED
      BY <1>1, <3>1, TimesUp
  <2> QED
    BY <1>1, <2>3, <2>4, <2>5, OnePlace, Zenon
<1>3. ASSUME q[m] > 0
      PROVE  Heavier(Stock(j, q), Stock(j, Take(q, m)), 0 - Worth(j, m))
  <2>1. Take(q, m) \in [Envelope -> Nat] /\ Take(q, m)[m] = q[m] - 1
    BY <1>1, <1>3 DEF Take
  <2>2. \A e \in Envelope : e # m => Take(q, m)[e] = q[e]
    BY Zenon DEF Take
  <2>3. Stock(j, Take(q, m)) \in [Envelope -> Nat]
    BY <2>1, StockType, Zenon
  <2>4. \A e \in Envelope : e # m => Stock(j, Take(q, m))[e] = Stock(j, q)[e]
    BY <2>2, Zenon DEF Stock
  <2>5. Stock(j, Take(q, m))[m] - Stock(j, q)[m] = 0 - Worth(j, m)
    <3>1. /\ Stock(j, Take(q, m))[m] = (q[m] - 1) * Worth(j, m)
          /\ Stock(j, q)[m] = q[m] * Worth(j, m)
      BY <2>1, Zenon DEF Stock
    <3> QED
      BY <1>1, <3>1, TimesDown
  <2> QED
    BY <1>1, <2>3, <2>4, <2>5, OnePlace, Zenon
<1> QED
  BY <1>2, <1>3, Zenon

\* The same for a delay queue.
LEMMA BacklogMoves ==
    ASSUME NEW j, NEW d \in [Level -> [Envelope -> Nat]], NEW l \in Level,
           NEW m \in Envelope, NEW q \in [Envelope -> Nat],
           \A e \in Envelope : e # m => q[e] = d[l][e]
    PROVE  LET e == [d EXCEPT ![l] = q]
           IN  /\ q[m] = d[l][m] + 1 =>
                      Heavier(Backlog(j, d), Backlog(j, e), Worth(j, m))
               /\ d[l][m] > 0 /\ q[m] = d[l][m] - 1 =>
                      Heavier(Backlog(j, d), Backlog(j, e), 0 - Worth(j, m))
<1> DEFINE e == [d EXCEPT ![l] = q]
           p == <<l, m>>
           f == Backlog(j, d)
           g == Backlog(j, e)
<1>1. e \in [Level -> [Envelope -> Nat]] /\ e[l] = q
  BY Zenon
<1>2. \A k \in Level : k # l => e[k] = d[k]
  BY Zenon
<1>3. p \in Level \X Envelope /\ p[1] = l /\ p[2] = m
  OBVIOUS
<1> HIDE DEF e
<1>4. f \in [Level \X Envelope -> Nat] /\ g \in [Level \X Envelope -> Nat]
  BY <1>1, BacklogType, Zenon
<1>5. ASSUME NEW r \in Level \X Envelope, r # p PROVE g[r] = f[r]
  <2>1. r[1] \in Level /\ r[2] \in Envelope /\ (r[1] # l \/ r[2] # m)
    BY <1>5
  <2>2. e[r[1]][r[2]] = d[r[1]][r[2]]
    BY <1>1, <1>2, <2>1, Zenon
  <2> QED
    BY <2>2, Zenon DEF Backlog
<1>6. g[p] = q[m] * Worth(j, m) /\ f[p] = d[l][m] * Worth(j, m)
  BY <1>1, <1>3, Zenon DEF Backlog
<1>7. d[l][m] \in Nat /\ Worth(j, m) \in Nat
  BY WorthType, Zenon
<1>8. Heavier(f, g, g[p] - f[p])
  BY <1>3, <1>4, <1>5, OnePlace, Zenon
<1>9. /\ q[m] = d[l][m] + 1 => g[p] - f[p] = Worth(j, m)
      /\ d[l][m] > 0 /\ q[m] = d[l][m] - 1 => g[p] - f[p] = 0 - Worth(j, m)
  BY <1>6, <1>7, TimesUp, TimesDown
<1> QED
  BY <1>8, <1>9, Zenon DEF e

-----------------------------------------------------------------------------
(* The runs that a worker's delivery can still cause.                      *)

\* Labels before the run, labels that count it, and labels that settle the
\* delivery.
BeforeRun == {"get_status", "lock", "set_processing", "mark_started", "run",
              "busy"}
AfterRun == {"running", "booked", "set_metadata", "mark_finished",
             "set_final", "set_retrying", "delay"}
Settling == {"set_failed", "mark_failed", "dead_letter", "drop", "ack"}

\* A delivery the broker took back cannot be settled: the first ack or nack
\* raises, and consume() then publishes it once more, its attempt counted.
Again(left, un, ca) == IF un \/ ca THEN 0 ELSE left - 1

\* At label l, for a delivery with attempt a.
Need(l, a, un, ca) ==
    LET left == MaxAttempts - a
        again == Again(left, un, ca)
    IN  CASE l \in BeforeRun -> left + again
          [] l \in AfterRun -> left - 1 + again
          [] l \in Settling -> again
          [] l = "unwind" -> left - 1
          [] l = "requeue" -> IF un THEN left ELSE again
          [] OTHER -> 0

\* Where the labels are.
LEMMA Labels ==
    /\ "get_status" \in BeforeRun /\ "run" \in BeforeRun /\ "busy" \in BeforeRun
    /\ "running" \in AfterRun /\ "set_retrying" \in AfterRun
    /\ "delay" \in AfterRun
    /\ "set_failed" \in Settling /\ "ack" \in Settling /\ "drop" \in Settling
    /\ \A l \in Label :
           \/ l \in BeforeRun \/ l \in AfterRun \/ l \in Settling
           \/ l = "unwind" \/ l = "requeue" \/ l \in Resting \union {"release"}
BY Zenon DEF Label, BeforeRun, AfterRun, Settling, Resting

\* The groups of labels do not overlap.
LEMMA Disjoint ==
    /\ \A l \in BeforeRun : l \notin AfterRun /\ l \notin Settling
    /\ \A l \in AfterRun : l \notin Settling
    /\ \A l \in BeforeRun \union AfterRun \union Settling :
           l # "unwind" /\ l # "requeue" /\ l \notin Resting \union {"release"}
    /\ \A l \in Resting \union {"release"} : l # "unwind" /\ l # "requeue"
BY DEF BeforeRun, AfterRun, Settling, Resting

\* A copy that can be delivered has an attempt left.
LEMMA LeftFacts ==
    ASSUME NEW a \in Nat, a < MaxAttempts
    PROVE  /\ MaxAttempts \in Nat /\ MaxAttempts - a \in Nat
           /\ MaxAttempts - a >= 1 /\ MaxAttempts - a <= MaxAttempts
BY JobWorkersAssumption

\* The range of Again.
LEMMA AgainFacts ==
    ASSUME NEW left \in Nat, left >= 1, NEW un \in BOOLEAN, NEW ca \in BOOLEAN
    PROVE  /\ Again(left, un, ca) \in Nat /\ Again(left, un, ca) <= left - 1
           /\ un \/ ca => Again(left, un, ca) = 0
           /\ ~un /\ ~ca => Again(left, un, ca) = left - 1
BY DEF Again

\* Need, label by label.
LEMMA NeedBefore ==
    ASSUME NEW l \in BeforeRun, NEW a, NEW un, NEW ca
    PROVE  Need(l, a, un, ca) =
               (MaxAttempts - a) + Again(MaxAttempts - a, un, ca)
BY Disjoint DEF Need

\* After the run.
LEMMA NeedAfter ==
    ASSUME NEW l \in AfterRun, NEW a, NEW un, NEW ca
    PROVE  Need(l, a, un, ca) =
               (MaxAttempts - a) - 1 + Again(MaxAttempts - a, un, ca)
BY Disjoint DEF Need

\* Before the ack or nack.
LEMMA NeedSettling ==
    ASSUME NEW l \in Settling, NEW a, NEW un, NEW ca
    PROVE  Need(l, a, un, ca) = Again(MaxAttempts - a, un, ca)
BY Disjoint DEF Need

\* When _process() raised.
LEMMA NeedUnwinding ==
    ASSUME NEW a, NEW un, NEW ca
    PROVE  Need("unwind", a, un, ca) = (MaxAttempts - a) - 1
BY Disjoint DEF Need

\* Before the nack that requeues.
LEMMA NeedRequeue ==
    ASSUME NEW a, NEW un \in BOOLEAN, NEW ca
    PROVE  Need("requeue", a, un, ca) =
               IF un THEN MaxAttempts - a ELSE Again(MaxAttempts - a, un, ca)
BY Disjoint DEF Need

\* Without a delivery.
LEMMA NeedRest ==
    ASSUME NEW l \in Resting \union {"release"}, NEW a, NEW un, NEW ca
    PROVE  Need(l, a, un, ca) = 0
BY Disjoint DEF Need

\* Need is a number of runs at every label.
LEMMA NeedType ==
    ASSUME NEW l \in Label, NEW a \in Nat, a < MaxAttempts,
           NEW un \in BOOLEAN, NEW ca \in BOOLEAN
    PROVE  Need(l, a, un, ca) \in Nat
<1> DEFINE left == MaxAttempts - a
           again == Again(left, un, ca)
<1>1. left \in Nat /\ left >= 1 /\ again \in Nat
  BY LeftFacts, AgainFacts, Zenon
<1>2. /\ l \in BeforeRun => Need(l, a, un, ca) = left + again
      /\ l \in AfterRun => Need(l, a, un, ca) = left - 1 + again
      /\ l \in Settling => Need(l, a, un, ca) = again
      /\ l \in Resting \union {"release"} => Need(l, a, un, ca) = 0
  BY NeedBefore, NeedAfter, NeedSettling, NeedRest
<1>3. /\ l = "unwind" => Need(l, a, un, ca) = left - 1
      /\ l = "requeue" => Need(l, a, un, ca) = IF un THEN left ELSE again
  BY NeedUnwinding, NeedRequeue
<1> HIDE DEF left, again
<1> QED
  BY <1>1, <1>2, <1>3, Labels

\* Calls that neither publish, settle nor start a run need no more.
Onward(k, l) ==
    \/ k \in BeforeRun /\ l \in BeforeRun \union AfterRun
    \/ k \in AfterRun /\ l \in AfterRun
    \/ k \in BeforeRun \union AfterRun /\ l \in Settling \union {"unwind"}
    \/ k \in Settling /\ l \in Settling

\* Going onward needs no more runs than before.
LEMMA NeedOnward ==
    ASSUME NEW k, NEW l, Onward(k, l), NEW a \in Nat, a < MaxAttempts,
           NEW un \in BOOLEAN, NEW ca \in BOOLEAN
    PROVE  Need(l, a, un, ca) <= Need(k, a, un, ca)
<1> DEFINE left == MaxAttempts - a
           again == Again(left, un, ca)
<1>1. left \in Nat /\ left >= 1 /\ again \in Nat /\ again <= left - 1
  BY LeftFacts, AgainFacts, Zenon
<1>2. /\ k \in BeforeRun => Need(k, a, un, ca) = left + again
      /\ k \in AfterRun => Need(k, a, un, ca) = left - 1 + again
      /\ k \in Settling => Need(k, a, un, ca) = again
  BY NeedBefore, NeedAfter, NeedSettling
<1>3. /\ l \in BeforeRun => Need(l, a, un, ca) = left + again
      /\ l \in AfterRun => Need(l, a, un, ca) = left - 1 + again
      /\ l \in Settling => Need(l, a, un, ca) = again
      /\ l = "unwind" => Need(l, a, un, ca) = left - 1
  BY NeedBefore, NeedAfter, NeedSettling, NeedUnwinding
<1> HIDE DEF left, again
<1> QED
  BY <1>1, <1>2, <1>3 DEF Onward

\* consume() catches the exception and counts the attempt.
LEMMA NeedUnwind ==
    ASSUME NEW a \in Nat, a < MaxAttempts, NEW un \in BOOLEAN,
           NEW ca \in BOOLEAN, NEW c2 \in BOOLEAN,
           NEW l \in {"set_failed", "set_retrying"}
    PROVE  c2 => Need(l, a, un, c2) <= Need("unwind", a, un, ca)
<1> DEFINE left == MaxAttempts - a
           again == Again(left, un, c2)
<1>1. left \in Nat /\ left >= 1 /\ (c2 => again = 0)
  BY LeftFacts, AgainFacts, Zenon
<1>2. Need("unwind", a, un, ca) = left - 1
  BY NeedUnwinding
<1>3. /\ l = "set_failed" => Need(l, a, un, c2) = again
      /\ l = "set_retrying" => Need(l, a, un, c2) = left - 1 + again
  BY Labels, NeedAfter, NeedSettling
<1> HIDE DEF left, again
<1>4. 0 <= left - 1 /\ left - 1 + 0 <= left - 1
  BY <1>1
<1> QED
  BY <1>1, <1>2, <1>3, <1>4, Zenon

\* The ack or nack of a delivery.
LEMMA NeedSettle ==
    ASSUME NEW a \in Nat, a < MaxAttempts, NEW un \in BOOLEAN,
           NEW ca \in BOOLEAN, NEW u2 \in BOOLEAN,
           NEW k \in {"ack", "drop", "requeue"}
    PROVE  /\ Need("release", a, u2, ca) = 0
           /\ Need(k, a, un, ca) \in Nat
           /\ ~un /\ ~ca => Need("unwind", a, u2, ca) <= Need(k, a, un, ca)
           /\ un /\ k = "requeue" => Need(k, a, un, ca) = MaxAttempts - a
<1> DEFINE left == MaxAttempts - a
           again == Again(left, un, ca)
<1>1. left \in Nat /\ left >= 1 /\ again \in Nat
  BY LeftFacts, AgainFacts, Zenon
<1>2. ~un /\ ~ca => again = left - 1
  BY LeftFacts, AgainFacts, Zenon
<1>3. /\ k = "ack" \/ k = "drop" => Need(k, a, un, ca) = again
      /\ k = "requeue" => Need(k, a, un, ca) = IF un THEN left ELSE again
  BY Labels, NeedSettling, NeedRequeue
<1>4. Need("release", a, u2, ca) = 0 /\ Need("unwind", a, u2, ca) = left - 1
  BY NeedRest, NeedUnwinding
<1> HIDE DEF left, again
<1>5. /\ Need(k, a, un, ca) \in Nat
      /\ ~un /\ ~ca => Need("unwind", a, u2, ca) <= Need(k, a, un, ca)
      /\ un /\ k = "requeue" => Need(k, a, un, ca) = left
  BY <1>1, <1>2, <1>3, <1>4
<1> QED
  BY <1>4, <1>5, Zenon DEF left

\* The start of a run, and a delivery.
LEMMA NeedStart ==
    ASSUME NEW a \in Nat, a < MaxAttempts, NEW un \in BOOLEAN,
           NEW ca \in BOOLEAN
    PROVE  /\ Need("run", a, un, ca) = Need("running", a, un, ca) + 1
           /\ Need("running", a, un, ca) \in Nat
           /\ un => Need("get_status", a, un, ca) = MaxAttempts - a
<1> DEFINE left == MaxAttempts - a
           again == Again(left, un, ca)
<1>1. left \in Nat /\ left >= 1 /\ again \in Nat /\ (un => again = 0)
  BY LeftFacts, AgainFacts, Zenon
<1>2. /\ Need("run", a, un, ca) = left + again
      /\ Need("running", a, un, ca) = left - 1 + again
      /\ Need("get_status", a, un, ca) = left + again
  BY Labels, NeedBefore, NeedAfter
<1> HIDE DEF left, again
<1>3. /\ Need("run", a, un, ca) = Need("running", a, un, ca) + 1
      /\ Need("running", a, un, ca) \in Nat
      /\ un => Need("get_status", a, un, ca) = left
  BY <1>1, <1>2
<1> QED
  BY <1>3, Zenon DEF left

\* What publishing a copy worth x from label k leaves to the delivery.
DelayNeeds(k, a, un, ca, x) ==
    /\ Need("ack", a, un, ca) + x <= Need(k, a, un, ca)
    /\ ~un => Need("requeue", a, un, ca) <= Need(k, a, un, ca)
    /\ Need("requeue", a, un, ca) + x <= Need(k, a, un, ca) + MaxAttempts
    /\ Need("requeue", a, un, ca) <= Need(k, a, un, ca) + MaxAttempts

\* _delay() publishes a copy with attempt n from label k.
LEMMA NeedDelay ==
    ASSUME NEW a \in Nat, a < MaxAttempts, NEW un \in BOOLEAN,
           NEW ca \in BOOLEAN, NEW n \in Nat, NEW k,
           (k = "busy" /\ n = a) \/ (k = "delay" /\ n = a + 1)
    PROVE  /\ MaxAttempts - n \in Nat
           /\ DelayNeeds(k, a, un, ca, MaxAttempts - n)
<1> DEFINE left == MaxAttempts - a
           again == Again(left, un, ca)
<1>1. /\ left \in Nat /\ left >= 1 /\ left <= MaxAttempts
      /\ again \in Nat /\ again <= left - 1
  BY LeftFacts, AgainFacts, Zenon
<1>2. MaxAttempts \in Nat
  BY JobWorkersAssumption
<1>3. /\ Need("ack", a, un, ca) = again
      /\ Need("requeue", a, un, ca) = IF un THEN left ELSE again
      /\ Need("busy", a, un, ca) = left + again
      /\ Need("delay", a, un, ca) = left - 1 + again
  BY Labels, NeedBefore, NeedAfter, NeedSettling, NeedRequeue
<1>4. /\ k = "busy" => MaxAttempts - n = left
      /\ k = "delay" => MaxAttempts - n = left - 1
      /\ k = "busy" \/ k = "delay"
  BY <1>2
<1> HIDE DEF left, again
<1> QED
  BY <1>1, <1>2, <1>3, <1>4 DEF DelayNeeds

\* The delivery is handed out again, and the worker goes on without it.
LEMMA NeedDrop ==
    ASSUME NEW l \in Label, NEW a \in Nat, a < MaxAttempts, NEW ca \in BOOLEAN,
           NEW un \in BOOLEAN, NEW u2 \in BOOLEAN
    PROVE  un /\ ~u2 => Need(l, a, u2, ca) + (MaxAttempts - a)
                            <= Need(l, a, un, ca) + (2 * MaxAttempts - 1)
<1> DEFINE left == MaxAttempts - a
           ag1 == Again(left, un, ca)
           ag2 == Again(left, u2, ca)
<1>1. /\ left \in Nat /\ left >= 1 /\ left <= MaxAttempts
      /\ MaxAttempts \in Nat
      /\ ag1 \in Nat /\ ag2 \in Nat /\ ag2 <= left - 1
      /\ Need(l, a, u2, ca) \in Nat /\ Need(l, a, un, ca) \in Nat
  BY LeftFacts, AgainFacts, NeedType, Zenon
<1>2. /\ l \in BeforeRun => Need(l, a, u2, ca) = left + ag2
      /\ l \in AfterRun => Need(l, a, u2, ca) = left - 1 + ag2
      /\ l \in Settling => Need(l, a, u2, ca) = ag2
      /\ l \in Resting \union {"release"} => Need(l, a, u2, ca) = 0
  BY NeedBefore, NeedAfter, NeedSettling, NeedRest
<1>3. /\ l = "unwind" => Need(l, a, u2, ca) = left - 1
      /\ l = "requeue" => Need(l, a, u2, ca) = IF u2 THEN left ELSE ag2
  BY NeedUnwinding, NeedRequeue
<1>4. /\ l \in BeforeRun => Need(l, a, un, ca) = left + ag1
      /\ l \in AfterRun => Need(l, a, un, ca) = left - 1 + ag1
      /\ l = "unwind" => Need(l, a, un, ca) = left - 1
  BY NeedBefore, NeedAfter, NeedUnwinding
<1>5. \/ l \in BeforeRun \/ l \in AfterRun \/ l \in Settling
      \/ l = "unwind" \/ l = "requeue" \/ l \in Resting \union {"release"}
  BY Labels, Zenon
<1> HIDE DEF left, ag1, ag2
<1>6. ~u2 => Need(l, a, u2, ca) <= Need(l, a, un, ca) + (left - 1)
  BY <1>1, <1>2, <1>3, <1>4, <1>5
<1>7. ASSUME NEW n \in Nat, NEW k \in Nat, n <= k + (left - 1)
      PROVE  n + left <= k + (2 * MaxAttempts - 1)
  BY <1>1, <1>7
<1> QED
  BY <1>1, <1>6, <1>7, Zenon DEF left

\* What p publications of a job, b publishes that raise, c crashes and d lost
\* connections allow.
Allow(p, b, c, d) == MaxAttempts * (p + b + c) + (2 * MaxAttempts - 1) * d

\* What one publish or fault more allows.
LEMMA AllowSteps ==
    ASSUME NEW p \in Nat, NEW b \in Nat, NEW c \in Nat, NEW d \in Nat
    PROVE  /\ Allow(p, b, c, d) \in Nat
           /\ Allow(p + 1, b, c, d) = Allow(p, b, c, d) + MaxAttempts
           /\ Allow(p, b + 1, c, d) = Allow(p, b, c, d) + MaxAttempts
           /\ Allow(p, b, c + 1, d) = Allow(p, b, c, d) + MaxAttempts
           /\ Allow(p, b, c, d + 1) = Allow(p, b, c, d) + (2 * MaxAttempts - 1)
<1>1. MaxAttempts \in Nat /\ MaxAttempts >= 1
  BY JobWorkersAssumption
<1>2. ASSUME NEW M \in Nat, M >= 1, NEW s \in Nat, NEW k \in Nat
      PROVE  /\ M * s \in Nat /\ (2 * M - 1) * k \in Nat
             /\ M * (s + 1) = M * s + M
             /\ (2 * M - 1) * (k + 1) = (2 * M - 1) * k + (2 * M - 1)
  <2>1. 2 * M - 1 \in Nat
    BY <1>2
  <2> QED
    BY <1>2, <2>1
<1>3. /\ p + 1 + b + c = (p + b + c) + 1 /\ p + (b + 1) + c = (p + b + c) + 1
      /\ p + b + (c + 1) = (p + b + c) + 1 /\ p + b + c \in Nat
  OBVIOUS
<1> QED
  BY <1>1, <1>2, <1>3 DEF Allow

\* More publishes and faults never allow less.
LEMMA AllowMore ==
    ASSUME NEW p \in Nat, NEW b \in Nat, NEW c \in Nat, NEW d \in Nat,
           NEW p2 \in Nat, NEW b2 \in Nat, NEW c2 \in Nat, NEW d2 \in Nat,
           p <= p2, b <= b2, c <= c2, d <= d2
    PROVE  Allow(p2, b2, c2, d2) >= Allow(p, b, c, d)
<1>1. MaxAttempts \in Nat /\ 2 * MaxAttempts - 1 \in Nat
  BY JobWorkersAssumption
<1>2. ASSUME NEW k \in Nat, NEW s \in Nat, NEW t \in Nat, s <= t
      PROVE  k * s <= k * t /\ k * s \in Nat /\ k * t \in Nat
  <2>1. k * (t - s) \in Nat /\ k * t = k * s + k * (t - s) /\ k * s \in Nat
    BY <1>2
  <2> QED
    BY <2>1
<1>3. /\ p + b + c \in Nat /\ p2 + b2 + c2 \in Nat
      /\ p + b + c <= p2 + b2 + c2
  OBVIOUS
<1>4. /\ MaxAttempts * (p + b + c) <= MaxAttempts * (p2 + b2 + c2)
      /\ MaxAttempts * (p + b + c) \in Nat
      /\ MaxAttempts * (p2 + b2 + c2) \in Nat
  BY <1>1, <1>2, <1>3
<1>5. /\ (2 * MaxAttempts - 1) * d <= (2 * MaxAttempts - 1) * d2
      /\ (2 * MaxAttempts - 1) * d \in Nat
      /\ (2 * MaxAttempts - 1) * d2 \in Nat
  BY <1>1, <1>2
<1> QED
  BY <1>4, <1>5 DEF Allow

\* One more allows what AllowSteps says, whatever else grew.
LEMMA AllowFault ==
    ASSUME NEW p \in Nat, NEW b \in Nat, NEW c \in Nat, NEW d \in Nat,
           NEW p2 \in Nat, NEW b2 \in Nat, NEW c2 \in Nat, NEW d2 \in Nat,
           p <= p2, b <= b2, c <= c2, d <= d2
    PROVE  /\ p2 = p + 1 \/ b2 = b + 1 \/ c2 = c + 1 =>
                  Allow(p2, b2, c2, d2) >= Allow(p, b, c, d) + MaxAttempts
           /\ d2 = d + 1 => Allow(p2, b2, c2, d2) >=
                                Allow(p, b, c, d) + (2 * MaxAttempts - 1)
<1>0. p2 <= p2 /\ b2 <= b2 /\ c2 <= c2 /\ d2 <= d2
  OBVIOUS
<1>1. ASSUME p2 = p + 1
      PROVE  Allow(p2, b2, c2, d2) >= Allow(p, b, c, d) + MaxAttempts
  <2>1. Allow(p2, b2, c2, d2) >= Allow(p2, b, c, d)
    BY <1>0, AllowMore, Zenon
  <2>2. Allow(p2, b, c, d) = Allow(p, b, c, d) + MaxAttempts
    BY <1>1, AllowSteps
  <2> QED
    BY <2>1, <2>2, Zenon
<1>2. ASSUME b2 = b + 1
      PROVE  Allow(p2, b2, c2, d2) >= Allow(p, b, c, d) + MaxAttempts
  <2>1. Allow(p2, b2, c2, d2) >= Allow(p, b2, c, d)
    BY <1>0, AllowMore, Zenon
  <2>2. Allow(p, b2, c, d) = Allow(p, b, c, d) + MaxAttempts
    BY <1>2, AllowSteps
  <2> QED
    BY <2>1, <2>2, Zenon
<1>3. ASSUME c2 = c + 1
      PROVE  Allow(p2, b2, c2, d2) >= Allow(p, b, c, d) + MaxAttempts
  <2>1. Allow(p2, b2, c2, d2) >= Allow(p, b, c2, d)
    BY <1>0, AllowMore, Zenon
  <2>2. Allow(p, b, c2, d) = Allow(p, b, c, d) + MaxAttempts
    BY <1>3, AllowSteps
  <2> QED
    BY <2>1, <2>2, Zenon
<1>4. ASSUME d2 = d + 1
      PROVE  Allow(p2, b2, c2, d2) >=
                 Allow(p, b, c, d) + (2 * MaxAttempts - 1)
  <2>1. Allow(p2, b2, c2, d2) >= Allow(p, b, c, d2)
    BY <1>0, AllowMore, Zenon
  <2>2. Allow(p, b, c, d2) = Allow(p, b, c, d) + (2 * MaxAttempts - 1)
    BY <1>4, AllowSteps
  <2> QED
    BY <2>1, <2>2, Zenon
<1> QED
  BY <1>1, <1>2, <1>3, <1>4, Zenon

\* The numbers that the books are kept in.
LEMMA Numbers ==
    /\ 0 \in Nat /\ 0 \in Int /\ 1 \in Int
    /\ \A n \in Nat : /\ n \in Int /\ 0 - n \in Int /\ 2 * n - 1 \in Int
                      /\ n + (0 - n) + 0 + 0 <= 0
    /\ \A c, m, n \in Nat : n <= m => 0 + n + 0 + 0 <= c + m
    /\ \A q, b, c, n, al \in Nat : q + b + c + n <= al => n <= al
    /\ \A al \in Nat : 0 + 0 + 0 + 0 <= al
OBVIOUS

\* The sum of the books after a step.
LEMMA Tally ==
    ASSUME NEW q \in Nat, NEW b \in Nat, NEW c \in Nat, NEW n \in Nat,
           NEW x \in Int, NEW y \in Int, NEW k \in Int, NEW z \in Int,
           NEW g \in Int, NEW al \in Nat, NEW am \in Nat,
           NEW q2, NEW b2, NEW c2, NEW n2,
           q2 = q + x, b2 = b + y, c2 = c + k, n2 = n + z,
           x + y + k + z <= g, am >= al + g, q + b + c + n <= al
    PROVE  q2 + b2 + c2 + n2 <= am
OBVIOUS

-----------------------------------------------------------------------------
(* What is left to a job, as the runs its copies and deliveries can cause. *)

\* The runs of job j that the delivery of w can still cause.
Credit(j, w) ==
    IF JobOf(w) = j
    THEN Need(pc[w], msg[w].attempt, unacked[w], caught[w])
    ELSE 0
Credits(j) == [w \in Worker |-> Credit(j, w)]

Allowance(j) ==
    Allow(IF Published(j) THEN 1 ELSE 0, brokerFaults, crashes, drops)

\* The runs of a job that were, and those that its copies can still cause,
\* stay within what was allowed.
Fueled(j) ==
    /\ IsFiniteSet(Tank(Stock(j, ready)))
    /\ IsFiniteSet(Tank(Backlog(j, delayed)))
    /\ IsFiniteSet(Tank(Credits(j)))
    /\ Weight(Stock(j, ready)) + Weight(Backlog(j, delayed))
       + Weight(Credits(j)) + runs[j] <= Allowance(j)

FuelInv == \A j \in Job : Fueled(j)

\* The attempt a copy carries is a number.
LEMMA AttemptNat == \A m \in Envelope : m.attempt \in Nat
<1>1. \A m \in Envelope : m.attempt \in 0..MaxAttempts
  BY EnvelopeFacts, Zenon
<1> QED
  BY <1>1, JobWorkersAssumption

\* The delivery of a worker at work, as Need takes it.
LEMMA DeliveryFacts ==
    ASSUME TypeInv, NEW w \in Worker, AtWork(w)
    PROVE  /\ msg[w].attempt \in Nat /\ msg[w].attempt < MaxAttempts
           /\ unacked[w] \in BOOLEAN /\ caught[w] \in BOOLEAN
           /\ pc[w] \in Label
<1>1. msg[w].attempt \in Nat /\ msg[w].attempt < MaxAttempts
  <2>1. msg[w] \in Envelope /\ msg[w].attempt < MaxAttempts
    BY Zenon DEF AtWork
  <2> QED
    BY <2>1, AttemptNat, Zenon
<1> QED
  BY <1>1, Zenon DEF TypeInv, TypeWorker

CreditsNat == \A j \in Job, w \in Worker : Credit(j, w) \in Nat

\* Every credit is a number.
LEMMA CreditType == TypeInv => CreditsNat
<1> SUFFICES ASSUME TypeInv, NEW j \in Job, NEW w \in Worker
             PROVE  Credit(j, w) \in Nat
  BY Zenon DEF CreditsNat
<1>1. CASE pc[w] \in Resting
  BY <1>1, NeedRest DEF Credit
<1>2. CASE pc[w] \notin Resting
  <2>1. Need(pc[w], msg[w].attempt, unacked[w], caught[w]) \in Nat
    BY <1>2, Working, DeliveryFacts, NeedType, Zenon
  <2> QED
    BY <2>1 DEF Credit
<1> QED
  BY <1>1, <1>2, Zenon

\* The step leaves every other worker alone.
Others(w) ==
    \A v \in Worker : v # w =>
        /\ pc'[v] = pc[v] /\ msg'[v] = msg[v]
        /\ unacked'[v] = unacked[v] /\ caught'[v] = caught[v]

\* A step that moves only w changes only its credit.
LEMMA CreditMoves ==
    ASSUME TypeInv, TypeInv', NEW j \in Job, NEW w \in Worker, Others(w)
    PROVE  Heavier(Credits(j), Credits(j)', Credit(j, w)' - Credit(j, w))
<1>1. \A v \in Worker : Credit(j, v) \in Nat
  BY CreditType, Zenon DEF CreditsNat
<1>2. \A v \in Worker : Credit(j, v)' \in Nat
  <2>1. CreditsNat'
    BY CreditType, PTL
  <2> QED
    BY <2>1, Zenon DEF CreditsNat
<1>3. PICK f : f = Credits(j)
  OBVIOUS
<1>4. PICK g : g = Credits(j)'
  OBVIOUS
<1>5. f \in [Worker -> Nat] /\ \A v \in Worker : f[v] = Credit(j, v)
  BY <1>1, <1>3, Zenon DEF Credits
<1>6. g \in [Worker -> Nat] /\ \A v \in Worker : g[v] = Credit(j, v)'
  BY <1>2, <1>4, Zenon DEF Credits
<1>7. \A v \in Worker : v # w => Credit(j, v)' = Credit(j, v)
  BY Zenon DEF Others, Credit, JobOf
<1>8. Heavier(f, g, g[w] - f[w])
  BY <1>5, <1>6, <1>7, OnePlace, Zenon
<1> QED
  BY <1>3, <1>4, <1>5, <1>6, <1>8, Zenon

\* The faults that a step counts.
FaultSteps == /\ brokerFaults' = brokerFaults \/ BrokerFault
              /\ drops' = drops \/ drops' = drops + 1
              /\ crashes' = crashes \/ crashes' = crashes + 1

\* Every step counts its faults.
LEMMA NextFaultSteps == ASSUME [Next]_vars PROVE FaultSteps
<1> USE DEF FaultSteps
<1>1. ASSUME NEW w \in Worker,
             \/ GetJobStatus(w) \/ AcquireConversationLock(w)
             \/ SetProcessing(w) \/ MarkStarted(w) \/ StartRun(w)
             \/ NoPendingInput(w) \/ Pause(w) \/ Book(w) \/ Complete(w)
             \/ EndFailed(w) \/ FailRun(w)
      PROVE  FaultSteps
  BY <1>1, Zenon DEF GetJobStatus, AcquireConversationLock, SetProcessing,
     MarkStarted, StartRun, NoPendingInput, Pause, Book, Complete, EndFailed,
     FailRun, deaths
<1>2. ASSUME NEW w \in Worker,
             \/ SetMetadata(w) \/ MarkFinished(w) \/ SetFinal(w)
             \/ SetRetrying(w) \/ SetFailed(w) \/ MarkFailed(w)
             \/ Settle(w) \/ Requeue(w) \/ Unwind(w)
             \/ ReleaseConversationLock(w)
      PROVE  FaultSteps
  BY <1>2, Zenon DEF SetMetadata, MarkFinished, SetFinal, SetRetrying,
     SetFailed, MarkFailed, Settle, Requeue, Unwind, ReleaseConversationLock,
     deaths
<1>3. ASSUME NEW w \in Worker, Delay(w) \/ DeadLetter(w)
      PROVE  FaultSteps
  BY <1>3, Zenon DEF Delay, DeadLetter, Refused, deaths
<1>4. ASSUME NEW w \in Worker,
             Disconnect(w) \/ Reconnect(w) \/ Crash(w) \/ Restart(w)
      PROVE  FaultSteps
  BY <1>4, Zenon DEF Disconnect, Reconnect, Crash, Restart, deaths
<1>5. CASE \/ UNCHANGED vars
           \/ \E j \in Job : Publish(j)
           \/ \E w \in Worker, m \in Envelope : Deliver(w, m)
           \/ \E l \in Level, m \in Envelope : DelayExpires(l, m)
           \/ \E c \in Conversation : Expire(c)
  BY <1>5, Zenon DEF vars, Publish, Deliver, DelayExpires, Expire, deaths
<1> QED
  BY <1>1, <1>2, <1>3, <1>4, <1>5, Zenon DEF Next, Step, Process

\* A published job stays published.
LEMMA NextPublished ==
    ASSUME TypeInv, [Next]_vars, NEW j \in Job, Published(j)
    PROVE  Published(j)'
<1> USE DEF Published
<1>Marks. ASSUME NEW w \in Worker,
                 MarkStarted(w) \/ MarkFinished(w) \/ MarkFailed(w)
          PROVE  Published(j)'
  <2>1. \/ UNCHANGED timing
        \/ \E x \in {"started", "finished"} :
               timing' = [timing EXCEPT ![JobOf(w)] = timing[JobOf(w)] \union {x}]
    BY <1>Marks, Zenon DEF MarkStarted, MarkFinished, MarkFailed, Finished
  <2> QED
    BY <2>1, Zenon DEF TypeInv, TypeStore
<1>Publish. ASSUME NEW i \in Job, Publish(i) PROVE Published(j)'
  BY <1>Publish, Zenon DEF Publish, TypeInv, TypeStore
<1>1. ASSUME NEW w \in Worker,
             \/ GetJobStatus(w) \/ AcquireConversationLock(w)
             \/ SetProcessing(w) \/ StartRun(w) \/ NoPendingInput(w)
             \/ Pause(w) \/ Book(w) \/ Complete(w) \/ EndFailed(w)
             \/ FailRun(w)
      PROVE  UNCHANGED timing
  BY <1>1, Zenon DEF GetJobStatus, AcquireConversationLock, SetProcessing,
     StartRun, NoPendingInput, Pause, Book, Complete, EndFailed, FailRun,
     hashes
<1>2. ASSUME NEW w \in Worker,
             \/ SetMetadata(w) \/ SetFinal(w) \/ SetRetrying(w) \/ Delay(w)
             \/ SetFailed(w) \/ DeadLetter(w) \/ Settle(w) \/ Requeue(w)
             \/ Unwind(w) \/ ReleaseConversationLock(w)
      PROVE  UNCHANGED timing
  BY <1>2, Zenon DEF SetMetadata, SetFinal, SetRetrying, Delay, SetFailed,
     DeadLetter, Settle, Requeue, Unwind, ReleaseConversationLock, hashes
<1>3. ASSUME \/ UNCHANGED vars
             \/ \E w \in Worker, m \in Envelope : Deliver(w, m)
             \/ \E l \in Level, m \in Envelope : DelayExpires(l, m)
             \/ \E c \in Conversation : Expire(c)
             \/ \E w \in Worker : Disconnect(w) \/ Reconnect(w) \/ Crash(w)
                                  \/ Restart(w)
      PROVE  UNCHANGED timing
  BY <1>3, ZenonT(30) DEF vars, Deliver, DelayExpires, Expire, Disconnect,
     Reconnect, Crash, Restart, hashes
<1>4. UNCHANGED timing => Published(j)'
  BY Zenon
<1> QED
  BY <1>Marks, <1>Publish, <1>1, <1>2, <1>3, <1>4, ZenonT(30)
  DEF Next, Step, Process

\* No step takes an allowance back; each fault adds to it.
LEMMA NextAllowance ==
    ASSUME TypeInv, TypeInv', [Next]_vars, NEW j \in Job
    PROVE  /\ Allowance(j) \in Nat /\ Allowance(j)' \in Nat
           /\ Allowance(j)' >= Allowance(j)
           /\ ~Published(j) /\ Published(j)' =>
                  Allowance(j)' >= Allowance(j) + MaxAttempts
           /\ BrokerFault => Allowance(j)' >= Allowance(j) + MaxAttempts
           /\ crashes' = crashes + 1 =>
                  Allowance(j)' >= Allowance(j) + MaxAttempts
           /\ drops' = drops + 1 =>
                  Allowance(j)' >= Allowance(j) + (2 * MaxAttempts - 1)
<1> DEFINE P == IF Published(j) THEN 1 ELSE 0
           Q == IF Published(j)' THEN 1 ELSE 0
<1>1. P \in Nat /\ Q \in Nat /\ P <= Q
  <2>1. Published(j) => Published(j)'
    BY NextPublished, Zenon
  <2> QED
    BY <2>1
<1>2. brokerFaults \in Nat /\ crashes \in Nat /\ drops \in Nat
  BY JobWorkersAssumption DEF TypeInv, TypeFaults
<1>3. brokerFaults' \in Nat /\ crashes' \in Nat /\ drops' \in Nat
  BY JobWorkersAssumption DEF TypeInv, TypeFaults
<1>4. /\ brokerFaults' = brokerFaults \/ brokerFaults' = brokerFaults + 1
      /\ drops' = drops \/ drops' = drops + 1
      /\ crashes' = crashes \/ crashes' = crashes + 1
      /\ BrokerFault => brokerFaults' = brokerFaults + 1
  BY NextFaultSteps, Zenon DEF FaultSteps, BrokerFault
<1>5. /\ brokerFaults <= brokerFaults' /\ drops <= drops'
      /\ crashes <= crashes'
  BY <1>2, <1>4
<1>6. ~Published(j) /\ Published(j)' => P + 1 = Q
  OBVIOUS
<1>7. PICK p, b, c, d, p2, b2, c2, d2 \in Nat :
          /\ p = P /\ b = brokerFaults /\ c = crashes /\ d = drops
          /\ p2 = Q /\ b2 = brokerFaults' /\ c2 = crashes' /\ d2 = drops'
  BY <1>1, <1>2, <1>3, Zenon
<1>8. Allowance(j) = Allow(p, b, c, d) /\ Allowance(j)' = Allow(p2, b2, c2, d2)
  BY <1>7, Zenon DEF Allowance
<1>9. p <= p2 /\ b <= b2 /\ c <= c2 /\ d <= d2
  BY <1>1, <1>5, <1>7, Zenon
<1>11. /\ Allow(p, b, c, d) \in Nat /\ Allow(p2, b2, c2, d2) \in Nat
       /\ Allow(p2, b2, c2, d2) >= Allow(p, b, c, d)
  BY <1>9, AllowSteps, AllowMore, Zenon
<1>10. /\ p2 = p + 1 \/ b2 = b + 1 \/ c2 = c + 1 =>
              Allow(p2, b2, c2, d2) >= Allow(p, b, c, d) + MaxAttempts
       /\ d2 = d + 1 => Allow(p2, b2, c2, d2) >=
                            Allow(p, b, c, d) + (2 * MaxAttempts - 1)
  BY <1>9, AllowFault, Zenon
<1> HIDE DEF P, Q
<1> QED
  BY <1>4, <1>6, <1>7, <1>8, <1>10, <1>11, Zenon

\* A step that counts no fault takes nothing back.
LEMMA AllowanceKept ==
    ASSUME TypeInv, TypeInv', [Next]_vars, NEW i \in Job
    PROVE  Allowance(i)' >= Allowance(i) + 0
<1>1. PICK a \in Nat, b \in Nat :
          a = Allowance(i) /\ b = Allowance(i)' /\ b >= a
  BY NextAllowance, Zenon
<1>2. b >= a + 0
  BY <1>1
<1> QED
  BY <1>1, <1>2, Zenon

\* A step that starts no run.
LEMMA RunsSame ==
    ASSUME TypeInv, UNCHANGED runs, NEW i \in Job
    PROVE  /\ runs'[i] = runs[i] + 0
           /\ \A j \in Job : j # i => runs'[j] = runs[j]
BY DEF TypeInv, TypeAgent

\* The books of a step for job i: x, y and k are what the queues and the
\* workers gain, z the runs started and g the new allowance.
LEMMA FuelBooks ==
    ASSUME TypeInv, TypeInv', [Next]_vars, FuelInv, NEW i \in Job,
           NEW x \in Int, NEW y \in Int, NEW k \in Int, NEW z \in Int,
           NEW g \in Int,
           \A j \in Job : Heavier(Stock(j, ready), Stock(j, ready'),
                                  IF j = i THEN x ELSE 0),
           \A j \in Job : Heavier(Backlog(j, delayed), Backlog(j, delayed'),
                                  IF j = i THEN y ELSE 0),
           \A j \in Job : Heavier(Credits(j), Credits(j)',
                                  IF j = i THEN k ELSE 0),
           runs'[i] = runs[i] + z,
           \A j \in Job : j # i => runs'[j] = runs[j],
           x + y + k + z <= g,
           Allowance(i)' >= Allowance(i) + g
    PROVE  FuelInv'
<1> SUFFICES ASSUME NEW j \in Job PROVE Fueled(j)'
  BY Zenon DEF FuelInv
<1> DEFINE q == Weight(Stock(j, ready))
           b == Weight(Backlog(j, delayed))
           c == Weight(Credits(j))
           q2 == Weight(Stock(j, ready'))
           b2 == Weight(Backlog(j, delayed'))
           c2 == Weight(Credits(j)')
<1>1. Fueled(j)
  BY Zenon DEF FuelInv
<1>2. q \in Nat /\ b \in Nat /\ c \in Nat /\ q + b + c + runs[j] <= Allowance(j)
  BY <1>1, WeightType, Zenon DEF Fueled
<1>3. /\ IsFiniteSet(Tank(Stock(j, ready')))
      /\ q2 = q + IF j = i THEN x ELSE 0
  BY <1>1, Zenon DEF Fueled, Heavier
<1>4. /\ IsFiniteSet(Tank(Backlog(j, delayed')))
      /\ b2 = b + IF j = i THEN y ELSE 0
  BY <1>1, Zenon DEF Fueled, Heavier
<1>5. /\ IsFiniteSet(Tank(Credits(j)'))
      /\ c2 = c + IF j = i THEN k ELSE 0
  BY <1>1, Zenon DEF Fueled, Heavier
<1>6. runs[j] \in Nat /\ Allowance(j) \in Nat /\ Allowance(j)' \in Nat
  BY NextAllowance, Zenon DEF TypeInv, TypeAgent
<1>7. q2 + b2 + c2 + runs'[j] <= Allowance(j)'
  <2>1. CASE j = i
    <3>1. /\ q2 = q + x /\ b2 = b + y /\ c2 = c + k
          /\ runs'[j] = runs[j] + z /\ Allowance(j)' >= Allowance(j) + g
      BY <1>3, <1>4, <1>5, <2>1, Zenon
    <3> HIDE DEF q, b, c, q2, b2, c2
    <3> QED
      BY <1>2, <1>6, <3>1, Tally
  <2>2. CASE j # i
    <3>1. /\ q2 = q + 0 /\ b2 = b + 0 /\ c2 = c + 0
          /\ runs'[j] = runs[j]
      BY <1>3, <1>4, <1>5, <2>2, Zenon
    <3>2. Allowance(j)' >= Allowance(j)
      BY NextAllowance, Zenon
    <3> HIDE DEF q, b, c, q2, b2, c2
    <3> QED
      BY <1>2, <1>6, <3>1, <3>2
  <2> QED
    BY <2>1, <2>2, Zenon
<1> QED
  BY <1>3, <1>4, <1>5, <1>7, Zenon DEF Fueled

\* The same for a step that moves only w, which works for job i.
LEMMA FuelStep ==
    ASSUME TypeInv, TypeInv', [Next]_vars, FuelInv,
           NEW w \in Worker, Others(w), NEW i \in Job,
           pc[w] \in Resting \/ JobOf(w) = i,
           pc'[w] \in Resting \/ JobOf(w)' = i,
           NEW x \in Int, NEW y \in Int, NEW z \in Int, NEW g \in Int,
           \A j \in Job : Heavier(Stock(j, ready), Stock(j, ready'),
                                  IF j = i THEN x ELSE 0),
           \A j \in Job : Heavier(Backlog(j, delayed), Backlog(j, delayed'),
                                  IF j = i THEN y ELSE 0),
           runs'[i] = runs[i] + z,
           \A j \in Job : j # i => runs'[j] = runs[j],
           Credit(i, w)' + x + y + z <= Credit(i, w) + g,
           Allowance(i)' >= Allowance(i) + g
    PROVE  FuelInv'
<1>1. CreditsNat'
  BY CreditType, PTL
<1>2. Credit(i, w) \in Nat /\ Credit(i, w)' \in Nat
  BY <1>1, CreditType, Zenon DEF CreditsNat
<1>3. PICK k \in Int : k = Credit(i, w)' - Credit(i, w)
  BY <1>2
<1>4. ASSUME NEW j \in Job
      PROVE  Heavier(Credits(j), Credits(j)', IF j = i THEN k ELSE 0)
  <2>1. Heavier(Credits(j), Credits(j)', Credit(j, w)' - Credit(j, w))
    BY CreditMoves, Zenon
  <2>2. CASE j = i
    BY <1>3, <2>1, <2>2, Zenon
  <2>3. CASE j # i
    <3>1. Credit(j, w) = 0
      BY <2>3, NeedRest, Zenon DEF Credit
    <3>2. Credit(j, w)' = 0
      BY <2>3, NeedRest, Zenon DEF Credit
    <3>3. Credit(j, w)' - Credit(j, w) = 0
      BY <3>1, <3>2
    <3> QED
      BY <2>1, <2>3, <3>3, Zenon
  <2> QED
    BY <2>2, <2>3, Zenon
<1>5. x + y + k + z <= g
  BY <1>2, <1>3
<1> QED
  BY <1>4, <1>5, FuelBooks, Zenon

-----------------------------------------------------------------------------
(* Every step keeps the books.                                             *)

\* A worker's own count is the one the delivery came with, and one more after
\* _retry(); a lost connection leaves it nothing to acknowledge.
Steady ==
    \A w \in Worker :
        /\ unacked[w] => conn[w]
        /\ pc[w] \in BeforeRun => att[w] = msg[w].attempt
        /\ pc[w] \in {"set_retrying", "delay"} => att[w] = msg[w].attempt + 1

\* Nothing gets heavier by staying as it is.
LEMMA HeavierSame ==
    ASSUME NEW f
    PROVE  Heavier(f, f, 0)
<1>1. IsFiniteSet(Tank(f)) => Weight(f) \in Nat
  BY WeightType, Zenon
<1> QED
  BY <1>1 DEF Heavier

\* _retry() counts the attempt the delivery came with.
LEMMA CopyRetry ==
    ASSUME TypeInv, NEW w \in Worker, retry(w)
    PROVE  /\ pc'[w] \in {"set_failed", "set_retrying"}
           /\ att'[w] = msg[w].attempt + 1
BY Zenon DEF retry, RetryTarget, Goto, TypeInv, TypeWorker

\* A step that neither publishes, settles nor starts a run.
LEMMA FuelKept ==
    ASSUME TypeInv, TypeInv', [Next]_vars, FuelInv, NEW w \in Worker, Others(w),
           NEW i \in Job,
           pc[w] \in Resting \/ JobOf(w) = i,
           pc'[w] \in Resting \/ JobOf(w)' = i,
           UNCHANGED <<ready, delayed, runs>>,
           Credit(i, w)' <= Credit(i, w)
    PROVE  FuelInv'
<1>1. ready' = ready /\ delayed' = delayed /\ runs' = runs
  BY Zenon
<1>2. \A j \in Job : Heavier(Stock(j, ready), Stock(j, ready'),
                             IF j = i THEN 0 ELSE 0)
  BY <1>1, HeavierSame, Zenon
<1>3. \A j \in Job : Heavier(Backlog(j, delayed), Backlog(j, delayed'),
                             IF j = i THEN 0 ELSE 0)
  BY <1>1, HeavierSame, Zenon
<1>4. /\ runs'[i] = runs[i] + 0
      /\ \A j \in Job : j # i => runs'[j] = runs[j]
  BY <1>1, RunsSame, Zenon
<1>5. Credit(i, w)' + 0 + 0 + 0 <= Credit(i, w) + 0
  <2>1. CreditsNat'
    BY CreditType, PTL
  <2>2. Credit(i, w) \in Nat /\ Credit(i, w)' \in Nat
    BY <2>1, CreditType, Zenon DEF CreditsNat
  <2> QED
    BY <2>2
<1>6. Allowance(i)' >= Allowance(i) + 0
  BY AllowanceKept, Numbers, Zenon
<1>7. 0 \in Int
  OBVIOUS
<1> QED
  BY <1>2, <1>3, <1>4, <1>5, <1>6, <1>7, FuelStep, ZenonT(30)

\* A step of one worker keeps Steady.
LEMMA SteadyMoves ==
    ASSUME TypeInv, Steady, NEW w \in Worker, Process(w) \/ Unwind(w),
           UNCHANGED msg, unacked'[w] => conn'[w],
           \A v \in Worker : v # w =>
               unacked'[v] = unacked[v] /\ conn'[v] = conn[v],
           pc'[w] \in BeforeRun => pc[w] \in BeforeRun /\ att'[w] = att[w],
           pc'[w] \in {"set_retrying", "delay"} =>
               \/ pc[w] \in {"set_retrying", "delay"} /\ att'[w] = att[w]
               \/ att'[w] = msg[w].attempt + 1
    PROVE  Steady'
<1>1. /\ \A v \in Worker : v # w => pc'[v] = pc[v]
      /\ \A v \in Worker : v # w => att'[v] = att[v]
  BY OneMoves, OneCounts, ZenonT(30)
<1> SUFFICES ASSUME NEW v \in Worker
             PROVE  /\ unacked'[v] => conn'[v]
                    /\ pc'[v] \in BeforeRun => att'[v] = msg'[v].attempt
                    /\ pc'[v] \in {"set_retrying", "delay"} =>
                           att'[v] = msg'[v].attempt + 1
  BY Zenon DEF Steady
<1>2. CASE v = w
  <2>1. /\ pc[w] \in BeforeRun => att[w] = msg[w].attempt
        /\ pc[w] \in {"set_retrying", "delay"} => att[w] = msg[w].attempt + 1
    BY Zenon DEF Steady
  <2> QED
    BY <1>2, <2>1, Zenon
<1>3. CASE v # w
  BY <1>1, <1>3, Zenon DEF Steady
<1> QED
  BY <1>2, <1>3, Zenon

\* A call of process() that leads onward.
LEMMA FuelQuiet ==
    ASSUME TypeInv, TypeInv', [Next]_vars, FuelInv, Steady, NEW w \in Worker,
           Process(w),
           UNCHANGED <<ready, delayed, runs, msg, conn, unacked, caught>>,
           Onward(pc[w], pc'[w]),
           pc'[w] \in BeforeRun => att'[w] = att[w],
           pc'[w] \in {"set_retrying", "delay"} =>
               \/ pc[w] \in {"set_retrying", "delay"} /\ att'[w] = att[w]
               \/ att'[w] = msg[w].attempt + 1
    PROVE  FuelInv' /\ Steady'
<1>1. AtWork(w) /\ \A v \in Worker : v # w => pc'[v] = pc[v]
  BY OneMoves, ZenonT(30)
<1>2. Others(w)
  BY <1>1, Zenon DEF Others
<1>3. PICK i \in Job : i = JobOf(w)
  BY <1>1, Zenon DEF AtWork
<1>4. JobOf(w)' = i
  BY <1>3, Zenon DEF JobOf
<1>5. Credit(i, w)' <= Credit(i, w)
  <2>1. Need(pc'[w], msg[w].attempt, unacked[w], caught[w])
          <= Need(pc[w], msg[w].attempt, unacked[w], caught[w])
    BY <1>1, DeliveryFacts, NeedOnward, Zenon
  <2>2. Credit(i, w) = Need(pc[w], msg[w].attempt, unacked[w], caught[w])
    BY <1>3, Zenon DEF Credit
  <2>3. Credit(i, w)' = Need(pc'[w], msg[w].attempt, unacked[w], caught[w])
    BY <1>4, Zenon DEF Credit
  <2> QED
    BY <2>1, <2>2, <2>3, Zenon
<1>6. FuelInv'
  BY <1>2, <1>3, <1>4, <1>5, FuelKept, Zenon
<1>7. pc'[w] \in BeforeRun => pc[w] \in BeforeRun
  BY Zenon DEF Onward, BeforeRun, AfterRun, Settling
<1>8. Steady'
  <2>1. unacked'[w] => conn'[w]
    BY Zenon DEF Steady
  <2> QED
    BY <1>7, <2>1, SteadyMoves, Zenon
<1> QED
  BY <1>6, <1>8, Zenon

\* What the queues gain and lose, for every job.
LEMMA WorthIs ==
    ASSUME NEW m \in Envelope, NEW n \in Nat, n = MaxAttempts - m.attempt, NEW j
    PROVE  /\ Worth(j, m) = IF j = m.id THEN n ELSE 0
           /\ 0 - Worth(j, m) = IF j = m.id THEN 0 - n ELSE 0
<1>1. Worth(j, m) = IF j = m.id THEN n ELSE 0
  BY Zenon DEF Worth
<1> QED
  BY <1>1

\* A copy that enters the main queue brings its worth.
LEMMA ReadyPut ==
    ASSUME TypeInv, NEW m \in Envelope, NEW n \in Nat,
           n = MaxAttempts - m.attempt, ready' = Put(ready, m), NEW j
    PROVE  Heavier(Stock(j, ready), Stock(j, ready'),
                   IF j = m.id THEN n ELSE 0)
<1>1. Heavier(Stock(j, ready), Stock(j, ready'), Worth(j, m))
  BY StockMoves, Zenon DEF TypeInv, TypeBroker
<1> QED
  BY <1>1, WorthIs, Zenon

\* A copy that leaves it takes its worth along.
LEMMA ReadyTake ==
    ASSUME TypeInv, NEW m \in Envelope, NEW n \in Nat, ready[m] > 0,
           n = MaxAttempts - m.attempt, ready' = Take(ready, m), NEW j
    PROVE  Heavier(Stock(j, ready), Stock(j, ready'),
                   IF j = m.id THEN 0 - n ELSE 0)
<1>1. Heavier(Stock(j, ready), Stock(j, ready'), 0 - Worth(j, m))
  BY StockMoves, Zenon DEF TypeInv, TypeBroker
<1> QED
  BY <1>1, WorthIs, Zenon

\* The same for the delay queues.
LEMMA DelayedPut ==
    ASSUME TypeInv, NEW m \in Envelope, NEW n \in Nat, NEW l \in Level,
           n = MaxAttempts - m.attempt,
           delayed' = [delayed EXCEPT ![l] = Put(delayed[l], m)], NEW j
    PROVE  Heavier(Backlog(j, delayed), Backlog(j, delayed'),
                   IF j = m.id THEN n ELSE 0)
<1>1. PICK d \in [Level -> [Envelope -> Nat]] : d = delayed
  BY Zenon DEF TypeInv, TypeBroker
<1>2. d[l] \in [Envelope -> Nat]
  BY <1>1, Zenon
<1>3. /\ Put(d[l], m) \in [Envelope -> Nat] /\ Put(d[l], m)[m] = d[l][m] + 1
      /\ \A e \in Envelope : e # m => Put(d[l], m)[e] = d[l][e]
  BY <1>2 DEF Put
<1>4. Heavier(Backlog(j, d), Backlog(j, [d EXCEPT ![l] = Put(d[l], m)]),
              Worth(j, m))
  BY <1>1, <1>3, BacklogMoves, Zenon
<1>5. Heavier(Backlog(j, delayed), Backlog(j, delayed'), Worth(j, m))
  BY <1>1, <1>4, Zenon
<1> QED
  BY <1>5, WorthIs, Zenon

\* And out of them.
LEMMA DelayedTake ==
    ASSUME TypeInv, NEW m \in Envelope, NEW n \in Nat, NEW l \in Level,
           n = MaxAttempts - m.attempt, delayed[l][m] > 0,
           delayed' = [delayed EXCEPT ![l] = Take(delayed[l], m)], NEW j
    PROVE  Heavier(Backlog(j, delayed), Backlog(j, delayed'),
                   IF j = m.id THEN 0 - n ELSE 0)
<1>1. PICK d \in [Level -> [Envelope -> Nat]] : d = delayed
  BY Zenon DEF TypeInv, TypeBroker
<1>2. d[l] \in [Envelope -> Nat] /\ d[l][m] > 0
  BY <1>1, Zenon
<1>3. /\ Take(d[l], m) \in [Envelope -> Nat] /\ Take(d[l], m)[m] = d[l][m] - 1
      /\ \A e \in Envelope : e # m => Take(d[l], m)[e] = d[l][e]
  BY <1>2 DEF Take
<1>4. Heavier(Backlog(j, d), Backlog(j, [d EXCEPT ![l] = Take(d[l], m)]),
              0 - Worth(j, m))
  BY <1>1, <1>2, <1>3, BacklogMoves, Zenon
<1>5. Heavier(Backlog(j, delayed), Backlog(j, delayed'), 0 - Worth(j, m))
  BY <1>1, <1>4, Zenon
<1> QED
  BY <1>5, WorthIs, Zenon

\* A queue that stays as it is keeps its weight.
LEMMA QueueSame ==
    ASSUME NEW i, NEW j
    PROVE  /\ ready' = ready => Heavier(Stock(j, ready), Stock(j, ready'),
                                        IF j = i THEN 0 ELSE 0)
           /\ delayed' = delayed => Heavier(Backlog(j, delayed),
                                            Backlog(j, delayed'),
                                            IF j = i THEN 0 ELSE 0)
BY HeavierSame, Zenon

\* The numbers of a delivery, as constants.
LEMMA DeliveryNumbers ==
    ASSUME TypeInv, NEW w \in Worker, AtWork(w)
    PROVE  \E m \in Envelope, i \in Job, a \in Nat, n \in Nat :
               /\ m = msg[w] /\ i = m.id /\ a = m.attempt /\ a < MaxAttempts
               /\ n = MaxAttempts - a /\ n >= 1 /\ n <= MaxAttempts
<1>1. /\ msg[w] \in Envelope /\ msg[w].id \in Job /\ msg[w].attempt \in Nat
      /\ msg[w].attempt < MaxAttempts
  BY DeliveryFacts, EnvelopeFacts, Zenon DEF AtWork
<1>2. PICK m \in Envelope, i \in Job, a \in Nat :
          m = msg[w] /\ i = m.id /\ a = m.attempt /\ a < MaxAttempts
  BY <1>1, Zenon
<1>3. PICK n \in Nat : n = MaxAttempts - a /\ n >= 1 /\ n <= MaxAttempts
  BY <1>2, LeftFacts, Zenon
<1> QED
  BY <1>2, <1>3, Zenon

\* AttemptsBounded, strengthened.
SupplyInv == FuelInv /\ Steady

\* The except clause of consume() leaves what a retry can cause.
LEMMA SupplyUnwind ==
    ASSUME TypeInv, TypeInv', [Next]_vars, SupplyInv, NEW w \in Worker, Unwind(w)
    PROVE  SupplyInv'
<1>1. /\ UNCHANGED <<ready, delayed, runs, msg, conn, unacked>>
      /\ pc[w] = "unwind" /\ retry(w)
      /\ caught' = [caught EXCEPT ![w] = TRUE]
  BY ZenonT(30) DEF Unwind, broker, agent
<1>2. /\ AtWork(w) /\ \A v \in Worker : v # w => pc'[v] = pc[v]
      /\ caught'[w] \in BOOLEAN /\ caught'[w]
      /\ \A v \in Worker : v # w => caught'[v] = caught[v]
  BY <1>1, OneMoves, ZenonT(30) DEF TypeInv, TypeWorker
<1>3. pc'[w] \in {"set_failed", "set_retrying"} /\ att'[w] = msg[w].attempt + 1
  BY <1>1, CopyRetry, Zenon
<1>4. Others(w)
  BY <1>1, <1>2, Zenon DEF Others
<1>5. PICK i \in Job : i = JobOf(w)
  BY <1>2, Zenon DEF AtWork
<1>6. JobOf(w)' = i
  BY <1>1, <1>5, Zenon DEF JobOf
<1>7. Credit(i, w)' <= Credit(i, w)
  <2>1. Need(pc'[w], msg[w].attempt, unacked[w], caught'[w])
          <= Need("unwind", msg[w].attempt, unacked[w], caught[w])
    BY <1>2, <1>3, DeliveryFacts, NeedUnwind, Zenon
  <2>2. Credit(i, w) = Need("unwind", msg[w].attempt, unacked[w], caught[w])
    BY <1>1, <1>5, Zenon DEF Credit
  <2>3. Credit(i, w)' = Need(pc'[w], msg[w].attempt, unacked[w], caught'[w])
    BY <1>1, <1>6, Zenon DEF Credit
  <2> QED
    BY <2>1, <2>2, <2>3, Zenon
<1>8. FuelInv'
  BY <1>1, <1>4, <1>5, <1>6, <1>7, FuelKept, ZenonT(30) DEF SupplyInv
<1>9. Steady'
  <2>1. unacked'[w] => conn'[w]
    BY <1>1, Zenon DEF SupplyInv, Steady
  <2>2. pc'[w] \notin BeforeRun
    BY <1>3, Zenon DEF BeforeRun
  <2> QED
    BY <1>1, <1>3, <2>1, <2>2, SteadyMoves, ZenonT(30) DEF SupplyInv
<1> QED
  BY <1>8, <1>9, Zenon DEF SupplyInv

\* An ack or nack ends what the delivery can cause.
LEMMA SupplySettle ==
    ASSUME TypeInv, TypeInv', [Next]_vars, SupplyInv, NEW w \in Worker, Settle(w)
    PROVE  SupplyInv'
<1>1. /\ UNCHANGED <<ready, delayed, runs, msg, conn, att, caught>>
      /\ pc[w] \in {"ack", "drop"}
      /\ unacked' = [unacked EXCEPT ![w] = FALSE]
      /\ \/ pc'[w] = "release"
         \/ ~unacked[w] /\ ~caught[w] /\ pc'[w] = "unwind"
  BY Leads, Zenon DEF Settle, Raise, broker, agent
<1>2. /\ AtWork(w) /\ \A v \in Worker : v # w => pc'[v] = pc[v]
      /\ unacked'[w] \in BOOLEAN /\ ~unacked'[w]
      /\ \A v \in Worker : v # w => unacked'[v] = unacked[v]
  BY <1>1, OneMoves, ZenonT(30) DEF Process, TypeInv, TypeWorker
<1>3. Others(w)
  BY <1>1, <1>2, Zenon DEF Others
<1>4. PICK i \in Job : i = JobOf(w)
  BY <1>2, Zenon DEF AtWork
<1>5. JobOf(w)' = i
  BY <1>1, <1>4, Zenon DEF JobOf
<1>6. Credit(i, w)' <= Credit(i, w)
  <2>1. Credit(i, w) = Need(pc[w], msg[w].attempt, unacked[w], caught[w])
    BY <1>4, Zenon DEF Credit
  <2>2. Credit(i, w)' = Need(pc'[w], msg[w].attempt, unacked'[w], caught[w])
    BY <1>1, <1>5, Zenon DEF Credit
  <2>3. /\ Need("release", msg[w].attempt, unacked'[w], caught[w]) = 0
        /\ Need(pc[w], msg[w].attempt, unacked[w], caught[w]) \in Nat
        /\ ~unacked[w] /\ ~caught[w] =>
               Need("unwind", msg[w].attempt, unacked'[w], caught[w])
                 <= Need(pc[w], msg[w].attempt, unacked[w], caught[w])
    BY <1>1, <1>2, DeliveryFacts, NeedSettle, Zenon
  <2>4. \A n \in Nat : 0 <= n
    OBVIOUS
  <2> QED
    BY <1>1, <2>1, <2>2, <2>3, <2>4, Zenon
<1>7. FuelInv'
  BY <1>1, <1>3, <1>4, <1>5, <1>6, FuelKept, ZenonT(30) DEF SupplyInv
<1>8. Steady'
  <2>1. pc'[w] \notin BeforeRun /\ pc'[w] \notin {"set_retrying", "delay"}
    BY <1>1, Zenon DEF BeforeRun
  <2> QED
    BY <1>1, <1>2, <2>1, SteadyMoves, Zenon DEF SupplyInv, Process
<1> QED
  BY <1>7, <1>8, Zenon DEF SupplyInv

\* Starting the agent turns a run that could be into one that was.
LEMMA SupplyStartRun ==
    ASSUME TypeInv, TypeInv', [Next]_vars, SupplyInv, NEW w \in Worker, StartRun(w)
    PROVE  SupplyInv'
<1>1. /\ UNCHANGED <<ready, delayed, msg, conn, unacked, att, caught>>
      /\ pc[w] = "run" /\ pc'[w] = "running"
      /\ runs' = [runs EXCEPT ![JobOf(w)] = runs[JobOf(w)] + 1]
  BY Leads, Zenon DEF StartRun, broker
<1>2. AtWork(w) /\ \A v \in Worker : v # w => pc'[v] = pc[v]
  BY OneMoves, Zenon DEF Process
<1>3. Others(w)
  BY <1>1, <1>2, Zenon DEF Others
<1>4. PICK i \in Job : i = JobOf(w)
  BY <1>2, Zenon DEF AtWork
<1>5. JobOf(w)' = i
  BY <1>1, <1>4, Zenon DEF JobOf
<1>6. /\ runs'[i] = runs[i] + 1
      /\ \A j \in Job : j # i => runs'[j] = runs[j]
  BY <1>1, <1>4, Zenon DEF TypeInv, TypeAgent
<1>7. Credit(i, w)' + 0 + 0 + 1 <= Credit(i, w) + 0
  <2>1. PICK n \in Nat :
            /\ n = Need("running", msg[w].attempt, unacked[w], caught[w])
            /\ n + 1 = Need("run", msg[w].attempt, unacked[w], caught[w])
    BY <1>2, DeliveryFacts, NeedStart, ZenonT(30)
  <2>2. Credit(i, w) = n + 1
    BY <1>1, <1>4, <2>1, Zenon DEF Credit
  <2>3. Credit(i, w)' = n
    BY <1>1, <1>5, <2>1, Zenon DEF Credit
  <2> QED
    BY <2>2, <2>3
<1>8. Allowance(i)' >= Allowance(i) + 0 /\ 0 \in Int /\ 1 \in Int
  BY AllowanceKept, Numbers, Zenon
<1>9. \A j \in Job :
          /\ Heavier(Stock(j, ready), Stock(j, ready'), IF j = i THEN 0 ELSE 0)
          /\ Heavier(Backlog(j, delayed), Backlog(j, delayed'),
                     IF j = i THEN 0 ELSE 0)
  BY <1>1, QueueSame, Zenon
<1>10. FuelInv'
  BY <1>3, <1>4, <1>5, <1>6, <1>7, <1>8, <1>9, FuelStep, ZenonT(30) DEF SupplyInv
<1>11. Steady'
  <2>1. pc'[w] \notin BeforeRun /\ pc'[w] \notin {"set_retrying", "delay"}
    BY <1>1, Zenon DEF BeforeRun
  <2>2. unacked'[w] => conn'[w]
    BY <1>1, Zenon DEF SupplyInv, Steady
  <2> QED
    BY <1>1, <2>1, <2>2, SteadyMoves, Zenon DEF SupplyInv, Process
<1> QED
  BY <1>10, <1>11, Zenon DEF SupplyInv

\* A nack with requeue hands the copy back with what it is worth.
LEMMA SupplyRequeue ==
    ASSUME TypeInv, TypeInv', [Next]_vars, SupplyInv, NEW w \in Worker, Requeue(w)
    PROVE  SupplyInv'
<1>1. /\ UNCHANGED <<delayed, runs, msg, conn, att, caught>>
      /\ pc[w] = "requeue"
      /\ unacked' = [unacked EXCEPT ![w] = FALSE]
      /\ ready' = IF unacked[w] THEN Put(ready, msg[w]) ELSE ready
      /\ \/ pc'[w] = "release"
         \/ ~unacked[w] /\ ~caught[w] /\ pc'[w] = "unwind"
  BY Leads, Zenon DEF Requeue, Raise, agent
<1>2. /\ AtWork(w) /\ \A v \in Worker : v # w => pc'[v] = pc[v]
      /\ unacked'[w] \in BOOLEAN /\ ~unacked'[w]
      /\ \A v \in Worker : v # w => unacked'[v] = unacked[v]
  BY <1>1, OneMoves, ZenonT(30) DEF Process, TypeInv, TypeWorker
<1>3. Others(w)
  BY <1>1, <1>2, Zenon DEF Others
<1>4. PICK m \in Envelope, i \in Job, a \in Nat, n \in Nat :
          /\ m = msg[w] /\ i = m.id /\ a = m.attempt /\ a < MaxAttempts
          /\ n = MaxAttempts - a /\ n >= 1 /\ n <= MaxAttempts
  BY <1>2, DeliveryNumbers, Zenon
<1>5. JobOf(w) = i /\ JobOf(w)' = i
  BY <1>1, <1>4, Zenon DEF JobOf
<1>6. /\ Credit(i, w) = Need("requeue", a, unacked[w], caught[w])
      /\ Credit(i, w)' = Need(pc'[w], a, unacked'[w], caught[w])
  BY <1>1, <1>4, <1>5, ZenonT(30) DEF Credit
<1>7. /\ Need("release", a, unacked'[w], caught[w]) = 0
      /\ Need("requeue", a, unacked[w], caught[w]) \in Nat
      /\ ~unacked[w] /\ ~caught[w] =>
             Need("unwind", a, unacked'[w], caught[w])
               <= Need("requeue", a, unacked[w], caught[w])
      /\ unacked[w] => Need("requeue", a, unacked[w], caught[w]) = n
  <2>1. /\ unacked[w] \in BOOLEAN /\ unacked'[w] \in BOOLEAN
        /\ caught[w] \in BOOLEAN /\ "requeue" \in {"ack", "drop", "requeue"}
    BY <1>2, DeliveryFacts, Zenon
  <2> QED
    BY <1>4, <2>1, NeedSettle
<1>8. ASSUME unacked[w] PROVE FuelInv'
  <2>1. Credit(i, w)' = 0 /\ Credit(i, w) = n
    BY <1>1, <1>6, <1>7, <1>8, ZenonT(30)
  <2>2. Credit(i, w)' + n + 0 + 0 <= Credit(i, w) + 0
    BY <2>1
  <2>3. Allowance(i)' >= Allowance(i) + 0 /\ 0 \in Int /\ n \in Int
    BY AllowanceKept, Numbers, Zenon
  <2>4. \A j \in Job : Heavier(Stock(j, ready), Stock(j, ready'),
                               IF j = i THEN n ELSE 0)
    BY <1>1, <1>4, <1>8, ReadyPut, ZenonT(30)
  <2>5. \A j \in Job : Heavier(Backlog(j, delayed), Backlog(j, delayed'),
                               IF j = i THEN 0 ELSE 0)
    BY <1>1, QueueSame, Zenon
  <2>6. /\ runs'[i] = runs[i] + 0
        /\ \A j \in Job : j # i => runs'[j] = runs[j]
    BY <1>1, RunsSame, Zenon
  <2> QED
    BY <1>3, <1>5, <2>2, <2>3, <2>4, <2>5, <2>6, FuelStep, ZenonT(30) DEF SupplyInv
<1>9. ASSUME ~unacked[w] PROVE FuelInv'
  <2>1. Credit(i, w)' <= Credit(i, w)
    <3>1. \A k \in Nat : 0 <= k
      OBVIOUS
    <3> QED
      BY <1>1, <1>6, <1>7, <3>1, ZenonT(30)
  <2>2. UNCHANGED <<ready, delayed, runs>>
    BY <1>1, <1>9, Zenon
  <2> QED
    BY <1>3, <1>5, <2>1, <2>2, FuelKept, ZenonT(30) DEF SupplyInv
<1>10. FuelInv'
  BY <1>8, <1>9, Zenon
<1>11. Steady'
  <2>1. pc'[w] \notin BeforeRun /\ pc'[w] \notin {"set_retrying", "delay"}
    BY <1>1, Zenon DEF BeforeRun
  <2> QED
    BY <1>1, <1>2, <2>1, SteadyMoves, ZenonT(30) DEF SupplyInv, Process
<1> QED
  BY <1>10, <1>11, Zenon DEF SupplyInv

\* A delayed copy takes over what the delivery was worth; a publish that
\* raises may leave both.
LEMMA SupplyDelay ==
    ASSUME TypeInv, TypeInv', [Next]_vars, SupplyInv, NEW w \in Worker, Delay(w)
    PROVE  SupplyInv'
<1> DEFINE level == IF pc[w] = "busy" THEN 1 ELSE Clamp(att[w])
           filled == [delayed EXCEPT ![level] = Put(delayed[level], Copy(w))]
<1>1. /\ UNCHANGED <<ready, runs, msg, conn, unacked, att, caught>>
      /\ pc[w] \in {"busy", "delay"}
      /\ \/ pc'[w] = "ack" /\ delayed' = filled
         \/ pc'[w] = "requeue" /\ ~conn[w] /\ delayed' = delayed
         \/ pc'[w] = "requeue" /\ BrokerFault /\ delayed' = delayed
         \/ pc'[w] = "requeue" /\ BrokerFault /\ delayed' = filled
  BY Leads, Zenon DEF Delay, Refused, agent, locals
<1>2. AtWork(w) /\ \A v \in Worker : v # w => pc'[v] = pc[v]
  BY OneMoves, Zenon DEF Process
<1>3. Others(w)
  BY <1>1, <1>2, Zenon DEF Others
<1>4. PICK m \in Envelope, i \in Job, a \in Nat :
          m = msg[w] /\ i = m.id /\ a = m.attempt /\ a < MaxAttempts
  BY <1>2, DeliveryNumbers, Zenon
<1>5. JobOf(w) = i /\ JobOf(w)' = i
  BY <1>1, <1>4, Zenon DEF JobOf
<1>6. /\ level \in Level /\ att[w] \in Nat /\ Copy(w) \in Envelope
      /\ Copy(w).id = i /\ Copy(w).attempt = att[w]
  <2>1. level \in Level
    BY <1>2, DelayLevel, Zenon DEF AtWork
  <2>2. att[w] \in Nat
    BY <1>2, CountFacts, Zenon DEF AtWork
  <2> QED
    BY <1>2, <1>5, <2>1, <2>2, EnvelopeFacts, ZenonT(30) DEF Copy, AtWork
<1>7. \/ pc[w] = "busy" /\ att[w] = a
      \/ pc[w] = "delay" /\ att[w] = a + 1
  BY <1>1, <1>4, Labels, Zenon DEF SupplyInv, Steady
<1>8. PICK c \in Envelope, n \in Nat, l \in Level :
          /\ c = Copy(w) /\ n = MaxAttempts - c.attempt /\ l = level
  BY <1>4, <1>6, <1>7, <1>2, DeliveryFacts, NeedDelay, ZenonT(30)
<1>9. /\ Need("ack", a, unacked[w], caught[w]) + n
             <= Need(pc[w], a, unacked[w], caught[w])
      /\ ~unacked[w] => Need("requeue", a, unacked[w], caught[w])
                            <= Need(pc[w], a, unacked[w], caught[w])
      /\ Need("requeue", a, unacked[w], caught[w]) + n
             <= Need(pc[w], a, unacked[w], caught[w]) + MaxAttempts
      /\ Need("requeue", a, unacked[w], caught[w])
             <= Need(pc[w], a, unacked[w], caught[w]) + MaxAttempts
  <2>1. PICK k \in Label, un \in BOOLEAN, ca \in BOOLEAN, x \in Nat :
            k = pc[w] /\ un = unacked[w] /\ ca = caught[w] /\ x = att[w]
    BY <1>2, <1>6, DeliveryFacts, Zenon
  <2>2. (k = "busy" /\ x = a) \/ (k = "delay" /\ x = a + 1)
    BY <1>7, <2>1, Zenon
  <2>3. DelayNeeds(k, a, un, ca, MaxAttempts - x)
    BY <1>4, <2>2, NeedDelay, Zenon
  <2>4. n = MaxAttempts - x
    BY <1>6, <1>8, <2>1, Zenon
  <2> QED
    BY <2>1, <2>3, <2>4, ZenonT(30) DEF DelayNeeds
<1>10. /\ Credit(i, w) = Need(pc[w], a, unacked[w], caught[w])
       /\ Credit(i, w)' = Need(pc'[w], a, unacked[w], caught[w])
  BY <1>1, <1>4, <1>5, Zenon DEF Credit
<1> HIDE DEF level, filled
<1>11. /\ Credit(i, w) \in Nat /\ Credit(i, w)' \in Nat
       /\ Allowance(i) \in Nat /\ Allowance(i)' \in Nat
       /\ Allowance(i)' >= Allowance(i)
       /\ BrokerFault => Allowance(i)' >= Allowance(i) + MaxAttempts
  <2>1. CreditsNat'
    BY CreditType, PTL
  <2> QED
    BY <2>1, CreditType, NextAllowance, Zenon DEF CreditsNat
<1>12. /\ \A j \in Job : Heavier(Stock(j, ready), Stock(j, ready'),
                                 IF j = i THEN 0 ELSE 0)
       /\ delayed' = delayed =>
              \A j \in Job : Heavier(Backlog(j, delayed), Backlog(j, delayed'),
                                     IF j = i THEN 0 ELSE 0)
  BY <1>1, QueueSame, Zenon
<1>13. delayed' = filled =>
           \A j \in Job : Heavier(Backlog(j, delayed), Backlog(j, delayed'),
                                  IF j = i THEN n ELSE 0)
  BY <1>6, <1>8, DelayedPut, Zenon DEF filled
<1>14. /\ runs'[i] = runs[i] + 0
       /\ \A j \in Job : j # i => runs'[j] = runs[j]
  BY <1>1, RunsSame, Zenon
<1>15. 0 \in Int /\ n \in Int /\ MaxAttempts \in Int
  BY JobWorkersAssumption, Numbers, Zenon
<1>16. ASSUME pc'[w] = "ack", delayed' = filled PROVE FuelInv'
  <2>1. Credit(i, w)' + 0 + n + 0 <= Credit(i, w) + 0
    <3>1. Credit(i, w)' + n <= Credit(i, w)
      BY <1>9, <1>10, <1>16, Zenon
    <3> QED
      BY <1>11, <3>1
  <2>2. Allowance(i)' >= Allowance(i) + 0
    BY AllowanceKept, Zenon
  <2> QED
    BY <1>3, <1>5, <1>12, <1>13, <1>14, <1>15, <1>16, <2>1, <2>2, FuelStep,
       ZenonT(30) DEF SupplyInv
<1>17. ASSUME pc'[w] = "requeue", ~conn[w], delayed' = delayed PROVE FuelInv'
  <2>1. ~unacked[w]
    BY <1>17, Zenon DEF SupplyInv, Steady
  <2>2. Credit(i, w)' <= Credit(i, w)
    BY <1>9, <1>10, <1>17, <2>1, ZenonT(30)
  <2> QED
    BY <1>1, <1>3, <1>5, <1>17, <2>2, FuelKept, ZenonT(30) DEF SupplyInv
<1>18. ASSUME pc'[w] = "requeue", BrokerFault, delayed' = delayed PROVE FuelInv'
  <2>1. Credit(i, w)' + 0 + 0 + 0 <= Credit(i, w) + MaxAttempts
    <3>1. Credit(i, w)' <= Credit(i, w) + MaxAttempts
      BY <1>9, <1>10, <1>18, Zenon
    <3> QED
      BY <1>11, <1>15, <3>1
  <2>2. Allowance(i)' >= Allowance(i) + MaxAttempts
    BY <1>11, <1>18, Zenon
  <2> QED
    BY <1>3, <1>5, <1>12, <1>14, <1>15, <1>18, <2>1, <2>2, FuelStep, ZenonT(30)
       DEF SupplyInv
<1>19. ASSUME pc'[w] = "requeue", BrokerFault, delayed' = filled PROVE FuelInv'
  <2>1. Credit(i, w)' + 0 + n + 0 <= Credit(i, w) + MaxAttempts
    <3>1. Credit(i, w)' + n <= Credit(i, w) + MaxAttempts
      BY <1>9, <1>10, <1>19, Zenon
    <3> QED
      BY <1>11, <1>15, <3>1
  <2>2. Allowance(i)' >= Allowance(i) + MaxAttempts
    BY <1>11, <1>19, Zenon
  <2> QED
    BY <1>3, <1>5, <1>12, <1>13, <1>14, <1>15, <1>19, <2>1, <2>2, FuelStep,
       ZenonT(30) DEF SupplyInv
<1>20. FuelInv'
  BY <1>1, <1>16, <1>17, <1>18, <1>19, ZenonT(30)
<1>21. Steady'
  <2>1. pc'[w] \notin BeforeRun /\ pc'[w] \notin {"set_retrying", "delay"}
    BY <1>1, Zenon DEF BeforeRun
  <2>2. unacked'[w] => conn'[w]
    BY <1>1, Zenon DEF SupplyInv, Steady
  <2> QED
    BY <1>1, <2>1, <2>2, SteadyMoves, ZenonT(30) DEF SupplyInv, Process
<1> QED
  BY <1>20, <1>21, Zenon DEF SupplyInv

\* A step that changes no queue, no credit and starts no run.
LEMMA FuelSame ==
    ASSUME TypeInv, TypeInv', [Next]_vars, FuelInv,
           UNCHANGED <<ready, delayed, runs>>,
           \A j \in Job, w \in Worker : Credit(j, w)' = Credit(j, w)
    PROVE  FuelInv'
<1> SUFFICES ASSUME NEW j \in Job PROVE Fueled(j)'
  BY Zenon DEF FuelInv
<1>1. Credits(j)' = Credits(j)
  BY Zenon DEF Credits
<1>2. \A i \in Job : Heavier(Stock(i, ready), Stock(i, ready'),
                             IF i = j THEN 0 ELSE 0)
  BY QueueSame, Zenon
<1>3. \A i \in Job : Heavier(Backlog(i, delayed), Backlog(i, delayed'),
                             IF i = j THEN 0 ELSE 0)
  BY QueueSame, Zenon
<1>4. \A i \in Job : Heavier(Credits(i), Credits(i)', IF i = j THEN 0 ELSE 0)
  <2>1. ASSUME NEW i \in Job
        PROVE  Heavier(Credits(i), Credits(i)', IF i = j THEN 0 ELSE 0)
    <3>1. Credits(i)' = Credits(i)
      BY Zenon DEF Credits
    <3> QED
      BY <3>1, HeavierSame, Zenon
  <2> QED
    BY <2>1, Zenon
<1>5. runs'[j] = runs[j] + 0 /\ \A i \in Job : i # j => runs'[i] = runs[i]
  BY RunsSame, Zenon
<1>6. Allowance(j)' >= Allowance(j) + 0 /\ 0 \in Int /\ 0 + 0 + 0 + 0 <= 0
  BY AllowanceKept, Numbers, Zenon
<1>7. FuelInv'
  BY <1>2, <1>3, <1>4, <1>5, <1>6, FuelBooks, ZenonT(30)
<1> QED
  BY <1>7, Zenon DEF FuelInv

\* A worker that rests, or is about to, needs nothing for any job.
LEMMA CreditRest ==
    ASSUME NEW w \in Worker, NEW j
    PROVE  /\ pc[w] \in Resting \union {"release"} => Credit(j, w) = 0
           /\ pc'[w] \in Resting \union {"release"} => Credit(j, w)' = 0
BY NeedRest, Zenon DEF Credit

\* A worker that comes to rest with nothing left to settle.
LEMMA SupplyRest ==
    ASSUME TypeInv, TypeInv', [Next]_vars, SupplyInv, NEW w \in Worker,
           \/ ReleaseConversationLock(w)
           \/ Restart(w)
    PROVE  SupplyInv'
<1>1. /\ UNCHANGED <<ready, delayed, runs, unacked>>
      /\ pc[w] \in Resting \union {"release"} /\ pc'[w] = "idle"
      /\ \A v \in Worker : v # w =>
             /\ pc'[v] = pc[v] /\ msg'[v] = msg[v] /\ att'[v] = att[v]
             /\ caught'[v] = caught[v] /\ conn'[v] = conn[v]
      /\ conn'[w] = conn[w] \/ conn'[w]
  BY ZenonT(30) DEF ReleaseConversationLock, Restart, Forget, Goto, broker,
                    agent, TypeInv, TypeWorker, Resting
<1>2. FuelInv'
  <2>1. ASSUME NEW j \in Job, NEW v \in Worker PROVE Credit(j, v)' = Credit(j, v)
    <3>1. CASE v = w
      BY <1>1, <3>1, CreditRest, Zenon DEF Resting
    <3>2. CASE v # w
      BY <1>1, <3>2, Zenon DEF Credit, JobOf
    <3> QED
      BY <3>1, <3>2, Zenon
  <2> QED
    BY <1>1, <2>1, FuelSame, Zenon DEF SupplyInv
<1>3. Steady'
  BY <1>1, ZenonT(30) DEF SupplyInv, Steady, BeforeRun
<1> QED
  BY <1>2, <1>3, ZenonT(30) DEF SupplyInv

\* The broker's clock and connect_robust touch neither copies nor workers.
LEMMA SupplyClock ==
    ASSUME TypeInv, TypeInv', [Next]_vars, SupplyInv,
           UNCHANGED <<ready, delayed, runs, pc, msg, att, unacked, caught>>,
           \A w \in Worker : conn[w] => conn'[w]
    PROVE  SupplyInv'
<1>1. FuelInv'
  <2>1. \A j \in Job, v \in Worker : Credit(j, v)' = Credit(j, v)
    BY Zenon DEF Credit, JobOf
  <2> QED
    BY <2>1, FuelSame, Zenon DEF SupplyInv
<1>2. Steady'
  BY Zenon DEF SupplyInv, Steady
<1> QED
  BY <1>1, <1>2, Zenon DEF SupplyInv

\* A delivery moves what the copy is worth from the queue to the worker.
LEMMA SupplyDeliver ==
    ASSUME TypeInv, TypeInv', [Next]_vars, SupplyInv, NEW w \in Worker,
           NEW m \in Envelope, Deliver(w, m)
    PROVE  SupplyInv'
<1>1. /\ UNCHANGED <<delayed, runs, conn, caught>>
      /\ pc[w] = "idle" /\ pc'[w] = "get_status" /\ conn[w]
      /\ ready[m] > 0 /\ ready' = Take(ready, m)
      /\ msg'[w] = m /\ att'[w] = m.attempt /\ unacked'[w]
      /\ \A v \in Worker : v # w =>
             /\ pc'[v] = pc[v] /\ msg'[v] = msg[v] /\ att'[v] = att[v]
             /\ unacked'[v] = unacked[v]
  BY ZenonT(30) DEF Deliver, Goto, agent, no_ack, TypeInv, TypeWorker
<1>2. Others(w)
  BY <1>1, Zenon DEF Others
<1>3. PICK i \in Job, a \in Nat, n \in Nat :
          i = m.id /\ a = m.attempt /\ a < MaxAttempts /\ n = MaxAttempts - a
  <2>1. m.id \in Job /\ m.attempt \in Nat /\ m.attempt < MaxAttempts
    BY <1>1, EnvelopeFacts DEF TypeInv, QueuesLeft
  <2>2. MaxAttempts - m.attempt \in Nat
    BY <2>1, JobWorkersAssumption
  <2> QED
    BY <2>1, <2>2, Zenon
<1>4. JobOf(w)' = i /\ pc[w] \in Resting
  BY <1>1, <1>3, Zenon DEF JobOf, Resting
<1>5. Credit(i, w) = 0 /\ Credit(i, w)' = n
  <2>1. Credit(i, w) = 0
    BY <1>4, CreditRest, Zenon
  <2>2. Credit(i, w)' = Need("get_status", a, unacked'[w], caught[w])
    BY <1>1, <1>3, <1>4, Zenon DEF Credit
  <2>3. unacked'[w] \in BOOLEAN /\ caught[w] \in BOOLEAN
    BY Zenon DEF TypeInv, TypeWorker
  <2>4. Need("get_status", a, unacked'[w], caught[w]) = n
    BY <1>1, <1>3, <2>3, NeedStart, ZenonT(30)
  <2> QED
    BY <2>1, <2>2, <2>4, Zenon
<1>6. Credit(i, w)' + (0 - n) + 0 + 0 <= Credit(i, w) + 0
  BY <1>5
<1>7. Allowance(i)' >= Allowance(i) + 0 /\ 0 \in Int /\ 0 - n \in Int
  BY AllowanceKept, Numbers, Zenon
<1>8. \A j \in Job : Heavier(Stock(j, ready), Stock(j, ready'),
                             IF j = i THEN 0 - n ELSE 0)
  BY <1>1, <1>3, ReadyTake, Zenon
<1>9. \A j \in Job : Heavier(Backlog(j, delayed), Backlog(j, delayed'),
                             IF j = i THEN 0 ELSE 0)
  BY <1>1, QueueSame, Zenon
<1>10. /\ runs'[i] = runs[i] + 0
       /\ \A j \in Job : j # i => runs'[j] = runs[j]
  BY <1>1, RunsSame, Zenon
<1>11. FuelInv'
  BY <1>2, <1>4, <1>6, <1>7, <1>8, <1>9, <1>10, FuelStep, ZenonT(30) DEF SupplyInv
<1>12. Steady'
  BY <1>1, Labels, ZenonT(30) DEF SupplyInv, Steady
<1> QED
  BY <1>11, <1>12, Zenon DEF SupplyInv

\* A delay that expires moves a copy from one queue to another.
LEMMA SupplyDelayExpires ==
    ASSUME TypeInv, TypeInv', [Next]_vars, SupplyInv, NEW l \in Level,
           NEW m \in Envelope, DelayExpires(l, m)
    PROVE  SupplyInv'
<1>1. /\ UNCHANGED <<runs, pc, msg, att, unacked, conn, caught>>
      /\ delayed[l][m] > 0 /\ ready' = Put(ready, m)
      /\ delayed' = [delayed EXCEPT ![l] = Take(delayed[l], m)]
  BY ZenonT(30) DEF DelayExpires, agent, locals
<1>2. PICK i \in Job, n \in Nat : i = m.id /\ n = MaxAttempts - m.attempt
  <2>1. m.id \in Job /\ MaxAttempts - m.attempt \in Nat
    BY EnvelopeFacts, JobWorkersAssumption
  <2> QED
    BY <2>1, Zenon
<1>3. \A j \in Job : Heavier(Stock(j, ready), Stock(j, ready'),
                             IF j = i THEN n ELSE 0)
  BY <1>1, <1>2, ReadyPut, Zenon
<1>4. \A j \in Job : Heavier(Backlog(j, delayed), Backlog(j, delayed'),
                             IF j = i THEN 0 - n ELSE 0)
  BY <1>1, <1>2, DelayedTake, Zenon
<1>5. \A j \in Job : Heavier(Credits(j), Credits(j)', IF j = i THEN 0 ELSE 0)
  BY <1>1, HeavierSame, Zenon DEF Credits, Credit, JobOf
<1>6. /\ runs'[i] = runs[i] + 0
      /\ \A j \in Job : j # i => runs'[j] = runs[j]
  BY <1>1, RunsSame, Zenon
<1>7. /\ Allowance(i)' >= Allowance(i) + 0
      /\ 0 \in Int /\ n \in Int /\ 0 - n \in Int /\ n + (0 - n) + 0 + 0 <= 0
  BY AllowanceKept, Numbers, Zenon
<1>8. FuelInv'
  BY <1>3, <1>4, <1>5, <1>6, <1>7, FuelBooks, ZenonT(30) DEF SupplyInv
<1>9. Steady'
  BY <1>1, Zenon DEF SupplyInv, Steady
<1> QED
  BY <1>8, <1>9, Zenon DEF SupplyInv

\* Publishing a job allows its attempts.
LEMMA SupplyPublish ==
    ASSUME TypeInv, TypeInv', [Next]_vars, SupplyInv, NEW i \in Job, Publish(i)
    PROVE  SupplyInv'
<1> DEFINE first == [id |-> i, attempt |-> 0]
<1>1. /\ UNCHANGED <<delayed, runs, pc, msg, att, unacked, conn, caught>>
      /\ ready' = Put(ready, first)
      /\ ~Published(i) /\ Published(i)'
  BY ZenonT(30) DEF Publish, agent, locals, Published, TypeInv, TypeStore
<1>2. /\ first \in Envelope /\ first.id = i /\ first.attempt = 0
      /\ MaxAttempts \in Nat /\ MaxAttempts = MaxAttempts - 0
  BY EnvelopeFacts, JobWorkersAssumption
<1> HIDE DEF first
<1>3. \A j \in Job : Heavier(Stock(j, ready), Stock(j, ready'),
                             IF j = i THEN MaxAttempts ELSE 0)
  BY <1>1, <1>2, ReadyPut, Zenon
<1>4. \A j \in Job : Heavier(Backlog(j, delayed), Backlog(j, delayed'),
                             IF j = i THEN 0 ELSE 0)
  BY <1>1, QueueSame, Zenon
<1>5. \A j \in Job : Heavier(Credits(j), Credits(j)', IF j = i THEN 0 ELSE 0)
  BY <1>1, HeavierSame, Zenon DEF Credits, Credit, JobOf
<1>6. /\ runs'[i] = runs[i] + 0
      /\ \A j \in Job : j # i => runs'[j] = runs[j]
  BY <1>1, RunsSame, Zenon
<1>7. Allowance(i)' >= Allowance(i) + MaxAttempts
  BY <1>1, NextAllowance, Zenon
<1>8. /\ 0 \in Int /\ MaxAttempts \in Int
      /\ MaxAttempts + 0 + 0 + 0 <= MaxAttempts
  BY <1>2
<1>9. FuelInv'
  BY <1>3, <1>4, <1>5, <1>6, <1>7, <1>8, FuelBooks, ZenonT(30) DEF SupplyInv
<1>10. Steady'
  BY <1>1, Zenon DEF SupplyInv, Steady
<1> QED
  BY <1>9, <1>10, Zenon DEF SupplyInv

\* A worker whose delivery the broker takes back, while it goes on with the
\* job (a lost connection) or dies.
LEMMA SupplyLost ==
    ASSUME TypeInv, TypeInv', [Next]_vars, SupplyInv, NEW w \in Worker,
           AtWork(w), unacked[w], Others(w), UNCHANGED <<delayed, runs>>,
           ready' = Put(ready, msg[w]), ~unacked'[w],
           \/ drops' = drops + 1 /\ pc'[w] = pc[w] /\ msg'[w] = msg[w]
              /\ caught'[w] = caught[w]
           \/ crashes' = crashes + 1 /\ pc'[w] = "down"
    PROVE  FuelInv'
<1>1. PICK m \in Envelope, i \in Job, a \in Nat, n \in Nat :
          /\ m = msg[w] /\ i = m.id /\ a = m.attempt /\ a < MaxAttempts
          /\ n = MaxAttempts - a /\ n >= 1 /\ n <= MaxAttempts
  BY DeliveryNumbers, Zenon
<1>2. JobOf(w) = i /\ (pc'[w] \in Resting \/ JobOf(w)' = i)
  BY <1>1, Zenon DEF JobOf, Resting
<1>3. /\ \A j \in Job : Heavier(Stock(j, ready), Stock(j, ready'),
                                IF j = i THEN n ELSE 0)
      /\ \A j \in Job : Heavier(Backlog(j, delayed), Backlog(j, delayed'),
                                IF j = i THEN 0 ELSE 0)
  BY <1>1, ReadyPut, QueueSame, Zenon
<1>4. /\ runs'[i] = runs[i] + 0
      /\ \A j \in Job : j # i => runs'[j] = runs[j]
  BY RunsSame, Zenon
<1>5. Credit(i, w) \in Nat /\ Credit(i, w)' \in Nat /\ MaxAttempts \in Nat
  <2>1. CreditsNat'
    BY CreditType, PTL
  <2> QED
    BY <2>1, CreditType, JobWorkersAssumption, Zenon DEF CreditsNat
<1>6. 0 \in Int /\ n \in Int /\ MaxAttempts \in Int /\ 2 * MaxAttempts - 1 \in Int
  BY <1>5, Numbers, Zenon
<1>7. ASSUME drops' = drops + 1, pc'[w] = pc[w], msg'[w] = msg[w],
             caught'[w] = caught[w]
      PROVE  FuelInv'
  <2>1. /\ Credit(i, w) = Need(pc[w], a, unacked[w], caught[w])
        /\ Credit(i, w)' = Need(pc[w], a, unacked'[w], caught[w])
    BY <1>1, <1>2, <1>7, ZenonT(30) DEF Credit, JobOf
  <2>2. unacked'[w] \in BOOLEAN
    BY Zenon DEF TypeInv, TypeWorker
  <2>3. Credit(i, w)' + n <= Credit(i, w) + (2 * MaxAttempts - 1)
    <3>1. Need(pc[w], a, unacked'[w], caught[w]) + (MaxAttempts - a)
            <= Need(pc[w], a, unacked[w], caught[w]) + (2 * MaxAttempts - 1)
      BY <1>1, <2>2, DeliveryFacts, NeedDrop, ZenonT(30)
    <3> QED
      BY <1>1, <2>1, <3>1, Zenon
  <2>4. Credit(i, w)' + n + 0 + 0 <= Credit(i, w) + (2 * MaxAttempts - 1)
    BY <1>5, <2>3
  <2>5. Allowance(i)' >= Allowance(i) + (2 * MaxAttempts - 1)
    BY <1>7, NextAllowance, Zenon
  <2> QED
    BY <1>2, <1>3, <1>4, <1>6, <2>4, <2>5, FuelStep, ZenonT(30) DEF SupplyInv
<1>8. ASSUME crashes' = crashes + 1, pc'[w] = "down" PROVE FuelInv'
  <2>1. Credit(i, w)' = 0
    BY <1>8, CreditRest, Zenon DEF Resting
  <2>2. Credit(i, w)' + n + 0 + 0 <= Credit(i, w) + MaxAttempts
    BY <1>1, <1>5, <2>1, Numbers, ZenonT(30)
  <2>3. Allowance(i)' >= Allowance(i) + MaxAttempts
    BY <1>8, NextAllowance, ZenonT(30)
  <2> QED
    BY <1>2, <1>3, <1>4, <1>6, <2>2, <2>3, FuelStep, ZenonT(30) DEF SupplyInv
<1> QED
  BY <1>7, <1>8, Zenon

\* A lost connection.
LEMMA SupplyDisconnect ==
    ASSUME TypeInv, TypeInv', [Next]_vars, SupplyInv, NEW w \in Worker, Disconnect(w)
    PROVE  SupplyInv'
<1>1. /\ UNCHANGED <<delayed, runs, pc, msg, att, caught>>
      /\ drops' = drops + 1 /\ ~unacked'[w]
      /\ ready' = IF unacked[w] THEN Put(ready, msg[w]) ELSE ready
      /\ \A v \in Worker : v # w =>
             unacked'[v] = unacked[v] /\ conn'[v] = conn[v]
  BY ZenonT(30) DEF Disconnect, agent, TypeInv, TypeWorker
<1>2. unacked[w] => AtWork(w)
  BY Working, Zenon DEF TypeInv, WorkersLeft
<1>3. FuelInv'
  <2>1. CASE unacked[w]
    <3>1. Others(w) /\ ready' = Put(ready, msg[w])
      BY <1>1, <2>1, Zenon DEF Others
    <3> QED
      BY <1>1, <1>2, <2>1, <3>1, SupplyLost, ZenonT(30)
  <2>2. CASE ~unacked[w]
    <3>1. \A v \in Worker : unacked'[v] = unacked[v]
      <4>1. unacked[w] \in BOOLEAN /\ unacked'[w] \in BOOLEAN
        BY Zenon DEF TypeInv, TypeWorker
      <4>2. unacked'[w] = unacked[w]
        BY <1>1, <2>2, <4>1, Zenon
      <4> QED
        BY <1>1, <4>2, Zenon
    <3>2. \A j \in Job, v \in Worker : Credit(j, v)' = Credit(j, v)
      BY <1>1, <3>1, Zenon DEF Credit, JobOf
    <3> QED
      BY <1>1, <2>2, <3>2, FuelSame, Zenon DEF SupplyInv
  <2> QED
    BY <2>1, <2>2, Zenon
<1>4. Steady'
  BY <1>1, ZenonT(30) DEF SupplyInv, Steady
<1> QED
  BY <1>3, <1>4, Zenon DEF SupplyInv

\* A crash.
LEMMA SupplyCrash ==
    ASSUME TypeInv, TypeInv', [Next]_vars, SupplyInv, NEW w \in Worker, Crash(w)
    PROVE  SupplyInv'
<1>1. /\ UNCHANGED <<delayed, runs>>
      /\ crashes' = crashes + 1 /\ ~unacked'[w] /\ pc'[w] = "down"
      /\ ready' = IF unacked[w] THEN Put(ready, msg[w]) ELSE ready
      /\ \A v \in Worker : v # w =>
             /\ pc'[v] = pc[v] /\ msg'[v] = msg[v] /\ att'[v] = att[v]
             /\ caught'[v] = caught[v] /\ unacked'[v] = unacked[v]
             /\ conn'[v] = conn[v]
  BY ZenonT(30) DEF Crash, Forget, Goto, TypeInv, TypeWorker
<1>2. unacked[w] => AtWork(w)
  BY Working, Zenon DEF TypeInv, WorkersLeft
<1>3. Others(w) /\ pc'[w] \in Resting
  BY <1>1, Zenon DEF Others, Resting
<1>4. FuelInv'
  <2>1. CASE unacked[w]
    BY <1>1, <1>2, <1>3, <2>1, SupplyLost, Zenon
  <2>2. CASE ~unacked[w] /\ pc[w] \in Resting
    <3>1. ASSUME NEW j \in Job, NEW v \in Worker
          PROVE  Credit(j, v)' = Credit(j, v)
      <4>1. CASE v = w
        BY <1>3, <2>2, <4>1, CreditRest, Zenon
      <4>2. CASE v # w
        BY <1>1, <4>2, Zenon DEF Credit, JobOf
      <4> QED
        BY <4>1, <4>2, Zenon
    <3> QED
      BY <1>1, <2>2, <3>1, FuelSame, Zenon DEF SupplyInv
  <2>3. CASE ~unacked[w] /\ pc[w] \notin Resting
    <3>1. PICK i \in Job : i = JobOf(w)
      BY <2>3, Working, Zenon DEF AtWork
    <3>2. Credit(i, w)' = 0 /\ Credit(i, w) \in Nat
      BY <1>3, CreditRest, CreditType, ZenonT(30) DEF CreditsNat
    <3>3. Credit(i, w)' <= Credit(i, w)
      BY <3>2
    <3> QED
      BY <1>1, <1>3, <2>3, <3>1, <3>3, FuelKept, ZenonT(30) DEF SupplyInv
  <2> QED
    BY <2>1, <2>2, <2>3, Zenon
<1>5. Steady'
  BY <1>1, ZenonT(30) DEF SupplyInv, Steady, BeforeRun
<1> QED
  BY <1>4, <1>5, Zenon DEF SupplyInv

\* Every step preserves the supply.
LEMMA NextSupplyInv ==
    ASSUME TypeInv, TypeInv', SupplyInv, [Next]_vars
    PROVE  SupplyInv'
<1>GetJobStatus. ASSUME NEW w \in Worker, GetJobStatus(w) PROVE SupplyInv'
  <2>1. /\ UNCHANGED <<ready, delayed, runs, msg, conn, unacked, caught, att>>
        /\ pc[w] = "get_status"
        /\ pc'[w] \in {"ack", "set_failed", "lock", "unwind"}
    BY <1>GetJobStatus, Leads, Zenon
    DEF GetJobStatus, broker, agent, locals, StatusTarget
  <2>2. Onward(pc[w], pc'[w])
    BY <2>1, Zenon DEF Onward, BeforeRun, AfterRun, Settling
  <2> QED
    BY <1>GetJobStatus, <2>1, <2>2, FuelQuiet, ZenonT(30) DEF Process, SupplyInv
<1>AcquireConversationLock. ASSUME NEW w \in Worker, AcquireConversationLock(w) PROVE SupplyInv'
  <2>1. /\ UNCHANGED <<ready, delayed, runs, msg, conn, unacked, caught, att>>
        /\ pc[w] = "lock"
        /\ pc'[w] \in {"set_processing", "busy", "unwind"}
    BY <1>AcquireConversationLock, Leads, Zenon
    DEF AcquireConversationLock, broker, agent, locals
  <2>2. Onward(pc[w], pc'[w])
    BY <2>1, Zenon DEF Onward, BeforeRun, AfterRun, Settling
  <2> QED
    BY <1>AcquireConversationLock, <2>1, <2>2, FuelQuiet, ZenonT(30)
    DEF Process, SupplyInv
<1>SetProcessing. ASSUME NEW w \in Worker, SetProcessing(w) PROVE SupplyInv'
  <2>1. /\ UNCHANGED <<ready, delayed, runs, msg, conn, unacked, caught, att>>
        /\ pc[w] = "set_processing"
        /\ pc'[w] \in {"mark_started", "unwind"}
    BY <1>SetProcessing, Leads, ZenonT(30)
    DEF SetProcessing, broker, agent, locals
  <2>2. Onward(pc[w], pc'[w])
    BY <2>1, Zenon DEF Onward, BeforeRun, AfterRun, Settling
  <2> QED
    BY <1>SetProcessing, <2>1, <2>2, FuelQuiet, ZenonT(30) DEF Process, SupplyInv
<1>MarkStarted. ASSUME NEW w \in Worker, MarkStarted(w) PROVE SupplyInv'
  <2>1. /\ UNCHANGED <<ready, delayed, runs, msg, conn, unacked, caught, att>>
        /\ pc[w] = "mark_started"
        /\ pc'[w] \in {"run", "unwind"}
    BY <1>MarkStarted, Leads, Zenon DEF MarkStarted, broker, agent, locals
  <2>2. Onward(pc[w], pc'[w])
    BY <2>1, Zenon DEF Onward, BeforeRun, AfterRun, Settling
  <2> QED
    BY <1>MarkStarted, <2>1, <2>2, FuelQuiet, ZenonT(30) DEF Process, SupplyInv
<1>NoPendingInput. ASSUME NEW w \in Worker, NoPendingInput(w) PROVE SupplyInv'
  <2>1. /\ UNCHANGED <<ready, delayed, runs, msg, conn, unacked, caught, att>>
        /\ pc[w] = "run"
        /\ pc'[w] \in {"set_failed"}
    BY <1>NoPendingInput, Leads, Zenon
    DEF NoPendingInput, broker, agent, locals
  <2>2. Onward(pc[w], pc'[w])
    BY <2>1, Zenon DEF Onward, BeforeRun, AfterRun, Settling
  <2> QED
    BY <1>NoPendingInput, <2>1, <2>2, FuelQuiet, ZenonT(30) DEF Process, SupplyInv
<1>Pause. ASSUME NEW w \in Worker, Pause(w) PROVE SupplyInv'
  <2>1. /\ UNCHANGED <<ready, delayed, runs, msg, conn, unacked, caught, att>>
        /\ pc[w] = "running"
        /\ pc'[w] \in {"set_metadata"}
    BY <1>Pause, Leads, Zenon DEF Pause, broker, agent, locals
  <2>2. Onward(pc[w], pc'[w])
    BY <2>1, Zenon DEF Onward, BeforeRun, AfterRun, Settling
  <2> QED
    BY <1>Pause, <2>1, <2>2, FuelQuiet, ZenonT(30) DEF Process, SupplyInv
<1>Book. ASSUME NEW w \in Worker, Book(w) PROVE SupplyInv'
  <2>1. /\ UNCHANGED <<ready, delayed, runs, msg, conn, unacked, caught, att>>
        /\ pc[w] = "running"
        /\ pc'[w] \in {"booked"}
    BY <1>Book, Leads, Zenon DEF Book, broker, agent, locals
  <2>2. Onward(pc[w], pc'[w])
    BY <2>1, Zenon DEF Onward, BeforeRun, AfterRun, Settling
  <2> QED
    BY <1>Book, <2>1, <2>2, FuelQuiet, ZenonT(30) DEF Process, SupplyInv
<1>Complete. ASSUME NEW w \in Worker, Complete(w) PROVE SupplyInv'
  <2>1. /\ UNCHANGED <<ready, delayed, runs, msg, conn, unacked, caught, att>>
        /\ pc[w] \in {"running", "booked"}
        /\ pc'[w] \in {"mark_finished"}
    BY <1>Complete, Leads, Zenon DEF Complete, broker, agent, locals
  <2>2. Onward(pc[w], pc'[w])
    BY <2>1, Zenon DEF Onward, BeforeRun, AfterRun, Settling
  <2> QED
    BY <1>Complete, <2>1, <2>2, FuelQuiet, ZenonT(30) DEF Process, SupplyInv
<1>EndFailed. ASSUME NEW w \in Worker, EndFailed(w) PROVE SupplyInv'
  <2>1. /\ UNCHANGED <<ready, delayed, runs, msg, conn, unacked, caught, att>>
        /\ pc[w] \in {"running", "booked"}
        /\ pc'[w] \in {"set_failed"}
    BY <1>EndFailed, Leads, Zenon DEF EndFailed, broker, agent, locals
  <2>2. Onward(pc[w], pc'[w])
    BY <2>1, Zenon DEF Onward, BeforeRun, AfterRun, Settling
  <2> QED
    BY <1>EndFailed, <2>1, <2>2, FuelQuiet, ZenonT(30) DEF Process, SupplyInv
<1>SetMetadata. ASSUME NEW w \in Worker, SetMetadata(w) PROVE SupplyInv'
  <2>1. /\ UNCHANGED <<ready, delayed, runs, msg, conn, unacked, caught, att>>
        /\ pc[w] = "set_metadata"
        /\ pc'[w] \in {"mark_finished", "unwind"}
    BY <1>SetMetadata, Leads, Zenon DEF SetMetadata, broker, agent, locals
  <2>2. Onward(pc[w], pc'[w])
    BY <2>1, Zenon DEF Onward, BeforeRun, AfterRun, Settling
  <2> QED
    BY <1>SetMetadata, <2>1, <2>2, FuelQuiet, ZenonT(30) DEF Process, SupplyInv
<1>MarkFinished. ASSUME NEW w \in Worker, MarkFinished(w) PROVE SupplyInv'
  <2>1. /\ UNCHANGED <<ready, delayed, runs, msg, conn, unacked, caught, att>>
        /\ pc[w] = "mark_finished"
        /\ pc'[w] \in {"set_final", "unwind"}
    BY <1>MarkFinished, Leads, Zenon DEF MarkFinished, broker, agent, locals
  <2>2. Onward(pc[w], pc'[w])
    BY <2>1, Zenon DEF Onward, BeforeRun, AfterRun, Settling
  <2> QED
    BY <1>MarkFinished, <2>1, <2>2, FuelQuiet, ZenonT(30) DEF Process, SupplyInv
<1>SetFinal. ASSUME NEW w \in Worker, SetFinal(w) PROVE SupplyInv'
  <2>1. /\ UNCHANGED <<ready, delayed, runs, msg, conn, unacked, caught, att>>
        /\ pc[w] = "set_final"
        /\ pc'[w] \in {"ack", "unwind"}
    BY <1>SetFinal, Leads, Zenon DEF SetFinal, broker, agent, locals
  <2>2. Onward(pc[w], pc'[w])
    BY <2>1, Zenon DEF Onward, BeforeRun, AfterRun, Settling
  <2> QED
    BY <1>SetFinal, <2>1, <2>2, FuelQuiet, ZenonT(30) DEF Process, SupplyInv
<1>SetRetrying. ASSUME NEW w \in Worker, SetRetrying(w) PROVE SupplyInv'
  <2>1. /\ UNCHANGED <<ready, delayed, runs, msg, conn, unacked, caught, att>>
        /\ pc[w] = "set_retrying"
        /\ pc'[w] \in {"delay"}
    BY <1>SetRetrying, Leads, Zenon DEF SetRetrying, broker, agent, locals
  <2>2. Onward(pc[w], pc'[w])
    BY <2>1, Zenon DEF Onward, BeforeRun, AfterRun, Settling
  <2> QED
    BY <1>SetRetrying, <2>1, <2>2, FuelQuiet, ZenonT(30) DEF Process, SupplyInv
<1>SetFailed. ASSUME NEW w \in Worker, SetFailed(w) PROVE SupplyInv'
  <2>1. /\ UNCHANGED <<ready, delayed, runs, msg, conn, unacked, caught, att>>
        /\ pc[w] = "set_failed"
        /\ pc'[w] \in {"mark_failed", "dead_letter"}
    BY <1>SetFailed, Leads, Zenon DEF SetFailed, broker, agent, locals
  <2>2. Onward(pc[w], pc'[w])
    BY <2>1, Zenon DEF Onward, BeforeRun, AfterRun, Settling
  <2> QED
    BY <1>SetFailed, <2>1, <2>2, FuelQuiet, ZenonT(30) DEF Process, SupplyInv
<1>MarkFailed. ASSUME NEW w \in Worker, MarkFailed(w) PROVE SupplyInv'
  <2>1. /\ UNCHANGED <<ready, delayed, runs, msg, conn, unacked, caught, att>>
        /\ pc[w] = "mark_failed"
        /\ pc'[w] \in {"dead_letter"}
    BY <1>MarkFailed, Leads, Zenon DEF MarkFailed, broker, agent, locals
  <2>2. Onward(pc[w], pc'[w])
    BY <2>1, Zenon DEF Onward, BeforeRun, AfterRun, Settling
  <2> QED
    BY <1>MarkFailed, <2>1, <2>2, FuelQuiet, ZenonT(30) DEF Process, SupplyInv
<1>FailRun. ASSUME NEW w \in Worker, FailRun(w) PROVE SupplyInv'
  <2>1. /\ UNCHANGED <<ready, delayed, runs, msg, conn, unacked, caught>>
        /\ pc[w] \in {"run", "running", "booked"} /\ retry(w)
    BY <1>FailRun, ZenonT(30) DEF FailRun, broker, locals
  <2>2. /\ pc'[w] \in {"set_failed", "set_retrying"} /\ att'[w] = msg[w].attempt + 1
        /\ pc'[w] \notin BeforeRun
    BY <2>1, CopyRetry, Zenon DEF BeforeRun
  <2>3. Onward(pc[w], pc'[w])
    BY <2>2, <2>1, Zenon DEF Onward, BeforeRun, AfterRun, Settling
  <2> QED
    BY <1>FailRun, <2>1, <2>2, <2>3, FuelQuiet, ZenonT(30) DEF Process, SupplyInv
<1>DeadLetter. ASSUME NEW w \in Worker, DeadLetter(w) PROVE SupplyInv'
  <2>1. /\ UNCHANGED <<ready, delayed, runs, msg, conn, unacked, caught, att>>
        /\ pc[w] = "dead_letter" /\ pc'[w] \in {"ack", "drop"}
    BY <1>DeadLetter, Leads, ZenonT(30)
       DEF DeadLetter, Refused, agent, locals
  <2>2. Onward(pc[w], pc'[w])
    BY <2>1, Zenon DEF Onward, BeforeRun, AfterRun, Settling
  <2> QED
    BY <1>DeadLetter, <2>1, <2>2, FuelQuiet, ZenonT(30) DEF Process, SupplyInv
<1>Expire. ASSUME NEW c \in Conversation, Expire(c) PROVE SupplyInv'
  BY <1>Expire, SupplyClock, Zenon DEF Expire, broker, agent, locals
<1>Reconnect. ASSUME NEW w \in Worker, Reconnect(w) PROVE SupplyInv'
  <2>1. /\ UNCHANGED <<ready, delayed, runs, pc, msg, att, unacked, caught>>
        /\ conn' = [conn EXCEPT ![w] = TRUE]
    BY <1>Reconnect, Zenon DEF Reconnect, broker, agent
  <2>2. \A v \in Worker : conn[v] => conn'[v]
    BY <2>1, Zenon DEF TypeInv, TypeWorker
  <2> QED
    BY <2>1, <2>2, SupplyClock, Zenon
<1>Stutter. CASE UNCHANGED vars
  BY <1>Stutter, SupplyClock, ZenonT(30) DEF vars, broker, agent, locals
<1> QED
  BY <1>GetJobStatus, <1>AcquireConversationLock, <1>SetProcessing,
     <1>MarkStarted, <1>NoPendingInput, <1>Pause, <1>Book, <1>Complete,
     <1>EndFailed, <1>SetMetadata, <1>MarkFinished, <1>SetFinal,
     <1>SetRetrying, <1>SetFailed, <1>MarkFailed, <1>FailRun, <1>DeadLetter,
     <1>Expire, <1>Reconnect, <1>Stutter, SupplyStartRun, SupplyDelay,
     SupplySettle, SupplyRequeue, SupplyUnwind, SupplyRest, SupplyPublish,
     SupplyDeliver, SupplyDelayExpires, SupplyDisconnect, SupplyCrash,
     ZenonT(30) DEF Next, Step, Process

\* What a job is allowed, as a number.
LEMMA AllowanceType ==
    ASSUME TypeInv, NEW j \in Job
    PROVE  /\ Allowance(j) \in Nat
           /\ Allow(1, brokerFaults, crashes, drops) \in Nat
           /\ Allowance(j) <= Allow(1, brokerFaults, crashes, drops)
<1>1. /\ brokerFaults \in Nat /\ crashes \in Nat /\ drops \in Nat
      /\ brokerFaults <= brokerFaults /\ crashes <= crashes /\ drops <= drops
  BY DEF TypeInv, TypeFaults
<1>2. 0 \in Nat /\ 1 \in Nat /\ 0 <= 1 /\ 1 <= 1
  OBVIOUS
<1>3. /\ Allow(1, brokerFaults, crashes, drops)
           >= Allow(0, brokerFaults, crashes, drops)
      /\ Allow(1, brokerFaults, crashes, drops)
           >= Allow(1, brokerFaults, crashes, drops)
  BY <1>1, <1>2, AllowMore, Zenon
<1>4. /\ Allow(0, brokerFaults, crashes, drops) \in Nat
      /\ Allow(1, brokerFaults, crashes, drops) \in Nat
      /\ \/ Allowance(j) = Allow(1, brokerFaults, crashes, drops)
         \/ Allowance(j) = Allow(0, brokerFaults, crashes, drops)
  BY <1>1, <1>2, AllowSteps, Zenon DEF Allowance
<1> QED
  BY <1>3, <1>4

\* Nothing is queued, at work or counted in the empty system.
LEMMA InitSupplyInv == ASSUME TypeInv, Init PROVE SupplyInv
<1>1. /\ ready = [m \in Envelope |-> 0]
      /\ delayed = [l \in Level |-> [m \in Envelope |-> 0]]
      /\ \A j \in Job : runs[j] = 0
      /\ \A w \in Worker : pc[w] = "idle" /\ conn[w]
  BY Zenon DEF Init
<1>2. ASSUME NEW j \in Job PROVE Fueled(j)
  <2>1. IsFiniteSet(Tank(Stock(j, ready))) /\ Weight(Stock(j, ready)) = 0
    <3>1. PICK q \in [Envelope -> Nat] : q = ready
      BY Zenon DEF TypeInv, TypeBroker
    <3>2. ASSUME NEW m \in Envelope PROVE Stock(j, q)[m] = 0
      <4>1. Stock(j, q)[m] = 0 * Worth(j, m)
        BY <1>1, <3>1, Zenon DEF Stock
      <4>2. Worth(j, m) \in Nat
        BY WorthType, Zenon
      <4> QED
        BY <4>1, <4>2
    <3> QED
      BY <3>1, <3>2, StockType, WeightZero, ZenonT(30)
  <2>2. /\ IsFiniteSet(Tank(Backlog(j, delayed)))
        /\ Weight(Backlog(j, delayed)) = 0
    <3>1. PICK d \in [Level -> [Envelope -> Nat]] : d = delayed
      BY Zenon DEF TypeInv, TypeBroker
    <3>2. ASSUME NEW p \in Level \X Envelope PROVE Backlog(j, d)[p] = 0
      <4>1. p[1] \in Level /\ p[2] \in Envelope
        OBVIOUS
      <4>2. Backlog(j, d)[p] = 0 * Worth(j, p[2])
        BY <1>1, <3>1, <4>1, ZenonT(30) DEF Backlog
      <4>3. Worth(j, p[2]) \in Nat
        BY <4>1, WorthType, Zenon
      <4> QED
        BY <4>2, <4>3
    <3> QED
      BY <3>1, <3>2, BacklogType, WeightZero, ZenonT(30)
  <2>3. IsFiniteSet(Tank(Credits(j))) /\ Weight(Credits(j)) = 0
    <3>1. \A w \in Worker : Credit(j, w) = 0
      BY <1>1, CreditRest, Zenon DEF Resting
    <3>2. /\ Credits(j) \in [Worker -> Nat]
          /\ \A w \in Worker : Credits(j)[w] = 0
      BY <1>2, <3>1, CreditType, Zenon DEF Credits, CreditsNat
    <3> QED
      BY <3>2, WeightZero, Zenon
  <2>4. Allowance(j) \in Nat
    BY AllowanceType, Zenon
  <2>5. Weight(Stock(j, ready)) + Weight(Backlog(j, delayed))
        + Weight(Credits(j)) + runs[j] <= Allowance(j)
    BY <1>1, <2>1, <2>2, <2>3, <2>4, Numbers, ZenonT(30)
  <2> QED
    BY <2>1, <2>2, <2>3, <2>5, ZenonT(30) DEF Fueled
<1>3. Steady
  <2>1. "idle" \notin BeforeRun /\ "idle" \notin {"set_retrying", "delay"}
    BY Zenon DEF BeforeRun
  <2> QED
    BY <1>1, <2>1, Zenon DEF Steady
<1> QED
  BY <1>2, <1>3, Zenon DEF SupplyInv, FuelInv

\* max_attempts bounds how often the agent is started for a job, for any
\* number of jobs, workers, attempts and faults: each fault adds at most the
\* runs of the copies it can leave behind.
THEOREM AttemptsAreBounded == Spec => []AttemptsBounded
<1>1. Init => SupplyInv
  BY InitTypeInv, InitSupplyInv, Zenon
<1>2. TypeInv /\ TypeInv' /\ SupplyInv /\ [Next]_vars => SupplyInv'
  BY NextSupplyInv, Zenon
<1>3. TypeInv /\ SupplyInv => AttemptsBounded
  <2> SUFFICES ASSUME TypeInv, SupplyInv, NEW j \in Job
               PROVE  runs[j] <= MaxAttempts * (1 + brokerFaults + crashes)
                                 + (2 * MaxAttempts - 1) * drops
    BY Zenon DEF AttemptsBounded
  <2>1. runs[j] <= Allowance(j)
    <3>1. Fueled(j)
      BY Zenon DEF SupplyInv, FuelInv
    <3>2. /\ Weight(Stock(j, ready)) \in Nat
          /\ Weight(Backlog(j, delayed)) \in Nat
          /\ Weight(Credits(j)) \in Nat
      BY <3>1, WeightType, Zenon DEF Fueled
    <3>3. Allowance(j) \in Nat
      BY AllowanceType, Zenon
    <3>4. runs[j] \in Nat
      BY Zenon DEF TypeInv, TypeAgent
    <3>5. Weight(Stock(j, ready)) + Weight(Backlog(j, delayed))
          + Weight(Credits(j)) + runs[j] <= Allowance(j)
      BY <3>1, Zenon DEF Fueled
    <3> QED
      BY <3>2, <3>3, <3>4, <3>5, Numbers, ZenonT(30)
  <2>2. /\ runs[j] \in Nat /\ Allowance(j) \in Nat
        /\ Allow(1, brokerFaults, crashes, drops) \in Nat
        /\ Allowance(j) <= Allow(1, brokerFaults, crashes, drops)
    BY AllowanceType, Zenon DEF TypeInv, TypeAgent
  <2>3. runs[j] <= Allow(1, brokerFaults, crashes, drops)
    BY <2>1, <2>2
  <2> QED
    BY <2>3, Zenon DEF Allow
<1> QED
  BY <1>1, <1>2, <1>3, InitTypeInv, NextTypeInv, PTL DEF Spec

=============================================================================
