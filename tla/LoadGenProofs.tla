---------------------------- MODULE LoadGenProofs ----------------------------
(***************************************************************************)
(* Proofs about the load generator, for any number of shards, levels, users *)
(* and seeded reservations: no reservation is used twice, what counts as    *)
(* successful was completed, and every level runs all its users.            *)
(***************************************************************************)
EXTENDS LoadGen, TLAPS, FiniteSetTheorems, FunctionTheorems,
        WellFoundedInduction

Place == {"none", "queued", "busy", "delayed", "gone"}
Status == {"none", "published", "processing", "retrying", "failed",
           "waiting_for_confirmation", "completed"}
Task == [at : {"off", "loop", "post", "wait"}, index : Nat, stage : Stage]

\* TypeOK, with the sets of all values, and a level while a user is at work.
TypeInv ==
    /\ TypeOK
    /\ user \in [User -> Task]
    /\ status \in [Job -> Status]
    /\ \A u \in User : user[u].at # "off" => level > 0
    /\ \A k \in Shard : next_index[k] >= FirstIndex

LEMMA ShardFacts == \A k : k \in Shard <=> k \in Nat /\ k < Processes
BY LoadGenAssumption DEF Shard

LEMMA TaskFacts ==
    /\ Off \in Task /\ Off.at = "off"
    /\ Looping \in Task /\ Looping.at = "loop"
    /\ \A i \in Nat, stage \in Stage :
           /\ Posting(i, stage) \in Task /\ Waiting(i, stage) \in Task
           /\ Posting(i, stage).at = "post" /\ Waiting(i, stage).at = "wait"
           /\ Posting(i, stage).index = i /\ Waiting(i, stage).index = i
           /\ Posting(i, stage).stage = stage
           /\ Waiting(i, stage).stage = stage
BY DEF Off, Looping, Posting, Waiting, Task, Stage

LEMMA IndexFacts == \A i : i \in Index <=> i \in Nat /\ FirstIndex <= i /\ i <= Seeded
BY LoadGenAssumption DEF Index

\* A task at work holds a seeded reservation.
LEMMA AtWork ==
    ASSUME TypeInv, NEW u \in User, user[u].at \in {"post", "wait"}
    PROVE  /\ user[u].index \in Index /\ user[u].stage \in Stage
           /\ <<user[u].index, user[u].stage>> \in Job
           /\ level \in DOMAIN Levels
<1>1. <<user[u].index, user[u].stage>> \in Job
  BY TaskFacts DEF TypeInv, TypeOK
<1>2. level \in DOMAIN Levels
  BY LoadGenAssumption DEF TypeInv, TypeOK
<1> QED
  BY <1>1, <1>2 DEF Job

\* One task moves, to a state of its own.
LEMMA MoveType ==
    ASSUME TypeInv, NEW u \in User, user[u].at # "off", UNCHANGED level,
           NEW t \in Task, user' = [user EXCEPT ![u] = t],
           \/ t \in {Off, Looping}
           \/ t.at \in {"post", "wait"} /\ <<t.index, t.stage>> \in Job
    PROVE  /\ user' \in [User -> Task]
           /\ \A v \in User : \/ user'[v] \in {Off, Looping}
                              \/ /\ user'[v].at \in {"post", "wait"}
                                 /\ <<user'[v].index, user'[v].stage>> \in Job
           /\ \A v \in User : user'[v].at # "off" => level' > 0
<1>1. user' \in [User -> Task]
  BY DEF TypeInv
<1>2. user'[u] = t /\ \A v \in User : v # u => user'[v] = user[v]
  BY DEF TypeInv
<1>3. \A v \in User : \/ user'[v] \in {Off, Looping}
                      \/ /\ user'[v].at \in {"post", "wait"}
                         /\ <<user'[v].index, user'[v].stage>> \in Job
  BY <1>2, Zenon DEF TypeInv, TypeOK
<1>4. \A v \in User : user'[v].at # "off" => level' > 0
  BY <1>2 DEF TypeInv
<1> QED
  BY <1>1, <1>3, <1>4

LEMMA NextTypeInv == ASSUME TypeInv, [Next]_vars PROVE TypeInv'
<1>RunLevel. ASSUME RunLevel PROVE TypeInv'
  <2>1. /\ \A u \in User : user'[u] \in {Off, Looping}
        /\ user' \in [User -> Task]
    BY <1>RunLevel, TaskFacts DEF RunLevel
  <2>2. level' \in 0..Len(Levels) /\ level' > 0
    BY <1>RunLevel, LoadGenAssumption DEF RunLevel, TypeInv, TypeOK
  <2>3. /\ phase' = "level" /\ in_time' = TRUE
        /\ UNCHANGED <<next_index, drained, results, taken, place, status, retried>>
    BY <1>RunLevel DEF RunLevel
  <2> QED
    BY <2>1, <2>2, <2>3, Zenon DEF TypeInv, TypeOK
<1>Master. CASE \/ StopTime \/ LevelReturns
                \/ \E empty \in BOOLEAN : DrainEnds(empty)
  BY <1>Master, Zenon DEF StopTime, LevelReturns, DrainEnds, TypeInv, TypeOK
<1>Loop. ASSUME NEW u \in User, Loop(u) PROVE TypeInv'
  <2> DEFINE i == next_index[u[1]]
  <2>1. /\ user[u].at = "loop"
        /\ UNCHANGED <<level, phase, in_time, drained, results, place, status,
                       retried>>
    BY <1>Loop DEF Loop
  <2>2. CASE in_time /\ SeededIndex(i)
    <3>1. /\ user' = [user EXCEPT ![u] = Posting(i, "start")]
          /\ next_index' = [next_index EXCEPT ![u[1]] = next_index[u[1]] + Processes]
          /\ taken' = taken \union {[user |-> u, index |-> i, level |-> level]}
      BY <1>Loop, <2>2, Zenon DEF Loop, NextIndex
    <3>2. /\ u[1] \in Shard /\ next_index \in [Shard -> Nat] /\ i \in Nat
          /\ i >= FirstIndex /\ Processes \in Nat /\ FirstIndex \in Nat
      BY LoadGenAssumption DEF TypeInv, TypeOK, User
    <3>3. i \in Index
      BY <2>2, <3>2, IndexFacts DEF SeededIndex
    <3>4. /\ next_index' \in [Shard -> Nat]
          /\ \A k \in Shard : next_index'[k] >= FirstIndex
      BY <3>1, <3>2 DEF TypeInv
    <3>5. level \in DOMAIN Levels
      <4>1. level \in 0..Len(Levels) /\ level > 0
        BY <2>1 DEF TypeInv, TypeOK
      <4> QED
        BY <4>1, LoadGenAssumption
    <3>6. taken' \subseteq [user : User, index : Index, level : DOMAIN Levels]
      BY <3>1, <3>3, <3>5 DEF TypeInv, TypeOK
    <3>7. /\ Posting(i, "start") \in Task /\ user[u].at # "off"
          /\ Posting(i, "start").at = "post"
          /\ <<Posting(i, "start").index, Posting(i, "start").stage>> \in Job
      BY <2>1, <3>2, <3>3, TaskFacts DEF Job, Stage
    <3> HIDE DEF i
    <3> QED
      BY <2>1, <3>1, <3>4, <3>6, <3>7, MoveType, Zenon DEF TypeInv, TypeOK
  <2>3. CASE ~(in_time /\ SeededIndex(i))
    <3>1. user' = [user EXCEPT ![u] = Off] /\ UNCHANGED <<next_index, taken>>
      BY <1>Loop, <2>3, Zenon DEF Loop
    <3>2. Off \in Task /\ user[u].at # "off"
      BY <2>1, TaskFacts
    <3> QED
      BY <2>1, <3>1, <3>2, MoveType, Zenon DEF TypeInv, TypeOK
  <2> QED
    BY <2>2, <2>3
<1>Ends. ASSUME NEW u \in User, user[u].at \in {"post", "wait"},
                NEW ok \in BOOLEAN, Ends(u, ok), UNCHANGED level
         PROVE  /\ user' \in [User -> Task]
                /\ \A v \in User : \/ user'[v] \in {Off, Looping}
                                   \/ /\ user'[v].at \in {"post", "wait"}
                                      /\ <<user'[v].index, user'[v].stage>> \in Job
                /\ \A v \in User : user'[v].at # "off" => level' > 0
                /\ results' \subseteq [index : Index, ok : BOOLEAN]
  <2>1. user' = [user EXCEPT ![u] = Looping] /\ Looping \in Task
    BY <1>Ends, TaskFacts DEF Ends
  <2>2. user[u].index \in Index
    BY <1>Ends, AtWork, Zenon
  <2>3. results' \subseteq [index : Index, ok : BOOLEAN]
    BY <1>Ends, <2>2 DEF Ends, TypeInv, TypeOK
  <2> QED
    BY <1>Ends, <2>1, <2>3, MoveType, Zenon
<1>Post. ASSUME NEW u \in User, NEW queued \in BOOLEAN, NEW error \in BOOLEAN,
                Post(u, queued, error)
         PROVE  TypeInv'
  <2> DEFINE i == user[u].index
             stage == user[u].stage
  <2>1. /\ user[u].at = "post"
        /\ UNCHANGED <<next_index, level, phase, in_time, drained, taken, retried>>
    BY <1>Post DEF Post
  <2>2. i \in Index /\ i \in Nat /\ stage \in Stage /\ <<i, stage>> \in Job
    BY <2>1, AtWork, IndexFacts
  <2>3. place' \in [Job -> Place] /\ status' \in [Job -> Status]
    <3>1. \/ UNCHANGED <<place, status>>
          \/ /\ place' = [place EXCEPT ![<<i, stage>>] = "queued"]
             /\ status' = [status EXCEPT ![<<i, stage>>] = "published"]
      BY <1>Post, Zenon DEF Post
    <3>2. place \in [Job -> Place] /\ status \in [Job -> Status]
      BY DEF TypeInv, TypeOK, Place
    <3> QED
      BY <3>1, <3>2 DEF Place, Status
  <2>4. CASE error
    BY <1>Ends, <1>Post, <2>1, <2>3, <2>4, Zenon
    DEF Post, TypeInv, TypeOK, Place
  <2>5. CASE ~error
    <3>1. user' = [user EXCEPT ![u] = Waiting(i, stage)] /\ UNCHANGED results
      BY <1>Post, <2>5, Zenon DEF Post
    <3>2. /\ Waiting(i, stage) \in Task /\ Waiting(i, stage).at = "wait"
          /\ <<Waiting(i, stage).index, Waiting(i, stage).stage>> \in Job
      BY <2>2, TaskFacts
    <3>3. user[u].at # "off"
      BY <2>1
    <3> HIDE DEF i, stage
    <3> QED
      BY <2>1, <2>3, <3>1, <3>2, <3>3, MoveType, Zenon
         DEF TypeInv, TypeOK, Place
  <2> QED
    BY <2>4, <2>5
<1>Watched. ASSUME NEW u \in User, Watched(u) PROVE TypeInv'
  <2> DEFINE i == user[u].index
             stage == user[u].stage
             s == status[<<i, stage>>]
  <2>1. /\ user[u].at = "wait"
        /\ UNCHANGED <<next_index, level, phase, in_time, drained, taken,
                       place, status, retried>>
    BY <1>Watched DEF Watched
  <2>2. i \in Index /\ i \in Nat
    BY <2>1, AtWork, IndexFacts, Zenon
  <2>3. CASE Reached(stage, s) /\ stage = "start"
    <3>1. user' = [user EXCEPT ![u] = Posting(i, "resume")] /\ UNCHANGED results
      BY <1>Watched, <2>3, Zenon DEF Watched
    <3>2. /\ Posting(i, "resume") \in Task /\ Posting(i, "resume").at = "post"
          /\ <<Posting(i, "resume").index, Posting(i, "resume").stage>> \in Job
      BY <2>2, TaskFacts DEF Job, Stage
    <3>3. user[u].at # "off"
      BY <2>1
    <3> HIDE DEF i, stage
    <3> QED
      BY <2>1, <3>1, <3>2, <3>3, MoveType, Zenon DEF TypeInv, TypeOK
  <2>4. CASE ~(Reached(stage, s) /\ stage = "start")
    <3>1. Ends(u, Reached(stage, s)) /\ Reached(stage, s) \in BOOLEAN
      BY <1>Watched, <2>4, Zenon DEF Watched, Reached
    <3> HIDE DEF i, stage, s
    <3> QED
      BY <1>Ends, <2>1, <3>1, Zenon DEF TypeInv, TypeOK
  <2> QED
    BY <2>3, <2>4
<1>TimesOut. ASSUME NEW u \in User, TimesOut(u) PROVE TypeInv'
  BY <1>Ends, <1>TimesOut, Zenon DEF TimesOut, GivesUp, TypeInv, TypeOK
<1>Work. ASSUME NEW j \in Job, Work(j) \/ Retry(j) PROVE TypeInv'
  <2>1. /\ UNCHANGED <<next_index, level, phase, in_time, drained, user,
                       results, taken>>
        /\ \E p \in Place : place' = [place EXCEPT ![j] = p]
    BY <1>Work DEF Work, Retry, Worked, Place
  <2>2. status' \in [Job -> Status]
    <3>1. \E x \in Status : status' = [status EXCEPT ![j] = x]
      <4>1. status[j] \in Status
        BY DEF TypeInv
      <4>2. \A x : Target(x) \in Status
        BY DEF Target, Status
      <4> QED
        BY <1>Work, <4>1, <4>2 DEF Work, Retry, Worked, Status
    <3> QED
      BY <3>1 DEF TypeInv
  <2>3. place' \in [Job -> Place]
    BY <2>1 DEF TypeInv, TypeOK, Place
  <2>4. retried' \in 0..MaxRetried
    <3>1. retried \in 0..MaxRetried /\ MaxRetried \in Nat
      BY LoadGenAssumption DEF TypeInv, TypeOK
    <3>2. \/ UNCHANGED retried
          \/ retried < MaxRetried /\ retried' = retried + 1
      BY <1>Work, Zenon DEF Work, Retry
    <3> QED
      BY <3>1, <3>2
  <2> QED
    BY <2>1, <2>2, <2>3, <2>4, Zenon DEF TypeInv, TypeOK, Place
<1>Stutter. CASE UNCHANGED vars
  BY <1>Stutter, Zenon DEF vars, TypeInv, TypeOK
<1> QED
  BY <1>RunLevel, <1>Master, <1>Loop, <1>Post, <1>Watched, <1>TimesOut,
     <1>Work, <1>Stutter, Zenon DEF Next, MasterStep, UserStep

LEMMA InitTypeInv == ASSUME Init PROVE TypeInv
<1>1. user \in [User -> Task] /\ \A u \in User : user[u] = Off
  BY TaskFacts DEF Init
<1>2. /\ next_index \in [Shard -> Nat]
      /\ \A k \in Shard : next_index[k] >= FirstIndex
  <2>1. FirstIndex \in Nat
    BY LoadGenAssumption
  <2> QED
    BY <2>1, ShardFacts DEF Init
<1>3. level \in 0..Len(Levels) /\ retried \in 0..MaxRetried
  BY LoadGenAssumption DEF Init
<1>4. /\ place \in [Job -> {"none", "queued", "busy", "delayed", "gone"}]
      /\ status \in [Job -> Status]
  BY DEF Init, Status
<1>5. /\ phase \in {"between", "level", "drain"} /\ in_time \in BOOLEAN
      /\ drained \in BOOLEAN /\ results = {} /\ taken = {}
  BY Zenon DEF Init
<1>6. \A u \in User : user[u].at = "off"
  BY <1>1, TaskFacts
<1> QED
  BY <1>1, <1>2, <1>3, <1>4, <1>5, <1>6 DEF TypeInv, TypeOK

\* Every variable keeps its type and every user at work has a seeded
\* reservation, for any number of shards, users and levels.
THEOREM GeneratorTypes == Spec => []TypeOK
<1>1. TypeInv => TypeOK
  BY DEF TypeInv
<1> QED
  BY <1>1, InitTypeInv, NextTypeInv, PTL DEF Spec

-----------------------------------------------------------------------------
(* No reservation is used twice.                                           *)

\* Index i is one of those shard k steps through.
Owns(k, i) == \E n \in Nat : i = FirstIndex + k + n * Processes

\* Steps of P do not overlap.
LEMMA Strides ==
    ASSUME NEW P \in Nat
    PROVE  \A a, b \in Nat : /\ a * P \in Nat
                             /\ a < b => b * P >= a * P + P
<1> SUFFICES ASSUME NEW a \in Nat, NEW b \in Nat
             PROVE  a * P \in Nat /\ (a < b => b * P >= a * P + P)
  OBVIOUS
<1>1. ASSUME a < b PROVE b * P >= a * P + P
  <2>1. PICK d \in Nat : b = a + 1 + d
    <3>1. b - a - 1 \in Nat /\ b = a + 1 + (b - a - 1)
      BY <1>1
    <3> QED
      BY <3>1
  <2>2. b * P = a * P + P + d * P /\ d * P \in Nat /\ a * P \in Nat
    BY <2>1
  <2> QED
    BY <2>2
<1> QED
  BY <1>1

\* The steps of two shards never meet.
LEMMA Residues ==
    ASSUME NEW P \in Nat, NEW k \in Nat, NEW l \in Nat, k < P, l < P,
           NEW m \in Nat, NEW n \in Nat, k + m * P = l + n * P
    PROVE  k = l
<1>1. \A a, b \in Nat : a < b => b * P >= a * P + P
  BY Strides
<1>2. m * P \in Nat /\ n * P \in Nat
  OBVIOUS
<1>3. ~(m < n) /\ ~(n < m)
  BY <1>1, <1>2
<1> QED
  BY <1>2, <1>3

\* OwnReservation, strengthened: a shard keeps to its own indexes and is past
\* the ones it has given out.
IndexInv ==
    /\ \A k \in Shard : Owns(k, next_index[k])
    /\ \A t \in taken : /\ Owns(t.user[1], t.index)
                        /\ t.index < next_index[t.user[1]]
    /\ OwnReservation

\* The next index of a shard was never given out.
LEMMA Fresh ==
    ASSUME TypeInv, IndexInv, NEW k \in Shard, NEW t \in taken
    PROVE  t.index # next_index[k]
<1>1. t.user[1] \in Shard /\ t.index \in Nat /\ next_index[k] \in Nat
  BY IndexFacts DEF TypeInv, TypeOK, User
<1>2. ASSUME t.index = next_index[k] PROVE FALSE
  <2>1. PICK m \in Nat : t.index = FirstIndex + t.user[1] + m * Processes
    BY DEF IndexInv, Owns
  <2>2. PICK n \in Nat : next_index[k] = FirstIndex + k + n * Processes
    BY DEF IndexInv, Owns
  <2>3. /\ Processes \in Nat /\ FirstIndex \in Nat /\ k \in Nat /\ k < Processes
        /\ t.user[1] \in Nat /\ t.user[1] < Processes
    BY <1>1, ShardFacts, LoadGenAssumption
  <2>4. t.user[1] + m * Processes = k + n * Processes
    <3> DEFINE a == t.user[1] + m * Processes
               b == k + n * Processes
    <3>1. a \in Nat /\ b \in Nat
      BY <2>3
    <3>2. t.index = FirstIndex + a /\ next_index[k] = FirstIndex + b
      BY <2>1, <2>2, <2>3
    <3> HIDE DEF a, b
    <3>3. FirstIndex + a = FirstIndex + b
      BY <1>2, <3>2, Zenon
    <3>4. a = b
      BY <2>3, <3>1, <3>3
    <3> QED
      BY <3>4 DEF a, b
  <2>5. t.user[1] = k
    BY <2>3, <2>4, Residues
  <2>6. t.index < next_index[k]
    BY <2>5 DEF IndexInv
  <2> QED
    BY <1>1, <1>2, <2>6
<1> QED
  BY <1>2

LEMMA NextIndexInv == ASSUME TypeInv, IndexInv, [Next]_vars PROVE IndexInv'
<1>Loop. ASSUME NEW u \in User, Loop(u) PROVE IndexInv'
  <2> DEFINE k == u[1]
             i == next_index[k]
             new == [user |-> u, index |-> i, level |-> level]
  <2>1. CASE UNCHANGED <<next_index, taken>>
    BY <2>1 DEF IndexInv, OwnReservation, Owns
  <2>2. CASE /\ next_index' = [next_index EXCEPT ![k] = i + Processes]
             /\ taken' = taken \union {new}
    <3>1. /\ k \in Shard /\ i \in Nat /\ Processes \in Nat \ {0}
          /\ next_index \in [Shard -> Nat] /\ FirstIndex \in Nat
      BY LoadGenAssumption DEF TypeInv, TypeOK, User
    <3>2. /\ next_index'[k] = i + Processes
          /\ \A l \in Shard : l # k => next_index'[l] = next_index[l]
      BY <2>2, <3>1
    <3>3. new.user[1] = k /\ new.index = i
      OBVIOUS
    <3>4. Owns(k, i)
      BY <3>1 DEF IndexInv
    <3> HIDE DEF k, i, new
    <3>5. Owns(k, i + Processes)
      <4>1. PICK n \in Nat : i = FirstIndex + k + n * Processes
        BY <3>4 DEF Owns
      <4>2. i + Processes = FirstIndex + k + (n + 1) * Processes
        BY <3>1, <4>1, ShardFacts
      <4> QED
        BY <4>2 DEF Owns
    <3>6. \A l \in Shard : Owns(l, next_index'[l])
      BY <3>2, <3>5 DEF IndexInv
    <3>7. ASSUME NEW t \in taken'
          PROVE  /\ Owns(t.user[1], t.index)
                 /\ t.index < next_index'[t.user[1]]
      <4>1. CASE t = new
        BY <3>1, <3>2, <3>3, <3>4, <4>1
      <4>2. CASE t \in taken
        <5>1. /\ t.user[1] \in Shard /\ t.index \in Nat
              /\ next_index[t.user[1]] \in Nat
          BY <4>2, IndexFacts DEF TypeInv, TypeOK, User
        <5>2. t.index < next_index[t.user[1]] /\ Owns(t.user[1], t.index)
          BY <4>2 DEF IndexInv
        <5>3. CASE t.user[1] = k
          BY <3>1, <3>2, <5>1, <5>2, <5>3 DEF i
        <5>4. CASE t.user[1] # k
          BY <3>2, <5>1, <5>2, <5>4
        <5> QED
          BY <5>3, <5>4
      <4> QED
        BY <2>2, <4>1, <4>2
    <3>8. OwnReservation'
      <4>1. \A t \in taken : t.index # i
        BY <3>1, Fresh DEF i
      <4> QED
        BY <2>2, <3>3, <4>1 DEF IndexInv, OwnReservation
    <3> QED
      BY <3>6, <3>7, <3>8 DEF IndexInv, Owns
  <2> QED
    BY <1>Loop, <2>1, <2>2, Zenon DEF Loop, NextIndex
<1>Others. CASE UNCHANGED <<next_index, taken>>
  BY <1>Others DEF IndexInv, OwnReservation, Owns
<1>1. ASSUME \/ UNCHANGED vars \/ MasterStep
             \/ \E u \in User : \/ Watched(u) \/ TimesOut(u)
                                \/ \E queued, error \in BOOLEAN :
                                       Post(u, queued, error)
             \/ \E j \in Job : Work(j) \/ Retry(j)
      PROVE  UNCHANGED <<next_index, taken>>
  BY <1>1, Zenon DEF vars, MasterStep, RunLevel, StopTime, LevelReturns,
     DrainEnds, Watched, TimesOut, Post, Work, Retry, Worked
<1> QED
  BY <1>Loop, <1>Others, <1>1, Zenon DEF Next, UserStep

LEMMA InitIndexInv == ASSUME Init PROVE IndexInv
<1>1. \A k \in Shard : next_index[k] = FirstIndex + k + 0 * Processes
  BY LoadGenAssumption, ShardFacts DEF Init
<1>2. \A k \in Shard : Owns(k, next_index[k])
  BY <1>1 DEF Owns
<1>3. taken = {}
  BY DEF Init
<1> QED
  BY <1>2, <1>3 DEF IndexInv, OwnReservation

\* "Shards never share a reservation", and no shard uses one twice, for any
\* number of shards, first index and seed.
THEOREM ReservationsAreOwn == Spec => []OwnReservation
<1>1. IndexInv => OwnReservation
  BY DEF IndexInv
<1> QED
  BY <1>1, InitTypeInv, NextTypeInv, InitIndexInv, NextIndexInv, PTL DEF Spec

-----------------------------------------------------------------------------
(* What counts as successful was completed.                                *)

Active(u) == user[u].at \in {"post", "wait"}
Given(i) == \E t \in taken : t.index = i

\* The job reached its target and is worked on no more.
Settled(j) == place[j] = "gone" /\ status[j] = Target(j[2])

\* No status tells of success before the work is over.
Honest ==
    \A j \in Job : status[j] \in {"waiting_for_confirmation", "completed"} =>
                       place[j] = "gone"

\* Users at work have reservations of their own, and a user who resumes has
\* seen the start succeed.
Apart ==
    /\ \A u \in User : Active(u) => Given(user[u].index)
    /\ \A u, v \in User :
           Active(u) /\ Active(v) /\ user[u].index = user[v].index => u = v
    /\ \A u \in User : Active(u) /\ user[u].stage = "resume" =>
                           Settled(<<user[u].index, "start">>)

\* A conversation that is over is not touched again.
Over ==
    \A r \in results :
        /\ Given(r.index)
        /\ \A u \in User : Active(u) => user[u].index # r.index
        /\ r.ok => \A stage \in Stage : Settled(<<r.index, stage>>)

\* OkIsCompleted, strengthened.
ResultInv == Honest /\ Apart /\ Over

LEMMA TargetFacts ==
    /\ \A j \in Job : Target(j[2]) \in {"waiting_for_confirmation", "completed"}
    /\ \A i, stage : <<i, stage>>[2] = stage
BY DEF Target

\* The end of a conversation.
LEMMA EndsApart ==
    ASSUME TypeInv, ResultInv, NEW u \in User, Active(u), NEW ok \in BOOLEAN,
           Ends(u, ok), UNCHANGED taken, Honest',
           NEW i \in Index, user[u].index = i,
           \A j \in Job : j[1] # i /\ Settled(j) => Settled(j)',
           ok => \A stage \in Stage : Settled(<<i, stage>>)'
    PROVE  ResultInv'
<1> DEFINE new == [index |-> i, ok |-> ok]
<1>1. /\ user' = [user EXCEPT ![u] = Looping]
      /\ results' = results \union {new}
  BY DEF Ends
<1>2. ~Active(u)' /\ \A v \in User : v # u => user'[v] = user[v]
  BY <1>1, TaskFacts DEF Active, TypeInv
<1>3. \A v \in User : Active(v)' => /\ Active(v) /\ user'[v] = user[v]
                                    /\ user[v].index # i
  BY <1>2 DEF Active, ResultInv, Apart
<1>4. \A v \in User : Active(v) => <<user[v].index, "start">> \in Job
  BY AtWork, Zenon DEF Active, Job, Stage
<1>5. \A n : Given(n) => Given(n)'
  BY DEF Given
<1>6. Apart'
  <2>1. \A v \in User : Active(v)' => Given(user[v].index)'
    BY <1>3, <1>5 DEF ResultInv, Apart, Given
  <2>2. \A v, w \in User :
            Active(v)' /\ Active(w)' /\ user'[v].index = user'[w].index => v = w
    BY <1>3 DEF ResultInv, Apart
  <2>3. \A v \in User : Active(v)' /\ user'[v].stage = "resume" =>
                            Settled(<<user[v].index, "start">>)'
    <3> SUFFICES ASSUME NEW v \in User, Active(v)', user'[v].stage = "resume",
                        NEW n, n = user[v].index
                 PROVE  Settled(<<n, "start">>)'
      BY <1>3
    <3>1. Settled(<<n, "start">>) /\ <<n, "start">> \in Job
      BY <1>3, <1>4 DEF ResultInv, Apart
    <3>2. <<n, "start">>[1] # i
      BY <1>3
    <3> QED
      BY <3>1, <3>2
  <2> QED
    BY <2>1, <2>2, <2>3 DEF Apart
<1>7. Over'
  <2> SUFFICES ASSUME NEW r \in results'
               PROVE  /\ Given(r.index)'
                      /\ \A v \in User : Active(v)' => user'[v].index # r.index
                      /\ r.ok => \A stage \in Stage : Settled(<<r.index, stage>>)'
    BY DEF Over
  <2>1. CASE r = new
    <3>1. Given(i) /\ new.index = i /\ new.ok = ok
      BY DEF ResultInv, Apart
    <3> QED
      BY <1>3, <1>5, <2>1, <3>1
  <2>2. CASE r \in results
    <3>1. /\ Given(r.index)'
          /\ \A v \in User : Active(v)' => user'[v].index # r.index
      BY <1>3, <1>5, <2>2 DEF ResultInv, Over
    <3>2. ASSUME r.ok, NEW stage \in Stage
          PROVE  Settled(<<r.index, stage>>)'
      <4>1. Settled(<<r.index, stage>>) /\ r.index # i
        BY <2>2, <3>2 DEF ResultInv, Over
      <4>2. <<r.index, stage>> \in Job /\ <<r.index, stage>>[1] # i
        BY <2>2, <4>1 DEF TypeInv, TypeOK, Job
      <4> QED
        BY <4>1, <4>2
    <3> QED
      BY <3>1, <3>2
  <2> QED
    BY <1>1, <2>1, <2>2
<1> QED
  BY <1>6, <1>7 DEF ResultInv

\* The system under test works on jobs that are not settled.
LEMMA WorkKeeps ==
    ASSUME TypeInv, Honest, NEW j \in Job, Work(j) \/ Retry(j)
    PROVE  Honest' /\ \A i \in Job : Settled(i) => Settled(i)'
<1>1. /\ place \in [Job -> Place] /\ status \in [Job -> Status]
  BY DEF TypeInv, TypeOK, Place
<1>2. PICK to \in Place, s \in Status :
          /\ place[j] # "gone"
          /\ place' = [place EXCEPT ![j] = to]
          /\ status' = [status EXCEPT ![j] = s]
          /\ s \in {"waiting_for_confirmation", "completed"} => to = "gone"
  <2>1. status[j] \in Status
    BY <1>1
  <2>2. place[j] # "gone" => status[j] \notin {"waiting_for_confirmation", "completed"}
    BY DEF Honest
  <2>3. Target(j[2]) \in Status
    BY DEF Target, Status
  <2> QED
    BY <2>1, <2>2, <2>3 DEF Work, Retry, Worked, Place, Status
<1>3. /\ place'[j] = to /\ status'[j] = s
      /\ \A i \in Job : i # j => place'[i] = place[i] /\ status'[i] = status[i]
  BY <1>1, <1>2
<1>4. Honest'
  BY <1>2, <1>3 DEF Honest
<1>5. \A i \in Job : Settled(i) => Settled(i)'
  BY <1>2, <1>3 DEF Settled
<1> QED
  BY <1>4, <1>5

\* A step that touches neither users nor results.
LEMMA ResultFrame ==
    ASSUME TypeInv, ResultInv, UNCHANGED <<user, results, taken>>, Honest',
           \A j \in Job : Settled(j) => Settled(j)'
    PROVE  ResultInv'
<1>1. \A v \in User : Active(v) => <<user[v].index, "start">> \in Job
  BY AtWork, Zenon DEF Active, Job, Stage
<1>2. \A r \in results, stage \in Stage : <<r.index, stage>> \in Job
  BY DEF TypeInv, TypeOK, Job
<1>3. Apart'
  BY <1>1 DEF ResultInv, Apart, Active, Given
<1>4. Over'
  BY <1>2 DEF ResultInv, Over, Active, Given
<1> QED
  BY <1>3, <1>4 DEF ResultInv

LEMMA NextResultInv ==
    ASSUME TypeInv, IndexInv, ResultInv, [Next]_vars
    PROVE  ResultInv'
<1>RunLevel. ASSUME RunLevel PROVE ResultInv'
  <2>1. /\ \A u \in User : ~Active(u)'
        /\ UNCHANGED <<results, taken, place, status>>
    BY <1>RunLevel, TaskFacts DEF RunLevel, Active
  <2>2. Honest' /\ Apart'
    BY <2>1 DEF ResultInv, Honest, Apart
  <2>3. Over'
    BY <2>1 DEF ResultInv, Over, Given, Settled
  <2> QED
    BY <2>2, <2>3 DEF ResultInv
<1>Loop. ASSUME NEW u \in User, Loop(u) PROVE ResultInv'
  <2>1. user[u].at = "loop" /\ UNCHANGED <<results, place, status>>
    BY <1>Loop DEF Loop
  <2>2. PICK i \in Nat, t \in Task :
            /\ user' = [user EXCEPT ![u] = t]
            /\ \/ t.at = "off" /\ UNCHANGED taken
               \/ /\ t.index = i /\ t.stage = "start" /\ i = next_index[u[1]]
                  /\ taken' = taken \union {[user |-> u, index |-> i,
                                             level |-> level]}
    <3>1. u[1] \in Shard /\ next_index[u[1]] \in Nat
      BY DEF TypeInv, TypeOK, User
    <3>2. CASE in_time /\ SeededIndex(next_index[u[1]])
      <4>1. /\ user' = [user EXCEPT ![u] = Posting(next_index[u[1]], "start")]
            /\ taken' = taken \union {[user |-> u, index |-> next_index[u[1]],
                                       level |-> level]}
        BY <1>Loop, <3>2, Zenon DEF Loop
      <4> QED
        BY <3>1, <4>1, TaskFacts, ZenonT(30) DEF Stage
    <3>3. CASE ~(in_time /\ SeededIndex(next_index[u[1]]))
      <4>1. user' = [user EXCEPT ![u] = Off] /\ UNCHANGED taken
        BY <1>Loop, <3>3, Zenon DEF Loop
      <4> QED
        BY <4>1, TaskFacts, Zenon
    <3> QED
      BY <3>2, <3>3
  <2>3. user'[u] = t /\ \A v \in User : v # u => user'[v] = user[v]
    BY <2>2 DEF TypeInv
  <2>4. \A n : Given(n) => Given(n)'
    BY <2>2 DEF Given
  <2>5. Active(u)' => /\ Given(i)' /\ ~Given(i)
                      /\ t.index = i /\ t.stage = "start"
    <3>1. u[1] \in Shard
      BY DEF User
    <3>2. CASE t.at = "off"
      BY <2>3, <3>2 DEF Active
    <3>3. CASE t.at # "off"
      <4>1. t.index = i /\ t.stage = "start" /\ i = next_index[u[1]]
        BY <2>2, <3>3
      <4>2. ~Given(i)
        BY <3>1, <4>1, Fresh DEF Given
      <4>3. [user |-> u, index |-> i, level |-> level] \in taken'
        BY <2>2, <3>3
      <4>4. Given(i)'
        BY <4>3 DEF Given
      <4> QED
        BY <4>1, <4>2, <4>4
    <3> QED
      BY <3>2, <3>3
  <2>6. \A v \in User : v # u => /\ Active(v)' <=> Active(v)
                                 /\ user'[v] = user[v]
    BY <2>3 DEF Active
  <2>7. \A j : Settled(j)' <=> Settled(j)
    BY <2>1 DEF Settled
  <2>8. Honest'
    BY <2>1 DEF ResultInv, Honest
  <2>9. Apart'
    <3>1. \A v \in User : Active(v)' => Given(user[v].index)'
      <4> SUFFICES ASSUME NEW v \in User, Active(v)', NEW n, n = user'[v].index
                   PROVE  Given(n)'
        OBVIOUS
      <4> QED
        BY <2>3, <2>4, <2>5, <2>6 DEF ResultInv, Apart
    <3>2. \A v, w \in User :
              Active(v)' /\ Active(w)' /\ user'[v].index = user'[w].index => v = w
      BY <2>3, <2>5, <2>6 DEF ResultInv, Apart
    <3>3. \A v \in User : Active(v)' /\ user'[v].stage = "resume" =>
                              Settled(<<user[v].index, "start">>)'
      <4> SUFFICES ASSUME NEW v \in User, Active(v)', user'[v].stage = "resume",
                          NEW n, n = user'[v].index
                   PROVE  Settled(<<n, "start">>)
        BY <2>7
      <4> QED
        BY <2>3, <2>5, <2>6 DEF ResultInv, Apart
    <3> QED
      BY <3>1, <3>2, <3>3 DEF Apart
  <2>10. Over'
    <3> SUFFICES ASSUME NEW r \in results
                 PROVE  /\ Given(r.index)'
                        /\ \A v \in User : Active(v)' => user'[v].index # r.index
                        /\ r.ok => \A stage \in Stage : Settled(<<r.index, stage>>)'
      BY <2>1, Zenon DEF Over
    <3>1. /\ Given(r.index)
          /\ \A v \in User : Active(v) => user[v].index # r.index
          /\ r.ok => \A stage \in Stage : Settled(<<r.index, stage>>)
      BY Zenon DEF ResultInv, Over
    <3> QED
      BY <2>3, <2>4, <2>5, <2>6, <2>7, <3>1, Zenon
  <2> QED
    BY <2>8, <2>9, <2>10, Zenon DEF ResultInv
<1>Post. ASSUME NEW u \in User, NEW queued \in BOOLEAN, NEW error \in BOOLEAN,
                Post(u, queued, error)
         PROVE  ResultInv'
  <2>1. user[u].at = "post" /\ Active(u) /\ UNCHANGED taken
    BY <1>Post, Zenon DEF Post, Active
  <2>2. PICK i \in Index, stage \in Stage :
            user[u].index = i /\ user[u].stage = stage /\ <<i, stage>> \in Job
    BY <2>1, AtWork, Zenon DEF Active
  <2>3. \/ UNCHANGED <<place, status>>
        \/ /\ place' = [place EXCEPT ![<<i, stage>>] = "queued"]
           /\ status' = [status EXCEPT ![<<i, stage>>] = "published"]
    BY <1>Post, <2>2, Zenon DEF Post
  <2>4. place \in [Job -> Place] /\ status \in [Job -> Status]
    BY Zenon DEF TypeInv, TypeOK, Place
  <2>5. Honest'
    BY <2>2, <2>3, <2>4, Zenon DEF ResultInv, Honest
  <2>6. \A j \in Job : j # <<i, stage>> /\ Settled(j) => Settled(j)'
    BY <2>3, <2>4, Zenon DEF Settled
  <2>7. CASE error
    <3>1. Ends(u, FALSE)
      BY <1>Post, <2>7, Zenon DEF Post
    <3>2. \A j \in Job : j[1] # i /\ Settled(j) => Settled(j)'
      BY <2>6
    <3> QED
      BY <2>1, <2>2, <2>5, <3>1, <3>2, EndsApart, Zenon
  <2>8. CASE ~error
    <3>1. user' = [user EXCEPT ![u] = Waiting(i, stage)] /\ UNCHANGED results
      BY <1>Post, <2>2, <2>8, Zenon DEF Post
    <3>2. /\ user'[u].index = i /\ user'[u].stage = stage
          /\ \A v \in User : v # u => user'[v] = user[v]
      BY <2>2, <3>1, TaskFacts, IndexFacts, SMTT(30) DEF TypeInv
    <3>3. \A v \in User : Active(v)' => /\ Active(v)
                                        /\ user'[v].index = user[v].index
                                        /\ user'[v].stage = user[v].stage
                                        /\ v # u => user[v].index # i
      BY <2>1, <2>2, <3>2, Zenon DEF Active, ResultInv, Apart
    <3>4. \A n : Given(n) => Given(n)'
      BY <2>1, Zenon DEF Given
    <3>5. \A v \in User : Active(v)' => Given(user[v].index)'
      <4> SUFFICES ASSUME NEW v \in User, Active(v)', NEW n, n = user'[v].index
                   PROVE  Given(n)'
        BY Zenon
      <4> QED
        BY <3>3, <3>4, Zenon DEF ResultInv, Apart
    <3>6. \A v, w \in User :
              Active(v)' /\ Active(w)' /\ user'[v].index = user'[w].index => v = w
      BY <3>3, Zenon DEF ResultInv, Apart
    <3>7. \A v \in User : Active(v)' /\ user'[v].stage = "resume" =>
                              Settled(<<user[v].index, "start">>)'
      <4> SUFFICES ASSUME NEW v \in User, Active(v)', user'[v].stage = "resume",
                          NEW n, n = user'[v].index
                   PROVE  Settled(<<n, "start">>)'
        BY Zenon
      <4>1. Settled(<<n, "start">>)
        BY <3>3, Zenon DEF ResultInv, Apart
      <4>2. <<n, "start">> \in Job
        BY <3>3, AtWork, Zenon DEF Active, Job, Stage
      <4>3. <<n, "start">> # <<i, stage>>
        BY <2>2, <3>3, Zenon
      <4> QED
        BY <2>6, <4>1, <4>2, <4>3, Zenon
    <3>8. Over'
      <4> SUFFICES ASSUME NEW r \in results
                   PROVE  /\ Given(r.index)'
                          /\ \A v \in User : Active(v)' => user'[v].index # r.index
                          /\ r.ok => \A x \in Stage : Settled(<<r.index, x>>)'
        BY <3>1, Zenon DEF Over
      <4>1. Given(r.index)' /\ r.index # i
        BY <2>1, <2>2, <3>4, Zenon DEF ResultInv, Over
      <4>2. \A v \in User : Active(v)' => user'[v].index # r.index
        BY <3>3, Zenon DEF ResultInv, Over
      <4>3. \A x \in Stage : <<r.index, x>> \in Job /\ <<r.index, x>> # <<i, stage>>
        BY <4>1, Zenon DEF TypeInv, TypeOK, Job
      <4>4. r.ok => \A x \in Stage : Settled(<<r.index, x>>)
        BY Zenon DEF ResultInv, Over
      <4> QED
        BY <2>6, <4>1, <4>2, <4>3, <4>4, Zenon
    <3> QED
      BY <2>5, <3>5, <3>6, <3>7, <3>8, Zenon DEF ResultInv, Apart
  <2> QED
    BY <2>7, <2>8, Zenon
<1>Watched. ASSUME NEW u \in User, Watched(u) PROVE ResultInv'
  <2>1. Active(u) /\ UNCHANGED <<taken, place, status>>
    BY <1>Watched, Zenon DEF Watched, Active
  <2>2. PICK i \in Index, stage \in Stage :
            user[u].index = i /\ user[u].stage = stage /\ <<i, stage>> \in Job
    BY <2>1, AtWork, Zenon DEF Active
  <2> DEFINE s == status[<<i, stage>>]
  <2>3. Honest' /\ \A j : Settled(j) => Settled(j)'
    BY <2>1, Zenon DEF ResultInv, Honest, Settled
  <2>4. Reached(stage, s) => Settled(<<i, stage>>)
    BY <2>2, TargetFacts, Zenon DEF ResultInv, Honest, Settled, Reached
  <2>5. CASE Reached(stage, s) /\ stage = "start"
    <3>1. user' = [user EXCEPT ![u] = Posting(i, "resume")] /\ UNCHANGED results
      BY <1>Watched, <2>2, <2>5, Zenon DEF Watched
    <3>2. /\ user'[u].index = i /\ user'[u].stage = "resume"
          /\ \A v \in User : v # u => user'[v] = user[v]
      <4>1. /\ Posting(i, "resume").index = i
            /\ Posting(i, "resume").stage = "resume"
        BY <2>2, TaskFacts, IndexFacts, Zenon DEF Stage
      <4> QED
        BY <3>1, <4>1, Zenon DEF TypeInv
    <3>3. \A v \in User : Active(v)' => /\ Active(v)
                                        /\ user'[v].index = user[v].index
                                        /\ v # u => user'[v] = user[v]
      BY <2>1, <2>2, <3>2, Zenon DEF Active
    <3>4. \A n : Given(n) => Given(n)'
      BY <2>1, Zenon DEF Given
    <3>5. \A v \in User : Active(v)' => Given(user[v].index)'
      <4> SUFFICES ASSUME NEW v \in User, Active(v)', NEW n, n = user'[v].index
                   PROVE  Given(n)'
        BY Zenon
      <4> QED
        BY <3>3, <3>4, Zenon DEF ResultInv, Apart
    <3>6. \A v, w \in User :
              Active(v)' /\ Active(w)' /\ user'[v].index = user'[w].index => v = w
      BY <3>3, Zenon DEF ResultInv, Apart
    <3>7. \A v \in User : Active(v)' /\ user'[v].stage = "resume" =>
                              Settled(<<user[v].index, "start">>)'
      <4> SUFFICES ASSUME NEW v \in User, Active(v)', user'[v].stage = "resume",
                          NEW n, n = user'[v].index
                   PROVE  Settled(<<n, "start">>)'
        BY Zenon
      <4> QED
        BY <2>3, <2>4, <2>5, <3>2, <3>3, Zenon DEF ResultInv, Apart
    <3>8. Over'
      BY <2>3, <3>1, <3>3, <3>4, ZenonT(30) DEF ResultInv, Over
    <3> QED
      BY <2>3, <3>5, <3>6, <3>7, <3>8, Zenon DEF ResultInv, Apart
  <2>6. CASE ~(Reached(stage, s) /\ stage = "start")
    <3>1. Ends(u, Reached(stage, s)) /\ Reached(stage, s) \in BOOLEAN
      BY <1>Watched, <2>2, <2>6, Zenon DEF Watched, Reached
    <3>2. Reached(stage, s) => \A x \in Stage : Settled(<<i, x>>)'
      <4>1. Reached(stage, s) => stage = "resume"
        BY <2>6, Zenon DEF Stage
      <4>2. stage = "resume" => Settled(<<i, "start">>)
        BY <2>1, <2>2, Zenon DEF ResultInv, Apart
      <4> QED
        BY <2>3, <2>4, <4>1, <4>2, Zenon DEF Stage
    <3> HIDE DEF s
    <3> QED
      BY <2>1, <2>2, <2>3, <3>1, <3>2, EndsApart, Zenon
  <2> QED
    BY <2>5, <2>6, Zenon
<1>TimesOut. ASSUME NEW u \in User, TimesOut(u) PROVE ResultInv'
  <2>1. Active(u) /\ Ends(u, FALSE) /\ UNCHANGED <<taken, place, status>>
    BY <1>TimesOut, Zenon DEF TimesOut, GivesUp, Active
  <2>2. Honest' /\ \A j : Settled(j) => Settled(j)'
    BY <2>1, Zenon DEF ResultInv, Honest, Settled
  <2>3. PICK i \in Index : user[u].index = i
    BY <2>1, AtWork, Zenon DEF Active
  <2> QED
    BY <2>1, <2>2, <2>3, EndsApart, Zenon
<1>Work. ASSUME NEW j \in Job, Work(j) \/ Retry(j) PROVE ResultInv'
  <2>1. UNCHANGED <<user, results, taken>>
    BY <1>Work, Zenon DEF Work, Retry, Worked
  <2>2. Honest' /\ \A i \in Job : Settled(i) => Settled(i)'
    BY <1>Work, WorkKeeps, Zenon DEF ResultInv
  <2> QED
    BY <2>1, <2>2, ResultFrame, Zenon
<1>Others. CASE \/ UNCHANGED vars \/ StopTime \/ LevelReturns
                \/ \E empty \in BOOLEAN : DrainEnds(empty)
  <2>1. UNCHANGED <<user, results, taken, place, status>>
    BY <1>Others, Zenon DEF vars, StopTime, LevelReturns, DrainEnds
  <2>2. Honest' /\ \A j \in Job : Settled(j) => Settled(j)'
    BY <2>1, Zenon DEF ResultInv, Honest, Settled
  <2> QED
    BY <2>1, <2>2, ResultFrame, Zenon
<1> QED
  BY <1>RunLevel, <1>Loop, <1>Post, <1>Watched, <1>TimesOut, <1>Work,
     <1>Others, Zenon DEF Next, MasterStep, UserStep

LEMMA InitResultInv == ASSUME Init PROVE ResultInv
<1>1. \A u \in User : ~Active(u)
  BY TaskFacts, Zenon DEF Init, Active
<1>2. results = {} /\ \A j \in Job : status[j] = "none"
  BY Zenon DEF Init
<1> QED
  BY <1>1, <1>2, Zenon DEF ResultInv, Honest, Apart, Over

\* A conversation the load generator counts as successful had both its jobs
\* reach the status they were waited for, whatever the workers, the timeouts
\* and the other users do, for any number of them.
THEOREM SuccessIsCompleted == Spec => []OkIsCompleted
<1>1. ResultInv => OkIsCompleted
  <2> SUFFICES ASSUME ResultInv, NEW r \in results, r.ok, NEW stage \in Stage
               PROVE  status[<<r.index, stage>>] = Target(stage)
    BY Zenon DEF OkIsCompleted
  <2> QED
    BY TargetFacts, ZenonT(30) DEF ResultInv, Over, Settled
<1> QED
  BY <1>1, InitTypeInv, NextTypeInv, InitIndexInv, NextIndexInv,
     InitResultInv, NextResultInv, PTL DEF Spec

-----------------------------------------------------------------------------
(* The users of a level.                                                   *)

\* Division with remainder.
LEMMA Divides ==
    ASSUME NEW n \in Nat, NEW P \in Nat \ {0}
    PROVE  \E q, r \in Nat : /\ q = n \div P /\ r = n % P
                             /\ r < P /\ n = q * P + r
<1>1. PICK q \in Nat, r \in Nat : q = n \div P /\ r = n % P /\ r < P
  OBVIOUS
<1>2. n = q * P + r
  BY <1>1, SMTT(30)
<1> QED
  BY <1>1, <1>2, Zenon

\* Shard k runs the users number k, k + P, k + 2 * P and so on of the level.
LEMMA ShareCounts ==
    ASSUME NEW k \in Shard, NEW n \in Nat, NEW j \in Nat
    PROVE  /\ Share(k, n) \in Nat
           /\ j < Share(k, n) <=> j * Processes + k < n
<1>1. PICK P \in Nat \ {0} : P = Processes
  BY LoadGenAssumption, Zenon
<1>2. PICK q \in Nat, r \in Nat : /\ q = n \div P /\ r = n % P
                                  /\ r < P /\ n = q * P + r
  BY <1>1, Divides, Zenon
<1>3. k \in Nat /\ k < P
  BY <1>1, ShardFacts, Zenon
<1>4. Share(k, n) = q + IF k < r THEN 1 ELSE 0
  BY <1>1, <1>2, Zenon DEF Share
<1>5. /\ j * P \in Nat /\ q * P \in Nat
      /\ j < q => q * P >= j * P + P
      /\ q < j => j * P >= q * P + P
  BY <1>1, Strides, Zenon
<1>6. CASE k < r
  <2>1. j < q + 1 <=> j * P + k < n
    <3>1. CASE j < q
      BY <1>2, <1>3, <1>5, <1>6, <3>1
    <3>2. CASE j = q
      BY <1>2, <1>3, <1>5, <1>6, <3>2
    <3>3. CASE q < j
      BY <1>2, <1>3, <1>5, <1>6, <3>3
    <3> QED
      BY <3>1, <3>2, <3>3
  <2> QED
    BY <1>1, <1>4, <1>6, <2>1
<1>7. CASE ~(k < r)
  <2>1. j < q <=> j * P + k < n
    <3>1. CASE j < q
      BY <1>2, <1>3, <1>5, <1>7, <3>1
    <3>2. CASE j = q
      BY <1>2, <1>3, <1>5, <1>7, <3>2
    <3>3. CASE q < j
      BY <1>2, <1>3, <1>5, <1>7, <3>3
    <3> QED
      BY <3>1, <3>2, <3>3
  <2> QED
    BY <1>1, <1>4, <1>7, <2>1
<1> QED
  BY <1>6, <1>7, Zenon

\* No level has more users than there are slots.
LEMMA SlotsSuffice ==
    ASSUME NEW n \in DOMAIN Levels
    PROVE  \E max \in Nat : Slot = 1..max /\ Levels[n] <= max
<1>1. PICK len \in Nat : DOMAIN Levels = 1..len
  BY LoadGenAssumption
<1>2. \A m \in DOMAIN Levels : Levels[m] \in Nat
  BY LoadGenAssumption
<1> DEFINE Above(m) == {l \in DOMAIN Levels : Levels[l] > Levels[m]}
           Some == {Above(m) : m \in DOMAIN Levels}
           Sizes == {Levels[m] : m \in DOMAIN Levels} \union {0}
<1>3. PICK few \in Some : \A t \in Some : t \subseteq few => t = few
  <2>1. IsFiniteSet(DOMAIN Levels)
    BY <1>1, FS_Interval
  <2>2. Some \in SUBSET SUBSET DOMAIN Levels /\ Some # {}
    BY Zenon
  <2>3. IsWellFoundedOn(StrictSubsetOrdering(DOMAIN Levels),
                        FiniteSubsetsOf(DOMAIN Levels))
    BY <2>1, FS_StrictSubsetOrderingWellFounded, Zenon
  <2>4. Some \subseteq FiniteSubsetsOf(DOMAIN Levels)
    BY <2>1, <2>2, FS_Subset, Zenon DEF FiniteSubsetsOf
  <2> HIDE DEF Some
  <2>5. PICK few \in Some :
            \A t \in Some : ~(<<t, few>> \in StrictSubsetOrdering(DOMAIN Levels))
    BY <2>2, <2>3, <2>4, WFMin, Zenon
  <2>6. \A t \in Some : t \subseteq few /\ t # few =>
            <<t, few>> \in StrictSubsetOrdering(DOMAIN Levels)
    BY <2>2, Zenon DEF StrictSubsetOrdering
  <2>7. \A t \in Some : t \subseteq few => t = few
    BY <2>5, <2>6, Zenon
  <2> QED
    BY <2>7, Zenon
<1>4. PICK top \in DOMAIN Levels : few = Above(top)
  BY Zenon
<1>5. \A m \in DOMAIN Levels : Levels[m] <= Levels[top]
  <2> SUFFICES ASSUME NEW m \in DOMAIN Levels, Levels[m] > Levels[top]
               PROVE  FALSE
    BY <1>2
  <2>1. m \in Above(top) /\ m \notin Above(m)
    BY <1>2
  <2>2. Above(m) \subseteq Above(top)
    BY <1>2
  <2> QED
    BY <1>3, <1>4, <2>1, <2>2, Zenon
<1>6. Max(Sizes) \in Nat /\ \A x \in Sizes : Max(Sizes) >= x
  <2>1. \E x \in Sizes : \A y \in Sizes : x >= y
    BY <1>2, <1>5
  <2>2. Max(Sizes) \in Sizes /\ \A x \in Sizes : Max(Sizes) >= x
    <3> HIDE DEF Sizes
    <3> QED
      BY <2>1, Zenon DEF Max
  <2> QED
    BY <1>2, <2>2
<1>7. Levels[n] <= Max(Sizes)
  BY <1>2, <1>6, Zenon
<1>8. Slot = 1..Max(Sizes)
  BY Zenon DEF Slot
<1> HIDE DEF Sizes
<1> QED
  BY <1>6, <1>7, <1>8, Zenon

\* The users that run_level starts, one for each number below the level's.
LEMMA LevelUsers ==
    ASSUME NEW lv \in DOMAIN Levels
    PROVE  Cardinality({u \in User : u[2] <= Share(u[1], Levels[lv])})
               = Levels[lv]
<1>1. PICK P \in Nat \ {0} : P = Processes
  BY LoadGenAssumption, Zenon
<1>2. PICK n \in Nat : n = Levels[lv]
  BY LoadGenAssumption
<1>3. PICK S : S = {u \in User : u[2] <= Share(u[1], n)}
  BY Zenon
<1>4. \A k \in Shard : k \in Nat /\ k < P
  BY <1>1, ShardFacts, Zenon
<1>5. \A i \in Slot : i \in Int /\ i - 1 \in Nat
  BY SlotsSuffice
<1>6. \A k \in Shard, j \in Nat : /\ Share(k, n) \in Nat
                                  /\ j < Share(k, n) <=> j * P + k < n
  BY <1>1, ShareCounts, Zenon
<1>7. PICK f : f = [u \in S |-> (u[2] - 1) * P + u[1] + 1]
  BY Zenon
<1>8. ASSUME NEW u \in S
      PROVE  /\ u[1] \in Shard /\ u[1] \in Nat /\ u[1] < P /\ u[2] \in Slot
             /\ u[2] - 1 \in Nat /\ (u[2] - 1) * P \in Nat
             /\ u = <<u[1], u[2]>>
             /\ (u[2] - 1) * P + u[1] < n
  <2>1. u[1] \in Shard /\ u[2] \in Slot /\ u = <<u[1], u[2]>>
    BY <1>3 DEF User
  <2>2. u[2] \in Int /\ u[2] - 1 \in Nat /\ u[1] \in Nat /\ u[1] < P
    BY <1>4, <1>5, <2>1, Zenon
  <2>3. Share(u[1], n) \in Nat /\ u[2] <= Share(u[1], n)
    BY <1>3, <1>6, <2>1, Zenon
  <2>4. u[2] - 1 < Share(u[1], n)
    BY <2>2, <2>3
  <2>5. (u[2] - 1) * P + u[1] < n
    BY <1>6, <2>1, <2>2, <2>4, Zenon
  <2>6. (u[2] - 1) * P \in Nat
    BY <2>2, Strides, Zenon
  <2> QED
    BY <2>1, <2>2, <2>5, <2>6, Zenon
<1>9. f \in [S -> 1..n]
  <2>1. \A u \in S : (u[2] - 1) * P + u[1] + 1 \in 1..n
    BY <1>8
  <2> QED
    BY <1>7, <2>1, Zenon
<1>10. ASSUME NEW u \in S, NEW v \in S, f[u] = f[v] PROVE u = v
  <2>1. PICK a \in Nat, b \in Nat : a = u[2] - 1 /\ b = v[2] - 1
    BY <1>8, Zenon
  <2>2. a * P + u[1] + 1 = b * P + v[1] + 1
    BY <1>7, <1>10, <2>1, Zenon
  <2>3. /\ a * P \in Nat /\ b * P \in Nat
        /\ a < b => b * P >= a * P + P
        /\ b < a => a * P >= b * P + P
    BY Strides, Zenon
  <2>4. /\ u[1] \in Nat /\ u[1] < P /\ v[1] \in Nat /\ v[1] < P
        /\ u = <<u[1], u[2]>> /\ v = <<v[1], v[2]>>
    BY <1>8, Zenon
  <2>5. a = b
    BY <2>2, <2>3, <2>4
  <2>6. u[1] = v[1]
    BY <2>2, <2>3, <2>4, <2>5
  <2>7. u[2] \in Int /\ v[2] \in Int
    BY <1>5, <1>8, Zenon
  <2>8. u[2] = v[2]
    BY <2>1, <2>5, <2>7
  <2> QED
    BY <2>4, <2>6, <2>8, Zenon
<1>11. ASSUME NEW m \in 1..n PROVE \E u \in S : f[u] = m
  <2>1. PICK q \in Nat, r \in Nat : r < P /\ m - 1 = q * P + r
    <3>1. m - 1 \in Nat
      OBVIOUS
    <3> QED
      BY <3>1, Divides, Zenon
  <2>2. r \in Shard
    BY <1>1, <2>1, ShardFacts, Zenon
  <2>3. q * P + r < n
    BY <2>1
  <2>4. q < Share(r, n) /\ Share(r, n) \in Nat
    BY <1>6, <2>2, <2>3, Zenon
  <2>5. q + 1 \in Slot
    <3>1. q + 1 <= n
      <4>1. q * P >= q
        BY Strides, <1>1
      <4> QED
        BY <2>1, <2>3, <4>1
    <3>2. PICK max \in Nat : Slot = 1..max /\ n <= max
      BY <1>2, SlotsSuffice, Zenon
    <3> QED
      BY <3>1, <3>2
  <2>6. <<r, q + 1>> \in S
    BY <1>3, <2>2, <2>4, <2>5 DEF User
  <2>7. f[<<r, q + 1>>] = m
    BY <1>7, <2>1, <2>6
  <2> QED
    BY <2>6, <2>7, Zenon
<1>12. ExistsBijection(S, 1..n)
  BY <1>9, <1>10, <1>11, Zenon
  DEF ExistsBijection, Bijection, Injection, Surjection, IsInjective
<1>13. ExistsBijection(1..n, S)
  BY <1>12, Fun_ExistsBijSymmetric, Zenon
<1>14. IsFiniteSet(1..n) /\ Cardinality(1..n) = n
  BY FS_Interval
<1>15. Cardinality(S) = n
  BY <1>13, <1>14, FS_Bijection, Zenon
<1> QED
  BY <1>2, <1>3, <1>15, Zenon

\* run_level starts exactly the users of its level, for any number of shards:
\* the shares that the master sends add up to it.
THEOREM LevelsAreFull == Spec => AllUsersRun
<1>1. ASSUME TypeInv, RunLevel
      PROVE  Cardinality({u \in User : user'[u].at # "off"}) = Levels[level']
  <2>1. PICK lv : lv = level + 1 /\ lv = level'
    BY <1>1, Zenon DEF RunLevel
  <2>2. lv \in DOMAIN Levels
    BY <1>1, <2>1, LoadGenAssumption DEF RunLevel, TypeInv, TypeOK
  <2>3. user' = [u \in User |-> IF u[2] <= Share(u[1], Levels[lv])
                                THEN Looping ELSE Off]
    BY <1>1, <2>1, Zenon DEF RunLevel
  <2>4. {u \in User : user'[u].at # "off"}
            = {u \in User : u[2] <= Share(u[1], Levels[lv])}
    BY <2>3, TaskFacts, Zenon
  <2> QED
    BY <2>1, <2>2, <2>4, LevelUsers, Zenon
<1>2. TypeInv /\ [Next]_vars =>
          [RunLevel => Cardinality({u \in User : user'[u].at # "off"})
                         = Levels[level']]_vars
  BY <1>1, Zenon
<1>3. Spec => []TypeInv
  BY InitTypeInv, NextTypeInv, PTL DEF Spec
<1> QED
  BY <1>2, <1>3, PTL DEF Spec, AllUsersRun
=============================================================================
