------------------------------- MODULE LoadGen -------------------------------
(***************************************************************************)
(* The closed-loop load generator, bench/loadgen.py: a master process walks *)
(* through the concurrency levels; each level hands every shard process its *)
(* share of the users, a user runs conversations until the level's time is  *)
(* over, and the master drains the job queue before the next level.         *)
(*                                                                          *)
(* The API, the broker and the workers are what JobPublisher and JobWorkers *)
(* model; here a job is queued, worked on, delayed for a retry, or gone     *)
(* with a final status.  Clock readings are left out: a deadline may pass   *)
(* at any time.                                                             *)
(***************************************************************************)
EXTENDS Integers, Sequences, FiniteSets, FiniteSetsExt

CONSTANTS
    Processes,     \* --processes
    FirstIndex,    \* --first-index
    Seeded,        \* --seeded: the last seeded reservation
    Levels,        \* --levels: the users of each level
    MaxRetried     \* bound: retries of all jobs

ASSUME LoadGenAssumption ==
    /\ Processes \in Nat \ {0}
    /\ {FirstIndex, Seeded, MaxRetried} \subseteq Nat
    /\ Levels \in Seq(Nat)

VARIABLES
    next_index,   \* of each shard's LoadGenerator
    level, phase, \* the master: run_level, drain or between them
    in_time,      \* time.time() < stop_at
    drained,      \* the last drain() found the queue empty
    user,         \* where each user task is, and its reservation
    results,      \* the Conversation records of the shards
    taken,        \* the reservations given out, with their level
    place,        \* where each job is
    status,       \* job:<id>:status
    retried

vars == <<next_index, level, phase, in_time, drained, user, results, taken,
          place, status, retried>>

-----------------------------------------------------------------------------
Shard == 0..(Processes - 1)
Index == FirstIndex..Seeded
Stage == {"start", "resume"}
Job == Index \X Stage

\* The users of level n that a shard runs.
\* Mutant: the remainder goes to nobody.
ShareFloor(shard, n) == n \div Processes

Share(shard, n) ==
    n \div Processes + IF shard < n % Processes THEN 1 ELSE 0

Slot == 1..Max({Levels[n] : n \in DOMAIN Levels} \union {0})
User == Shard \X Slot

\* A user task is off, between two conversations, posting a job or waiting for
\* its status.
Off == [at |-> "off", index |-> 0, stage |-> "start"]
Looping == [Off EXCEPT !.at = "loop"]
Posting(i, stage) == [at |-> "post", index |-> i, stage |-> stage]
Waiting(i, stage) == [at |-> "wait", index |-> i, stage |-> stage]

\* The status a stage waits for.
Target(stage) ==
    IF stage = "start" THEN "waiting_for_confirmation" ELSE "completed"

Init ==
    /\ next_index = [k \in Shard |-> FirstIndex + k]
    /\ level = 0 /\ phase = "between"
    /\ in_time = FALSE /\ drained = TRUE
    /\ user = [u \in User |-> Off]
    /\ results = {} /\ taken = {}
    /\ place = [j \in Job |-> "none"]
    /\ status = [j \in Job |-> "none"]
    /\ retried = 0

-----------------------------------------------------------------------------
(***************************************************************************)
(* The master.                                                              *)
(***************************************************************************)
\* run_level sends every shard its share; run_users creates the tasks.
RunLevel ==
    /\ phase = "between" /\ level < Len(Levels)
    /\ level' = level + 1 /\ phase' = "level" /\ in_time' = TRUE
    /\ user' = [u \in User |-> IF u[2] <= Share(u[1], Levels[level + 1])
                               THEN Looping ELSE Off]
    /\ UNCHANGED <<next_index, drained, results, taken, place, status, retried>>

StopTime ==
    /\ in_time
    /\ in_time' = FALSE
    /\ UNCHANGED <<next_index, level, phase, drained, user, results, taken,
                   place, status, retried>>

\* gather() returned in every shard and the master has the replies.
LevelReturns ==
    /\ phase = "level"
    /\ \A u \in User : user[u].at = "off"
    /\ phase' = "drain" /\ in_time' = FALSE
    /\ UNCHANGED <<next_index, level, drained, user, results, taken, place,
                   status, retried>>

\* drain: the management API counts the messages of the main queue only.
QueueEmpty == \A j \in Job : place[j] \notin {"queued", "busy"}

DrainEnds(empty) ==
    /\ phase = "drain"
    /\ empty => QueueEmpty
    /\ phase' = "between" /\ drained' = empty
    /\ UNCHANGED <<next_index, level, in_time, user, results, taken, place,
                   status, retried>>

-----------------------------------------------------------------------------
(***************************************************************************)
(* A user task.                                                             *)
(***************************************************************************)
\* The conversation ends and the loop goes on.
Ends(u, ok) ==
    /\ user' = [user EXCEPT ![u] = Looping]
    /\ results' = results \union {[index |-> user[u].index, ok |-> ok]}

\* take_index steps over the reservations of the other shards.
\* Mutant: by one.
NextIndexByOne(k) == next_index[k] + 1

NextIndex(k) == next_index[k] + Processes

\* The seeded reservations run out.
\* Mutant: one too late.
SeededIndexLate(i) == i <= Seeded + 1

SeededIndex(i) == i <= Seeded

\* The head of the loop: out of time, out of reservations, or a conversation.
Loop(u) ==
    LET i == next_index[u[1]]
    IN /\ user[u].at = "loop"
       /\ IF in_time /\ SeededIndex(i)
          THEN /\ user' = [user EXCEPT ![u] = Posting(i, "start")]
               /\ next_index' = [next_index EXCEPT ![u[1]] = NextIndex(u[1])]
               /\ taken' = taken \union {[user |-> u, index |-> i,
                                          level |-> level]}
          ELSE /\ user' = [user EXCEPT ![u] = Off]
               /\ UNCHANGED <<next_index, taken>>
       /\ UNCHANGED <<level, phase, in_time, drained, results, place, status,
                      retried>>

\* POST /airline/chat: the job is queued or not, and the answer is an error or
\* not; only a job that is queued has an answer without one.
Post(u, queued, error) ==
    LET i == user[u].index
        j == <<i, user[u].stage>>
    IN /\ user[u].at = "post"
       /\ queued \/ error
       /\ IF queued
          THEN /\ place' = [place EXCEPT ![j] = "queued"]
               /\ status' = [status EXCEPT ![j] = "published"]
          ELSE UNCHANGED <<place, status>>
       /\ IF error
          THEN Ends(u, FALSE)
          ELSE /\ user' = [user EXCEPT ![u] = Waiting(i, user[u].stage)]
               /\ UNCHANGED results
       /\ UNCHANGED <<next_index, level, phase, in_time, drained, taken,
                      retried>>

\* The StatusWatcher resolves the waiter on the target or on "failed"; any
\* other status than the target fails the conversation.
\* Mutant: a resolved waiter is taken for success.
ReachedAny(stage, s) == TRUE

Reached(stage, s) == s = Target(stage)

Watched(u) ==
    LET i == user[u].index
        stage == user[u].stage
        s == status[<<i, stage>>]
    IN /\ user[u].at = "wait"
       /\ s \in {Target(stage), "failed"}
       /\ IF Reached(stage, s) /\ stage = "start"
          THEN /\ user' = [user EXCEPT ![u] = Posting(i, "resume")]
               /\ UNCHANGED results
          ELSE Ends(u, Reached(stage, s))
       /\ UNCHANGED <<next_index, level, phase, in_time, drained, taken, place,
                      status, retried>>

\* wait_for gives up after JOB_TIMEOUT_SECONDS; the job stays where it is.
\* Mutant: it waits for ever.
GivesUpNever(u) == FALSE

GivesUp(u) == user[u].at = "wait"

TimesOut(u) ==
    /\ GivesUp(u)
    /\ Ends(u, FALSE)
    /\ UNCHANGED <<next_index, level, phase, in_time, drained, taken, place,
                   status, retried>>

-----------------------------------------------------------------------------
(***************************************************************************)
(* The system under test.                                                   *)
(***************************************************************************)
Worked(j, to, s) ==
    /\ place' = [place EXCEPT ![j] = to]
    /\ status' = [status EXCEPT ![j] = s]
    /\ UNCHANGED <<next_index, level, phase, in_time, drained, user, results,
                   taken>>

Work(j) ==
    /\ UNCHANGED retried
    /\ \/ place[j] = "queued" /\ Worked(j, "busy", "processing")
       \/ place[j] = "delayed" /\ Worked(j, "queued", status[j])
       \/ /\ place[j] = "busy"
          /\ \E s \in {Target(j[2]), "failed"} : Worked(j, "gone", s)

Retry(j) ==
    /\ place[j] = "busy" /\ retried < MaxRetried
    /\ retried' = retried + 1
    /\ Worked(j, "delayed", "retrying")

UserStep(u) ==
    \/ Loop(u) \/ Watched(u) \/ TimesOut(u)
    \/ \E queued, error \in BOOLEAN : Post(u, queued, error)

MasterStep ==
    \/ RunLevel \/ StopTime \/ LevelReturns
    \/ \E empty \in BOOLEAN : DrainEnds(empty)

Next ==
    \/ MasterStep
    \/ \E u \in User : UserStep(u)
    \/ \E j \in Job : Work(j) \/ Retry(j)

\* Clocks go on, and requests and waits have timeouts.  The workers need not
\* do anything.
Spec ==
    /\ Init /\ [][Next]_vars
    /\ WF_vars(MasterStep)
    /\ \A u \in User : WF_vars(UserStep(u))

-----------------------------------------------------------------------------
(***************************************************************************)
(* Properties.                                                              *)
(***************************************************************************)
\* Every variable keeps its type; a user holds a seeded reservation from the
\* start of a conversation to its end.
TypeOK ==
    /\ next_index \in [Shard -> Nat]
    /\ level \in 0..Len(Levels)
    /\ phase \in {"between", "level", "drain"}
    /\ in_time \in BOOLEAN /\ drained \in BOOLEAN
    /\ \A u \in User : \/ user[u] \in {Off, Looping}
                       \/ /\ user[u].at \in {"post", "wait"}
                          /\ <<user[u].index, user[u].stage>> \in Job
    /\ results \subseteq [index : Index, ok : BOOLEAN]
    /\ taken \subseteq [user : User, index : Index, level : DOMAIN Levels]
    /\ place \in [Job -> {"none", "queued", "busy", "delayed", "gone"}]
    /\ retried \in 0..MaxRetried

\* No two conversations use the same reservation, in one shard or in two, in
\* one level or in two ("shards never share a reservation").
OwnReservation == \A s, t \in taken : s.index = t.index => s = t

\* A level runs exactly its number of users, whatever the number of shards,
\* until the first of them stops.
AllUsersRun ==
    [][RunLevel => Cardinality({u \in User : user'[u].at # "off"})
                     = Levels[level']]_vars

\* A conversation counts as successful only if both its jobs reached the status
\* they were waited for.
OkIsCompleted ==
    \A r \in results :
        r.ok => \A stage \in Stage :
                    status[<<r.index, stage>>] = Target(stage)

\* The benchmark ends, whatever the workers do.
BenchmarkEnds == <>[](level = Len(Levels) /\ phase = "between")

\* drain keeps "a saturated level's leftovers" from leaking into the next level:
\* after a drain that found the queue empty, no job of an earlier level is left.
\* Violated: a job that waits for a retry is in a delay queue, which drain does
\* not look at.
NothingLeaks ==
    (phase = "level" /\ drained) =>
        \A t \in taken : t.level < level =>
            \A stage \in Stage :
                place[<<t.index, stage>>] \notin {"queued", "busy", "delayed"}
=============================================================================
