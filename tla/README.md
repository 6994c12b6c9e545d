# Verification of the rebooking agent runtime

TLA+ specifications of the Python runtime of this repository and of its load
generator, TLC configurations that check them on small instances, and TLAPS
proofs of the most important properties for every instance.

Paths below are relative to the repository root; `py/` stands for
`langgraph-python/app/`.

## The system

A client posts a message, or the answer to a pending confirmation, to
`POST /airline/chat`. The API stores a status in Redis and publishes a job to
RabbitMQ. A worker takes the job, locks the conversation in Redis and runs the
agent. The agent searches flights, asks the user to confirm an option and
pauses in a PostgreSQL checkpoint. A later `resume` job answers the question;
the agent validates the selection again, books it in one PostgreSQL
transaction and verifies it. `bench/loadgen.py` drives this with many
conversations at once.

| Part | Code | Module |
|---|---|---|
| Chat API and publisher | `py/jobs/router.py`, `py/jobs/service.py` 117-137 | `JobPublisher` |
| Job workers | `py/jobs/service.py` 139-272, `py/platform/rabbitmq.py`, `py/platform/redis.py` | `JobWorkers` |
| Agent graph and runner | `py/agent` | `AgentWorkflow` |
| Rules of a rebooking | `py/airline/service.py`, the SQL of `py/airline/repository/sql/queries.py` | `RebookingRules`, `RebookingLedger` |
| Rebooking, asyncpg | `py/airline/repository/sql/rebooking.py` | `Rebooking` |
| Rebooking, SQLAlchemy (the default `DATA_ACCESS`) | `py/airline/repository/rebooking.py` | `OrmRebooking` |
| Load generator | `bench/loadgen.py` | `LoadGen` |

How the modules fit together. `JobPublisher` ends where `JobWorkers` begins,
with an envelope in the main queue. In `JobWorkers` a run of the agent is its
start and one of its outcomes; `AgentWorkflow` takes the runs of one
conversation apart and relies on `OneJobPerConversation` to have one of them at
a time. In `AgentWorkflow` a booking is one step that may be refused; `Rebooking`
and `OrmRebooking` take that step apart, and both are shown to implement
`RebookingLedger`, in which it is one step again. `LoadGen` sees a job as the
broker and Redis show it to a client.

`PROJECT.json` lists the source lines of every definition, and the hazards of
the code with the line where each one bites.

## The modules

### JobWorkers

A worker's `pc` names its next awaited call, and every call on Redis, the broker
or the agent is one action, so that workers, clocks and faults interleave
between any two of them.

| State | Stands for |
|---|---|
| `ready`, `delayed`, `dead` | copies of each envelope in the main queue, the delay queues and the dead queue |
| `status`, `timing`, `attempts`, `metadata` | the Redis keys of a job |
| `lock` | `airline:lock:<conversation>`, whose value is a job id |
| `asked`, `open`, `changes` | questions of the thread, the one its checkpoint waits on, and the flight changes |
| `msg`, `att`, `unacked`, `held`, `requested`, `answering`, `conn`, `caught` | a worker's locals, its channel, and whether `consume` has caught an exception of `_process` |
| `runs`, `reached`, `owner` | history for the properties |

A failed Redis or checkpoint call may or may not have had its effect. A publish
that raises on an open channel, a lost connection and a crash share the budget
`MaxFaults`. After a lost connection the broker requeues what was not
acknowledged while the callback runs on; its ack then raises, or is ignored when
the channel has been restored. An exception of `_process` is caught by
`consume`, which calls `_retry` after the `finally` clause has released the
lock. `SlowRuns` says whether the lock may expire under a live holder: nothing
renews it, so this takes a run longer than the lock's TTL.

Abstractions: a payload is its kind (`message`, `confirm`, `decline`, `invalid`)
and its conversation. Each worker is one consumer callback with its own channel;
a process that dies, or is shut down, is a `Crash` of each of its callbacks.
`aget_state` and the start of the resumed run are one step. A run on a message
pauses or raises. `nack` of an envelope that is not a job is left out: the
publisher writes none. Statuses do not expire (24 h in the code).

### JobPublisher

One process per request, known by the job id it draws; each action is one
awaited call of `publish` and `claim_idempotency_key`. Redis and the broker may
fail at any call and the API process may die. aio-pika waits for the broker's
confirmation: a publish whose confirmation is lost raises although the envelope
is queued (`lost`). Requests that fail validation are answered 422 and call
nothing.

### AgentWorkflow

One conversation. LangGraph runs the nodes of a superstep side by side and
applies their writes together; the checkpoints of a run are written behind it,
so a crash may lose the latest (`saved`, of which only the first is certain).
Channels keep their values from one message to the next, `interrupt` leaves a
question open, and `resume` finds it or raises `NoPendingInputError`. Jobs may be
run again in any order, and other sessions sell seats and move segments at any
moment. The language model may understand any request.

Properties of the code that the model keeps and a reader may not expect:
`retry_count` is never reset, so a conversation repeats its question at most
`max_retries` times over all its messages; a resume is not tied to a question,
so an answer that is delivered late is applied to the question open then, and
`validate_change` decides whether it fits; `explain_invalid_change` has a branch
for declined selections which the graph never reaches.

Abstractions: an option is a flight with its fare class; the money rules are
"may refuse any selection" (they are in `RebookingRules`); the time window of the
search is left out.

### RebookingRules, RebookingLedger, Rebooking, OrmRebooking

`RebookingRules` has the pure part: `Valid` is `validate_rebooking_selection`,
and `Moved`, `Changed`, `Added`, `Consumed` and `FlightChange` are what the SQL
statements write. Guarded updates affect no row when their guard fails, and
`execute` does not look at the count; the model keeps that. `Differences`,
`Charged` and `Spent` add up the rows of `flight_changes`.

`RebookingLedger` is the promise: one step per rebooking, valid in the very
state it changes, whole, and at most once per selection. What follows for the
tables (`SeatsConserved`, `BooksBalance`, `HistoryIsAChain`) is stated there, for
every data access that implements it.

`Rebooking` is the asyncpg data access. Each row lock is a step, in the order of
the `FOR UPDATE` clauses: the segment and its reservation, the target flight and
fare, the credit, then the old fare and, through the foreign key of
`flight_changes`, a share of the old flight. Rings of waiting transactions are
broken by PostgreSQL's deadlock detector. When the segment moved while a locking
statement waited for it, PostgreSQL joins the new row with the old flight and
drops it, which raises `SegmentNotFoundError`. A commit that reports an error may
have happened.

`OrmRebooking` is the SQLAlchemy one. It locks the segment, the credit, then both
fares by key, reads a second snapshot, and writes columns back as absolute values
when the session flushes. Between statements the session keeps no entity of the
first snapshot alive, so the second one reads the rows again. The reservation is
read without a lock; its row is locked when its UPDATE is emitted. With
autoflush that may be the credit's second read instead of the final flush; every
row in question is locked by then either way.

Under READ COMMITTED nobody sees uncommitted rows, and what `execute` writes is
locked by then, so writes appear with the commit. Rows the code never writes
(flights, fares, customers) are constants. A credit that expires between the
validation and the commit is not prevented by the code, so the ledger leaves
expiry out.

### LoadGen

A master walks through the levels, shard processes run their share of the users,
a user runs conversations until the level's time is over, the watcher resolves
waits, and `drain` runs between the levels. Clocks are left out: a deadline may
pass at any time. The system under test moves each job between the main queue, a
worker, a delay queue and its end. Percentiles, the summary and the docker and
RabbitMQ samplers are left out, and so is an HTTP error inside `drain`, which
ends the program.

## Runs

| Run | Question | Bounds |
|---|---|---|
| `JobWorkers_crash` | types, mutual exclusion, no lost job, one booking per confirmation, how many runs a fault adds | 2 workers, a start and a confirmed resume of 1 conversation, 2 attempts, 1 crash, lost connection or raising publish |
| `JobWorkers_attempts` | a final status is backed by its record, attempts are bounded, and used up before a message is dead-lettered | 2 workers, 3 jobs in 2 conversations, one of them invalid, 2 attempts, 2 failed store calls, locks that expire under a slow run |
| `JobWorkers_live` | every job settles, every lock is freed | 2 workers, 1 job, 2 attempts, 1 crash, lost connection or raising publish |
| `JobPublisher_faults` | one queued job per key, keys are given back, answers can be followed | 3 requests with one key and 1 without; 2 failed Redis calls, 2 failed publishes, 1 crash |
| `Rebooking_swap` | nothing oversold, seats and money add up, histories chain, the transactions implement the ledger, every selection ends | 2 segments of a reservation swap flights (a deadlock), a third selection rebooks one of them and wants more of the credit than is left; 1 fault, expiry |
| `OrmRebooking_locks` | no ring of waiting sessions, the ledger but for `total_amount`, every selection ends | the same competition with one seat left per fare; 1 fault, expiry |
| `AgentWorkflow_thread` | what is booked was offered and confirmed, once per answer; questions are repeated `max_retries` times; a completed job is its own | 3 jobs run up to 2 times, a reservation with 1 segment and one with 2, 2 options, 1 retry, 1 crash or raising node, 1 trade of another session |
| `LoadGen_levels` | reservations are used once, successes are completed, levels have their users, the benchmark ends | 2 shards, levels of 2 and 1 users, 3 reservations, 1 job retry |

Why the bounds are enough to be interesting. Two workers and one lost connection
give a redelivery that runs beside its first delivery. Two attempts give a retry
and an exhausted job, and a fault can be placed at every call. In the liveness
run the lost connection makes two copies of the job, so a busy conversation and
its delay queue occur with one job. Three selections give two that compete and
one that depends on their outcome. Three jobs of a conversation give a message, an
answer, and a late or repeated answer; with one retry the limit is met. Two
shards and a level of one user give a share of zero. The invariants with theorems
hold beyond any bound. Workers, requests and options are declared symmetric only
in runs without liveness properties.

Deadlock is not checked where the system may stop: all jobs settled, all requests
answered, all selections ended, the benchmark over.

### Disagreements between code and documents

Each of these runs states what a document or comment says, and TLC finds a
behaviour of the code that differs. `PROJECT.json` quotes the lines.

| Run | What the run shows |
|---|---|
| `JobWorkers_duplicate` | The status is read before the lock, and an ack that raises is retried: the agent runs again for a job that had reached a final status. |
| `OrmRebooking_total` | Two sessions rebook two segments of one reservation; the reservation is read without a lock and the later flush overwrites the other's `total_amount`. |
| `AgentWorkflow_failed` | A job ends as `failed` with the flight changed: an exception after the commit, or another session's change before the verification. |
| `LoadGen_drain` | `drain` looks at the main queue only; a job that waits in a delay queue runs in the next level. |

Limits of the properties that hold, which come from the code as well:

- `OneJobPerConversation` needs runs shorter than the lock's TTL. Since the token
  is the job id, a release after an expiry may also delete the lock of another
  delivery of the same job.
- `AttemptsBounded` allows more than `MaxAttempts` runs of a job after a fault.
  The count travels in the envelope, and a delivery that comes back carries the old
  one beside the copy published for it. A crash or a raising publish so adds up to
  `MaxAttempts` runs. A lost connection adds up to `2 * MaxAttempts - 1`: the
  delivery comes back at once, and when its first worker fails to acknowledge,
  `consume()` publishes it again. Each bound is reached by one fault of its kind.
- `NoSilentLoss` excepts a job whose `failed` status and whose dead-letter publish
  both fail: `_dead_letter` logs the first error and drops the delivery on the
  second.
- `OneJobPerKey` counts confirmed publishes. A lost confirmation cannot be told
  from a lost publish, and the key is given back in both cases.
- `BookedOncePerAnswer` excepts a segment that another session moved in between:
  validation refuses a selection the segment already has, and nothing else.

## Fairness

`JobWorkers`: weak fairness of each worker's steps, since calls return; of
reconnection, since `connect_robust` tries for ever; of the delay queues and lock
TTLs, since clocks do not stop; strong fairness of delivery per job, since the
queue is FIFO and a job that is ready again and again gets to its front. `Restart`
after a crash is not fair: the run shows that the remaining worker is enough.

`Rebooking`: weak fairness of each selection's steps and of the deadlock detector.
`OrmRebooking` needs no detector, which is what `NoLockRing` says. `LoadGen`: weak
fairness of the master, whose levels and drains have deadlines, and of each user,
whose calls and waits have timeouts; none of the workers under test. Faults are
never fair.

## Proofs

| Module | Theorem | States | Assumes |
|---|---|---|---|
| `JobWorkersProofs` | `TypeCorrect` | `[]TypeOK` | |
| | `NoJobLost` | `[]NoSilentLoss` | |
| | `FinalIsBacked` | `[]FinalStatusIsBacked` | |
| | `DeadIsExhausted` | `[]DeadOnlyWhenExhausted` | |
| | `MutualExclusion` | `[]OneJobPerConversation` | `~SlowRuns` |
| | `ConfirmationSpentOnce` | `[]OneBookingPerConfirmation` | `~SlowRuns` |
| `JobWorkersAttemptsProofs` | `AttemptsAreBounded` | `[]AttemptsBounded` | |
| `JobPublisherProofs` | `PublisherTypes` | `[]TypeOK` | |
| | `KeyQueuedOnce` | `[]OneJobPerKey` | |
| | `AnswersCanBeFollowed` | `[]AnswerNamesAJob` | |
| | `KeysGivenBack` | `[]KeyNotStuck` | |
| `RebookingLedgerProofs` | `LedgerKeepsSeats` | `LedgerSpec => []SeatsConserved` | |
| | `LedgerBalances` | `LedgerSpec => []BooksBalance` | |
| | `LedgerChains` | `LedgerSpec => []HistoryIsAChain` | |
| `RebookingProofs` | `RebookingTypes` | `[]TypeOK` | |
| | `RebooksLikeLedger` | `LedgerSpec` (the refinement) | |
| | `RebookingsKeepSeats` | `[]SeatsConserved` | |
| | `RebookingsBalance` | `[]BooksBalance` | |
| | `RebookingsChain` | `[]HistoryIsAChain` | |
| `OrmRebookingProofs` | `OrmTypes` | `[]TypeOK` | |
| | `OrmNeverDeadlocks` | `[]NoLockRing` | |
| | `OrmImplementsLedger` | `RebooksLikeLedger` (the refinement) | |
| | `OrmKeepsSeats` | `[]Ledger!SeatsConserved` | |
| | `OrmBalances` | `[]Ledger!BooksBalance` | |
| | `OrmChains` | `[]Ledger!HistoryIsAChain` | |
| `AgentWorkflowProofs` | `TypeOKHolds` | `[]TypeOK` | |
| | `BookedAsOfferedHolds` | `BookedAsOffered` (an action property) | |
| | `CompletedIsOwnHolds` | `[]CompletedIsOwn` | |
| | `BookedOncePerAnswerHolds` | `[]BookedOncePerAnswer` | |
| | `ReasksBoundedHolds` | `[]ReasksBounded` | |
| `LoadGenProofs` | `GeneratorTypes` | `[]TypeOK` | |
| | `ReservationsAreOwn` | `[]OwnReservation` | |
| | `SuccessIsCompleted` | `[]OkIsCompleted` | |
| | `LevelsAreFull` | `AllUsersRun` (an action property) | |

Each has the form `Spec => ...` where the table does not say otherwise, and rests
on the named assumptions of its module. They give the constants their types, keep
`None` apart from the values it stands beside, and say that there are finitely
many selections and segments (rows of a database) and that no two fares have the
same key. Every invariant is strengthened to one that each action preserves:

- `TypeCorrect`. `TypeOK` lets a worker at the limit retry once more. `QueuesLeft`
  and `WorkersLeft` add that every copy that can be delivered, and every worker
  that can still call `_retry`, is below `MaxAttempts`.
- `MutualExclusion`. `LockInv`: a worker that will release a lock set it, and the
  lock still holds its job id. `~SlowRuns` is needed because `Expire` would break
  exactly this.
- `ConfirmationSpentOnce`. `AskInv`: a run answers a question that is closed and
  on which no row rests. Mutual exclusion keeps two workers from the same one.
- `NoJobLost`. `LossInv`: a job rests on a delivery only until its worker is about
  to settle it; by then a final status was stored or read, or a copy was
  published.
- `FinalIsBacked`. `RecordInv`: what a worker has recorded of its job when it
  reaches each label, and that no label takes a record back, also when two copies
  of the job are processed beside each other.
- `DeadIsExhausted`. `ExhaustInv`: a worker on its way to the dead queue with a
  start message has used its last attempt.
- `AttemptsAreBounded`. `SupplyInv`: the runs of a job so far, together with those
  that its copies in the main queue (`Stock`), in the delay queues (`Backlog`) and
  with the workers (`Credits`) can still cause, are within what its publish and the
  faults so far allow. A queued copy can cause `MaxAttempts - attempt` runs. What a
  delivery can cause (`Need`) depends on the worker's label, on whether the delivery
  is still unacknowledged and on whether `consume()` has caught an exception before.
  The sums are cardinalities (`Weight`), so that one more copy adds one element per
  run and no induction over the queues is needed.
- `KeyQueuedOnce`. `KeyInv`: a request that is publishing, and a job that was
  queued, own their key. `AnswersCanBeFollowed` and `KeysGivenBack` use `CalmInv`:
  a failed job has the status `failed` before its key is free.
- `RebooksLikeLedger`. `TxInv`: exclusive locks are exclusive; a transaction past a
  lock holds it; its snapshot equals the rows it holds; past the validation the
  selection is valid in them and was not carried out before. So the commit is a
  ledger step, and every other step leaves the ledger alone.
- The theorems of `RebookingLedgerProofs`. `SeatsInv`: a ledger step moves one
  segment from the passengers of a fare to those of another, by as many as the two
  counters change. `BooksInv`: each of the three sums over `flight_changes` grows
  by what the new row says; it adds that no credit is above its amount.
  `ChainInv` adds that the rows before another have a last one. The sums are
  `SumFunctionOnSet` of the community modules. What one more element adds to them
  (`SumRemove`, `SumSame`) needs an induction over finite sets, which is done on
  a smallest counterexample: strict inclusion is well founded on the subsets of a
  finite set (`SubsetMin`). `RebookingsKeepSeats`, `RebookingsBalance` and
  `RebookingsChain` follow with the refinement.
- The theorems of `OrmRebookingProofs` share one invariant, `Inv`. `Exclusive`,
  `KeepsRows` and `StaysFresh` say for a transaction of this access what `TxInv`
  says for the other one, so that the absolute values it writes are those of the
  ledger's guarded updates. The ledger's `total` is mapped to the sum of the rows,
  `TotalByHistory`, since `total_amount` itself may lose an update.
  `Climbs`: what a session has locked comes before all it may still lock, in the
  order segment, credit, fares by key, reservation. In a ring every member would
  then want a row after the one that the member it blocks wants; but the blocker
  of the member with the fewest members after it has fewer still.
- The theorems of `AgentWorkflowProofs` share one invariant. `BeforeQuestion` and
  `AfterAnswer` say, for the node that runs next, which channels belong to this
  run: old values stay in the channels, so an evaluation, a confirmation or a
  final result counts only once its node has run. `SavedInv` carries this to every
  checkpoint a crash may return to. `CountInv`: a repeated question was counted
  before it is asked. `RowsInv` and `SeatInv`: a row is what its job confirmed, and
  the segment has it until somebody else's row, so the validation refuses the
  second booking.
- `ReservationsAreOwn`. `IndexInv`: a shard keeps to its residue class and is past
  the indexes it gave out. `SuccessIsCompleted`. `ResultInv`: a finished
  conversation has no user at work on it, and its jobs are over.
- `LevelsAreFull`. User `i` of shard `k` is number `(i - 1) * Processes + k` of the
  level, and has a task exactly when this is below the level's users
  (`ShareCounts`): a bijection, so the cardinalities agree.

Every safety property of the passing runs has a theorem. Model-checked only:
`JobSettles`, `LockIsFreed`, `EveryChangeEnds` and `BenchmarkEnds`, which are
liveness under fairness and need `ENABLED`, which the prover does not have; and
the violations of the four runs above, which are single behaviours.

## Not modelled

- The Go runtime (`adk-go`). It keeps the same queues, keys and statuses and the
  same SQL, but its error paths, its client without reconnection and its event
  store differ from the Python ones; nothing here is claimed of it.
- Start-up, settings other than the retry delays, logging, health, the LLM client
  and its prompts: no protocol state. The model's answers are arbitrary.
- Read-only queries and row mapping other than the search for options. The list of
  `flight_changes` is ordered by `created_at`, which under asyncpg is the start of
  the transaction; `HistoryIsAChain` is about commit order.
- Report tools (`bench/report.py`, `bench/openrouter_usage.py`): formatting.
- Broker restarts, Redis eviction and the 24 h expiry of its keys.
