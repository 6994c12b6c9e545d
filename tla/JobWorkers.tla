----------------------------- MODULE JobWorkers -----------------------------
(***************************************************************************)
(* The job workers of the Python runtime: JobService.consume and _process  *)
(* of app/jobs/service.py, run by several workers against one RabbitMQ     *)
(* broker, one Redis store and the checkpointed agent threads.  Every call *)
(* a worker awaits on Redis, the broker or the agent is one step, so that  *)
(* the workers, the expiry of locks and delay queues, crashes and lost     *)
(* connections interleave between any two of them.  The agent's own steps  *)
(* are in AgentWorkflow; here a run is its start and its outcome.          *)
(*                                                                         *)
(* Each worker stands for one consumer callback with its own channel: a    *)
(* process that runs several and crashes is several Crash steps.           *)
(***************************************************************************)
EXTENDS Integers, Sequences

CONSTANTS
    Job,             \* job ids
    Worker,          \* consumer callbacks
    Conversation,    \* "<user_id>:<session_id>"
    None,            \* no job, no worker, no message
    ConvOf,          \* the conversation of a job's payload
    Kind,            \* what the payload asks for, see Kinds
    MaxAttempts,     \* WorkerOptions.max_attempts
    SlowRuns,        \* may a conversation lock expire under a live holder?
    MaxStoreFaults,  \* bound on failed Redis and checkpoint calls
    MaxFaults        \* bound on publishes that raise on an open channel,
                     \* lost connections and crashes together

\* What the payload asks for: a start message, a confirmed or a declined
\* resume, or something validate_request rejects.
Kinds == {"message", "confirm", "decline", "invalid"}

ASSUME JobWorkersAssumption ==
    /\ ConvOf \in [Job -> Conversation]
    /\ Kind \in [Job -> Kinds]
    /\ MaxAttempts \in Nat \ {0}
    /\ SlowRuns \in BOOLEAN
    /\ MaxStoreFaults \in Nat
    /\ MaxFaults \in Nat
    /\ None \notin Job
    /\ None \notin Worker

VARIABLES
    \* RabbitMQ: copies of each envelope in the main queue, in each delay
    \* queue and in the dead queue
    ready, delayed, dead,
    \* Redis: job:<id>:status, :timing (fields and attempts), :metadata and
    \* airline:lock:<conversation>, whose value is a job id
    status, timing, attempts, metadata, lock,
    \* the thread: questions put to the user so far, the one its durable
    \* checkpoint waits on (0 for none), and the flight_changes rows committed
    asked, open, changes,
    \* each worker: its next call, the delivery, job.attempt, whether the
    \* broker still waits for its ack, whether the finally clause has a lock
    \* to release, whether the run was interrupted, the question that was open
    \* when the run began, whether its channel is open, and whether consume()
    \* has already caught an exception of _process()
    pc, msg, att, unacked, held, requested, answering, conn, caught,
    \* history: agent runs started, final status ever stored, and the worker
    \* whose call set each lock
    runs, reached, owner,
    \* faults used up
    storeFaults, brokerFaults, drops, crashes

broker == <<ready, delayed, dead>>
hashes == <<timing, attempts, metadata>>
states == <<status, reached>>
locks == <<lock, owner>>
agent == <<asked, open, changes, runs>>
locals == <<unacked, held, requested, answering, conn, caught>>
deaths == <<drops, crashes>>
vars == <<broker, hashes, states, locks, agent, pc, msg, att, locals,
          storeFaults, brokerFaults, deaths>>

Max2(a, b) == IF a >= b THEN a ELSE b
Min2(a, b) == IF a <= b THEN a ELSE b

Envelope == [id : Job, attempt : 0..MaxAttempts]

\* One delay queue per retry, and at least one.
Level == 1..Max2(MaxAttempts - 1, 1)

Status == {"", "published", "processing", "retrying", "completed",
           "waiting_for_confirmation", "failed"}

isTerminal(s) == s \in {"completed", "waiting_for_confirmation", "failed"}

JobOf(w) == msg[w].id
Conv(w) == ConvOf[JobOf(w)]
Goto(w, label) == pc' = [pc EXCEPT ![w] = label]
Put(q, m) == [q EXCEPT ![m] = @ + 1]
Take(q, m) == [q EXCEPT ![m] = @ - 1]

StoreFault == /\ storeFaults < MaxStoreFaults
              /\ storeFaults' = storeFaults + 1
FaultLeft == brokerFaults + drops + crashes < MaxFaults
BrokerFault == FaultLeft /\ brokerFaults' = brokerFaults + 1

\* SetJobStatus: the write, or an error that may hide that it happened.
SetJobStatus(j, s) == /\ status' = [status EXCEPT ![j] = s]
                      /\ reached' = [reached EXCEPT ![j] = @ \/ isTerminal(s)]
FailJobStatus(j, s) == /\ StoreFault
                       /\ SetJobStatus(j, s) \/ UNCHANGED states

Init ==
    /\ ready = [m \in Envelope |-> 0]
    /\ delayed = [l \in Level |-> [m \in Envelope |-> 0]]
    /\ dead = [m \in Envelope |-> 0]
    /\ status = [j \in Job |-> ""]
    /\ timing = [j \in Job |-> {}]
    /\ attempts = [j \in Job |-> 0]
    /\ metadata = [j \in Job |-> FALSE]
    /\ lock = [c \in Conversation |-> None]
    /\ asked = [c \in Conversation |-> 0]
    /\ open = [c \in Conversation |-> 0]
    /\ changes = [c \in Conversation |-> <<>>]
    /\ pc = [w \in Worker |-> "idle"]
    /\ msg = [w \in Worker |-> None]
    /\ att = [w \in Worker |-> 0]
    /\ unacked = [w \in Worker |-> FALSE]
    /\ held = [w \in Worker |-> FALSE]
    /\ requested = [w \in Worker |-> FALSE]
    /\ answering = [w \in Worker |-> 0]
    /\ conn = [w \in Worker |-> TRUE]
    /\ caught = [w \in Worker |-> FALSE]
    /\ runs = [j \in Job |-> 0]
    /\ reached = [j \in Job |-> FALSE]
    /\ owner = [c \in Conversation |-> None]
    /\ storeFaults = 0
    /\ brokerFaults = 0
    /\ drops = 0
    /\ crashes = 0
-----------------------------------------------------------------------------
(* The publisher, the broker and the clock.                                *)

\* JobService.publish: status, published_ms and the first copy.  No worker can see
\* the job before the copy is queued, so one step stands for the three calls.
Publish(j) ==
    /\ "published" \notin timing[j]
    /\ SetJobStatus(j, "published")
    /\ timing' = [timing EXCEPT ![j] = @ \union {"published"}]
    /\ ready' = Put(ready, [id |-> j, attempt |-> 0])
    /\ UNCHANGED <<delayed, dead, attempts, metadata, locks, agent, pc, msg,
                   att, locals, storeFaults, brokerFaults, deaths>>

\* queue.consume(callback), no_ack left at False: the broker keeps a delivery
\* until it is acknowledged.
no_ackMutant == TRUE
no_ack == FALSE

\* The broker hands a ready copy to an idle consumer; consume() decodes it.
Deliver(w, m) ==
    /\ pc[w] = "idle" /\ conn[w]
    /\ ready[m] > 0
    /\ ready' = Take(ready, m)
    /\ msg' = [msg EXCEPT ![w] = m]
    /\ att' = [att EXCEPT ![w] = m.attempt]
    /\ unacked' = [unacked EXCEPT ![w] = ~no_ack]
    /\ Goto(w, "get_status")
    /\ UNCHANGED <<delayed, dead, states, hashes, locks, agent, held,
                   requested, answering, conn, caught, storeFaults,
                   brokerFaults, deaths>>

\* x-message-ttl of a delay queue: the copy returns to the main queue.
DelayExpires(l, m) ==
    /\ delayed[l][m] > 0
    /\ delayed' = [delayed EXCEPT ![l] = Take(@, m)]
    /\ ready' = Put(ready, m)
    /\ UNCHANGED <<dead, states, hashes, locks, agent, pc, msg, att, locals,
                   storeFaults, brokerFaults, deaths>>

\* Mutant: the lock is set without a TTL.
ExpireNever(c) == FALSE

\* lock_ttl_ms runs out.  Nothing renews the lock, so it can also expire under a
\* worker that is still running the job (SlowRuns).
Expire(c) ==
    /\ lock[c] # None
    /\ SlowRuns \/ ~ \E w \in Worker : held[w] /\ Conv(w) = c
    /\ lock' = [lock EXCEPT ![c] = None]
    /\ owner' = [owner EXCEPT ![c] = None]
    /\ UNCHANGED <<broker, states, hashes, agent, pc, msg, att, locals,
                   storeFaults, brokerFaults, deaths>>

\* The connection is lost: the broker requeues what the worker has not
\* acknowledged; the callback itself goes on with the job.
Disconnect(w) ==
    /\ conn[w]
    /\ FaultLeft
    /\ drops' = drops + 1
    /\ conn' = [conn EXCEPT ![w] = FALSE]
    /\ unacked' = [unacked EXCEPT ![w] = FALSE]
    /\ ready' = IF unacked[w] THEN Put(ready, msg[w]) ELSE ready
    /\ UNCHANGED <<delayed, dead, states, hashes, locks, agent, pc, msg, att,
                   held, requested, answering, caught, storeFaults,
                   brokerFaults, crashes>>

\* connect_robust restores the connection, the channel and its consumer.  The
\* delivery of the old channel can no longer be settled.
Reconnect(w) ==
    /\ pc[w] # "down" /\ ~conn[w]
    /\ conn' = [conn EXCEPT ![w] = TRUE]
    /\ UNCHANGED <<broker, states, hashes, locks, agent, pc, msg, att,
                   unacked, held, requested, answering, caught, storeFaults,
                   brokerFaults, deaths>>

\* The callback's local state is gone.
Forget(w, label) ==
    /\ Goto(w, label)
    /\ msg' = [msg EXCEPT ![w] = None]
    /\ att' = [att EXCEPT ![w] = 0]
    /\ held' = [held EXCEPT ![w] = FALSE]
    /\ requested' = [requested EXCEPT ![w] = FALSE]
    /\ answering' = [answering EXCEPT ![w] = 0]
    /\ caught' = [caught EXCEPT ![w] = FALSE]

\* The checkpoints a run has not yet written are lost: the thread still waits
\* on the question that was open when the run began.
Restore(w) == /\ open[Conv(w)] = 0
              /\ open' = [open EXCEPT ![Conv(w)] = answering[w]]

\* The process dies: a lock it took stays in Redis.  Checkpoints are written
\* in the background while the run goes on.
Crash(w) ==
    /\ pc[w] # "down"
    /\ FaultLeft
    /\ crashes' = crashes + 1
    /\ Forget(w, "down")
    /\ conn' = [conn EXCEPT ![w] = FALSE]
    /\ unacked' = [unacked EXCEPT ![w] = FALSE]
    /\ ready' = IF unacked[w] THEN Put(ready, msg[w]) ELSE ready
    /\ \/ UNCHANGED open
       \/ pc[w] \in {"running", "booked"} /\ Restore(w)
    /\ UNCHANGED <<delayed, dead, states, hashes, locks, asked, changes, runs,
                   storeFaults, brokerFaults, drops>>

\* A new process starts and consumes.
Restart(w) ==
    /\ pc[w] = "down"
    /\ Goto(w, "idle")
    /\ conn' = [conn EXCEPT ![w] = TRUE]
    /\ UNCHANGED <<broker, states, hashes, locks, agent, msg, att, unacked,
                   held, requested, answering, caught, storeFaults,
                   brokerFaults, deaths>>

-----------------------------------------------------------------------------
(* consume() and _process(), one action per call.  A worker's label names  *)
(* its next call.  A call that raises leads to "unwind": the finally       *)
(* clause of _process() and then the except clause of consume().           *)

\* _retry: count the failed attempt, then retry or dead-letter.
\* Mutants: one retry too many, one too few.
RetryTargetLate(n) == IF n > MaxAttempts THEN "set_failed" ELSE "set_retrying"
RetryTargetEarly(n) ==
    IF n + 1 >= MaxAttempts THEN "set_failed" ELSE "set_retrying"

RetryTarget(n) == IF n >= MaxAttempts THEN "set_failed" ELSE "set_retrying"

\* The attempt counted is the one the delivery came with, also when an
\* exception of _retry itself is caught by consume().
retry(w) ==
    /\ att' = [att EXCEPT ![w] = msg[w].attempt + 1]
    /\ Goto(w, RetryTarget(msg[w].attempt + 1))

\* Where a duplicate, an unusable and a workable job continue.
\* Mutant: every delivery after the first counts as a duplicate.
StatusTargetSeen(j) ==
    IF status[j] # "published" THEN "ack"
    ELSE IF Kind[j] = "invalid" THEN "set_failed" ELSE "lock"

StatusTarget(j) ==
    IF isTerminal(status[j]) THEN "ack"
    ELSE IF Kind[j] = "invalid" THEN "set_failed" ELSE "lock"

GetJobStatus(w) ==
    /\ pc[w] = "get_status"
    /\ \/ Goto(w, StatusTarget(JobOf(w))) /\ UNCHANGED storeFaults
       \/ StoreFault /\ Goto(w, "unwind")
    /\ UNCHANGED <<broker, states, hashes, locks, agent, msg, att, locals,
                   brokerFaults, deaths>>

\* SET NX of the lock with the job id as its token.  When the call raises,
\* the lock may have been set, and nothing releases it before it expires.
\* Mutant: a lock that holds the same token counts as free.
LockFreeReentrant(w) == lock[Conv(w)] \in {None, JobOf(w)}

LockFree(w) == lock[Conv(w)] = None
TakeLock(w) == /\ lock' = [lock EXCEPT ![Conv(w)] = JobOf(w)]
               /\ owner' = [owner EXCEPT ![Conv(w)] = w]

AcquireConversationLock(w) ==
    /\ pc[w] = "lock"
    /\ \/ /\ LockFree(w)
          /\ TakeLock(w)
          /\ held' = [held EXCEPT ![w] = TRUE]
          /\ Goto(w, "set_processing")
          /\ UNCHANGED storeFaults
       \/ /\ ~LockFree(w)
          /\ Goto(w, "busy")
          /\ UNCHANGED <<locks, held, storeFaults>>
       \/ /\ StoreFault
          /\ Goto(w, "unwind")
          /\ (LockFree(w) /\ TakeLock(w)) \/ UNCHANGED locks
          /\ UNCHANGED held
    /\ UNCHANGED <<broker, states, hashes, agent, msg, att, unacked,
                   requested, answering, conn, caught, brokerFaults, deaths>>

SetProcessing(w) ==
    /\ pc[w] = "set_processing"
    /\ \/ /\ SetJobStatus(JobOf(w), "processing")
          /\ Goto(w, "mark_started")
          /\ UNCHANGED storeFaults
       \/ FailJobStatus(JobOf(w), "processing") /\ Goto(w, "unwind")
    /\ UNCHANGED <<broker, hashes, locks, agent, msg, att, locals,
                   brokerFaults, deaths>>

\* started_ms, then attempts.  Nothing reads either between the two writes,
\* so they are one step that may stop halfway.
MarkStarted(w) ==
    LET started == [timing EXCEPT ![JobOf(w)] = @ \union {"started"}]
        counted == [attempts EXCEPT ![JobOf(w)] = att[w] + 1]
    IN
    /\ pc[w] = "mark_started"
    /\ \/ /\ timing' = started /\ attempts' = counted
          /\ Goto(w, "run")
          /\ UNCHANGED storeFaults
       \/ /\ StoreFault
          /\ Goto(w, "unwind")
          /\ \/ UNCHANGED <<timing, attempts>>
             \/ timing' = started /\ UNCHANGED attempts
             \/ timing' = started /\ attempts' = counted
    /\ UNCHANGED <<broker, states, metadata, locks, agent, msg, att, locals,
                   brokerFaults, deaths>>

\* AgentRunner.run and resume: a message replaces whatever the thread waits
\* on, a resume answers it.
\* Mutant: the answer is not recorded.
AnswerLost(q) == q

Answered(q) == 0

StartRun(w) ==
    /\ pc[w] = "run"
    /\ Kind[JobOf(w)] = "message" \/ open[Conv(w)] # 0
    /\ answering' = [answering EXCEPT ![w] = open[Conv(w)]]
    /\ open' = [open EXCEPT ![Conv(w)] = Answered(@)]
    /\ runs' = [runs EXCEPT ![JobOf(w)] = @ + 1]
    /\ Goto(w, "running")
    /\ UNCHANGED <<broker, states, hashes, locks, asked, changes, msg, att,
                   unacked, held, requested, conn, caught, storeFaults,
                   brokerFaults, deaths>>

\* resume on a thread that is not paused dead-letters the job.
NoPendingInput(w) ==
    /\ pc[w] = "run"
    /\ Kind[JobOf(w)] # "message" /\ open[Conv(w)] = 0
    /\ Goto(w, "set_failed")
    /\ UNCHANGED <<broker, states, hashes, locks, agent, msg, att, locals,
                   storeFaults, brokerFaults, deaths>>

\* ask_confirmation interrupts: at the end of a message run, or again when
\* the confirmed selection is found invalid.
Pause(w) ==
    /\ pc[w] = "running"
    /\ Kind[JobOf(w)] \in {"message", "confirm"}
    /\ asked' = [asked EXCEPT ![Conv(w)] = @ + 1]
    /\ open' = [open EXCEPT ![Conv(w)] = asked[Conv(w)] + 1]
    /\ requested' = [requested EXCEPT ![w] = TRUE]
    /\ Goto(w, "set_metadata")
    /\ UNCHANGED <<broker, states, hashes, locks, changes, runs, msg, att,
                   unacked, held, answering, conn, caught, storeFaults,
                   brokerFaults, deaths>>

\* execute_rebooking commits.  validate_change refuses a selection that is
\* already in place, so a job never books twice in a row.
AlreadyApplied(j) ==
    LET rows == changes[ConvOf[j]]
    IN rows # <<>> /\ rows[Len(rows)].job = j

Book(w) ==
    /\ pc[w] = "running"
    /\ Kind[JobOf(w)] = "confirm"
    /\ ~AlreadyApplied(JobOf(w))
    /\ changes' = [changes EXCEPT ![Conv(w)] =
                      Append(@, [job |-> JobOf(w), ask |-> answering[w]])]
    /\ Goto(w, "booked")
    /\ UNCHANGED <<broker, states, hashes, locks, asked, open, runs, msg, att,
                   locals, storeFaults, brokerFaults, deaths>>

\* The run ends without an interrupt: declined, or verified after booking.
Complete(w) ==
    /\ \/ pc[w] = "running" /\ Kind[JobOf(w)] = "decline"
       \/ pc[w] = "booked"
    /\ Goto(w, "mark_finished")
    /\ UNCHANGED <<broker, states, hashes, locks, agent, msg, att, locals,
                   storeFaults, brokerFaults, deaths>>

\* _finish of a run whose final status is failed (the execution or the
\* verification failed, or too many invalid selections) dead-letters the job.
EndFailed(w) ==
    /\ \/ pc[w] = "running" /\ Kind[JobOf(w)] = "confirm"
       \/ pc[w] = "booked"
    /\ Goto(w, "set_failed")
    /\ UNCHANGED <<broker, states, hashes, locks, agent, msg, att, locals,
                   storeFaults, brokerFaults, deaths>>

\* The run raises.  A node that raises on the answer leaves the question
\* open; so does a checkpoint that cannot be read or written.
FailRun(w) ==
    /\ \/ /\ pc[w] \in {"running", "booked"}
          /\ UNCHANGED <<open, storeFaults>>
       \/ /\ pc[w] = "running" /\ Kind[JobOf(w)] # "message"
          /\ Restore(w)
          /\ UNCHANGED storeFaults
       \/ /\ pc[w] \in {"running", "booked"}
          /\ StoreFault
          /\ Restore(w)
       \/ /\ pc[w] = "run" /\ Kind[JobOf(w)] # "message"
          /\ StoreFault
          /\ UNCHANGED open
    /\ retry(w)
    /\ UNCHANGED <<broker, states, hashes, locks, asked, changes, runs, msg,
                   locals, brokerFaults, deaths>>

\* _finish, its first call, made only when the run was interrupted.
SetMetadata(w) ==
    /\ pc[w] = "set_metadata"
    /\ \/ /\ metadata' = [metadata EXCEPT ![JobOf(w)] = TRUE]
          /\ Goto(w, "mark_finished")
          /\ UNCHANGED storeFaults
       \/ /\ StoreFault
          /\ Goto(w, "unwind")
          /\ metadata' = [metadata EXCEPT ![JobOf(w)] = TRUE]
                \/ UNCHANGED metadata
    /\ UNCHANGED <<broker, states, timing, attempts, locks, agent, msg, att,
                   locals, brokerFaults, deaths>>

\* Mutant: HSET replaces the whole hash.
FinishedOnly(j) == timing' = [timing EXCEPT ![j] = {"finished"}]

Finished(j) == timing' = [timing EXCEPT ![j] = @ \union {"finished"}]

MarkFinished(w) ==
    /\ pc[w] = "mark_finished"
    /\ \/ /\ Finished(JobOf(w))
          /\ Goto(w, "set_final")
          /\ UNCHANGED storeFaults
       \/ /\ StoreFault
          /\ Goto(w, "unwind")
          /\ Finished(JobOf(w)) \/ UNCHANGED timing
    /\ UNCHANGED <<broker, states, attempts, metadata, locks, agent, msg,
                   att, locals, brokerFaults, deaths>>

FinalStatus(w) ==
    IF requested[w] THEN "waiting_for_confirmation" ELSE "completed"

SetFinal(w) ==
    /\ pc[w] = "set_final"
    /\ \/ /\ SetJobStatus(JobOf(w), FinalStatus(w))
          /\ Goto(w, "ack")
          /\ UNCHANGED storeFaults
       \/ FailJobStatus(JobOf(w), FinalStatus(w)) /\ Goto(w, "unwind")
    /\ UNCHANGED <<broker, hashes, locks, agent, msg, att, locals,
                   brokerFaults, deaths>>

\* _retry, once the attempt is counted: the status write may fail unnoticed.
SetRetrying(w) ==
    /\ pc[w] = "set_retrying"
    /\ \/ SetJobStatus(JobOf(w), "retrying") /\ UNCHANGED storeFaults
       \/ FailJobStatus(JobOf(w), "retrying")
    /\ Goto(w, "delay")
    /\ UNCHANGED <<broker, hashes, locks, agent, msg, att, locals,
                   brokerFaults, deaths>>

\* RabbitMQ.retry: the level is clamped to the delay queues there are.
Clamp(level) == Min2(Max2(level, 1), Max2(MaxAttempts - 1, 1))

\* Mutant: the envelope is republished as it was delivered.
CopyUncounted(w) == msg[w]

Copy(w) == [id |-> JobOf(w), attempt |-> att[w]]

\* A publish to queue q that raises.  On an open channel it is a refusal or a
\* lost confirmation, and then the broker may have the copy; on a closed one
\* it either raises or waits for the reconnection.
Refused(w, q, filled) ==
    \/ ~conn[w] /\ UNCHANGED <<brokerFaults, q>>
    \/ BrokerFault /\ (UNCHANGED q \/ q' = filled)

\* _delay: publish the envelope with its current attempt count to a delay
\* queue (the first one for a busy conversation), then ack; if the publish
\* fails, requeue the delivery as it came.
Delay(w) ==
    LET level == IF pc[w] = "busy" THEN 1 ELSE Clamp(att[w])
        filled == [delayed EXCEPT ![level] = Put(@, Copy(w))]
    IN
    /\ pc[w] \in {"busy", "delay"}
    /\ \/ /\ conn[w]
          /\ delayed' = filled
          /\ Goto(w, "ack")
          /\ UNCHANGED brokerFaults
       \/ /\ Refused(w, delayed, filled)
          /\ Goto(w, "requeue")
    /\ UNCHANGED <<ready, dead, states, hashes, locks, agent, msg, att,
                   locals, storeFaults, deaths>>

\* _dead_letter: status and finished_ms in one try, then the dead queue; only
\* the last can divert it.
SetFailed(w) ==
    /\ pc[w] = "set_failed"
    /\ \/ /\ SetJobStatus(JobOf(w), "failed")
          /\ Goto(w, "mark_failed")
          /\ UNCHANGED storeFaults
       \/ FailJobStatus(JobOf(w), "failed") /\ Goto(w, "dead_letter")
    /\ UNCHANGED <<broker, hashes, locks, agent, msg, att, locals,
                   brokerFaults, deaths>>

MarkFailed(w) ==
    /\ pc[w] = "mark_failed"
    /\ \/ Finished(JobOf(w)) /\ UNCHANGED storeFaults
       \/ StoreFault /\ (Finished(JobOf(w)) \/ UNCHANGED timing)
    /\ Goto(w, "dead_letter")
    /\ UNCHANGED <<broker, states, attempts, metadata, locks, agent, msg,
                   att, locals, brokerFaults, deaths>>

DeadLetter(w) ==
    LET filled == Put(dead, Copy(w))
    IN
    /\ pc[w] = "dead_letter"
    /\ \/ /\ conn[w]
          /\ dead' = filled
          /\ Goto(w, "ack")
          /\ UNCHANGED brokerFaults
       \/ /\ Refused(w, dead, filled)
          /\ Goto(w, "drop")
    /\ UNCHANGED <<ready, delayed, states, hashes, locks, agent, msg, att,
                   locals, storeFaults, deaths>>

\* An ack or nack of a delivery whose channel is gone raises, or passes
\* without effect.  In consume()'s own retry the exception ends the callback.
Raise(w) == Goto(w, IF caught[w] THEN "release" ELSE "unwind")

\* ack, and nack without requeue: the broker forgets the delivery.
Settle(w) ==
    /\ pc[w] \in {"ack", "drop"}
    /\ unacked' = [unacked EXCEPT ![w] = FALSE]
    /\ Goto(w, "release") \/ (~unacked[w] /\ Raise(w))
    /\ UNCHANGED <<broker, states, hashes, locks, agent, msg, att, held,
                   requested, answering, conn, caught, storeFaults,
                   brokerFaults, deaths>>

\* nack with requeue: the original envelope is ready again.
Requeue(w) ==
    /\ pc[w] = "requeue"
    /\ ready' = IF unacked[w] THEN Put(ready, msg[w]) ELSE ready
    /\ unacked' = [unacked EXCEPT ![w] = FALSE]
    /\ Goto(w, "release") \/ (~unacked[w] /\ Raise(w))
    /\ UNCHANGED <<delayed, dead, states, hashes, locks, agent, msg, att,
                   held, requested, answering, conn, caught, storeFaults,
                   brokerFaults, deaths>>

\* The finally clause: the lock is deleted if its value is this job's id,
\* whoever set it; an error is only logged.
HoldsToken(w) == lock[Conv(w)] = JobOf(w)
DropLock(w) ==
    IF HoldsToken(w)
    THEN /\ lock' = [lock EXCEPT ![Conv(w)] = None]
         /\ owner' = [owner EXCEPT ![Conv(w)] = None]
    ELSE UNCHANGED locks

Unlock(w) ==
    \/ held[w] /\ DropLock(w) /\ UNCHANGED storeFaults
    \/ held[w] /\ StoreFault /\ UNCHANGED locks
    \/ held[w] /\ StoreFault /\ DropLock(w)
    \/ ~held[w] /\ UNCHANGED <<locks, storeFaults>>

ReleaseConversationLock(w) ==
    /\ pc[w] = "release"
    /\ Unlock(w)
    /\ Forget(w, "idle")
    /\ UNCHANGED <<broker, states, hashes, agent, unacked, conn,
                   brokerFaults, deaths>>

\* _process() raised: the finally clause, then _retry in consume(), which no
\* longer holds the lock.
Unwind(w) ==
    /\ pc[w] = "unwind"
    /\ Unlock(w)
    /\ held' = [held EXCEPT ![w] = FALSE]
    /\ caught' = [caught EXCEPT ![w] = TRUE]
    /\ retry(w)
    /\ UNCHANGED <<broker, states, hashes, agent, msg, unacked, requested,
                   answering, conn, brokerFaults, deaths>>

\* The calls up to the ack or nack, and the ends of _process().
Process(w) ==
    \/ GetJobStatus(w) \/ AcquireConversationLock(w)
    \/ SetProcessing(w) \/ MarkStarted(w)
    \/ StartRun(w) \/ NoPendingInput(w)
    \/ Pause(w) \/ Book(w) \/ Complete(w) \/ EndFailed(w) \/ FailRun(w)
    \/ SetMetadata(w) \/ MarkFinished(w) \/ SetFinal(w)
    \/ SetRetrying(w) \/ Delay(w)
    \/ SetFailed(w) \/ MarkFailed(w) \/ DeadLetter(w)
    \/ Settle(w) \/ Requeue(w)

Step(w) == Process(w) \/ Unwind(w) \/ ReleaseConversationLock(w)

Next ==
    \/ \E j \in Job : Publish(j)
    \/ \E w \in Worker, m \in Envelope : Deliver(w, m)
    \/ \E l \in Level, m \in Envelope : DelayExpires(l, m)
    \/ \E c \in Conversation : Expire(c)
    \/ \E w \in Worker :
           Disconnect(w) \/ Reconnect(w) \/ Crash(w) \/ Restart(w) \/ Step(w)

Spec == Init /\ [][Next]_vars

\* The scheduling the liveness properties rely on.  Workers and the clocks of
\* Redis and RabbitMQ do not stop and connect_robust reconnects; the main
\* queue is FIFO, so a job that is deliverable again and again is delivered.
\* Restart is not fair: nothing in the code restarts a process.
Fairness ==
    /\ \A w \in Worker : WF_vars(Step(w)) /\ WF_vars(Reconnect(w))
    /\ \A j \in Job :
           /\ SF_vars(\E w \in Worker, m \in Envelope : m.id = j /\ Deliver(w, m))
           /\ WF_vars(\E l \in Level, m \in Envelope : m.id = j /\ DelayExpires(l, m))
    /\ \A c \in Conversation : WF_vars(Expire(c))

FairSpec == Spec /\ Fairness

-----------------------------------------------------------------------------
(* Properties.                                                             *)

Label == {"idle", "get_status", "lock", "set_processing", "mark_started",
          "run", "running", "booked", "set_metadata", "mark_finished",
          "set_final", "set_retrying", "busy", "delay", "set_failed",
          "mark_failed", "dead_letter", "requeue", "drop", "ack", "unwind",
          "release", "down"}

\* The labels between a successful lock and the end of _finish.
InJob == {"set_processing", "mark_started", "run", "running", "booked",
          "set_metadata", "mark_finished", "set_final"}

Row == [job : Job, ask : Nat]

\* Every variable keeps its type; in particular job.attempt, in every queue
\* and in every worker, never runs past max_attempts.
TypeOK ==
    /\ ready \in [Envelope -> Nat]
    /\ delayed \in [Level -> [Envelope -> Nat]]
    /\ dead \in [Envelope -> Nat]
    /\ status \in [Job -> Status]
    /\ timing \in [Job -> SUBSET {"published", "started", "finished"}]
    /\ attempts \in [Job -> 0..MaxAttempts]
    /\ metadata \in [Job -> BOOLEAN]
    /\ lock \in [Conversation -> Job \union {None}]
    /\ owner \in [Conversation -> Worker \union {None}]
    /\ asked \in [Conversation -> Nat]
    /\ open \in [Conversation -> Nat]
    /\ changes \in [Conversation -> Seq(Row)]
    /\ pc \in [Worker -> Label]
    /\ msg \in [Worker -> Envelope \union {None}]
    /\ att \in [Worker -> 0..MaxAttempts]
    /\ unacked \in [Worker -> BOOLEAN]
    /\ held \in [Worker -> BOOLEAN]
    /\ requested \in [Worker -> BOOLEAN]
    /\ answering \in [Worker -> Nat]
    /\ conn \in [Worker -> BOOLEAN]
    /\ caught \in [Worker -> BOOLEAN]
    /\ runs \in [Job -> Nat]
    /\ reached \in [Job -> BOOLEAN]
    /\ storeFaults \in 0..MaxStoreFaults
    /\ brokerFaults \in 0..MaxFaults
    /\ drops \in 0..MaxFaults
    /\ crashes \in 0..MaxFaults

\* service.py:171 "One job per conversation at a time": two workers are never
\* between the lock and the end of _finish for the same conversation, across
\* crashes, lost connections, failed Redis calls and retries that consume()
\* makes after the lock was released.
OneJobPerConversation ==
    \A v, w \in Worker :
        pc[v] \in InJob /\ pc[w] \in InJob /\ Conv(v) = Conv(w) => v = w

\* A copy of j the broker still holds or waits for.
InFlight(j) ==
    \/ \E m \in Envelope : m.id = j /\ (ready[m] > 0 \/ \E l \in Level : delayed[l][m] > 0)
    \/ \E w \in Worker : unacked[w] /\ JobOf(w) = j

Published(j) == "published" \in timing[j]
Buried(j) == \E m \in Envelope : m.id = j /\ dead[m] > 0

\* At-least-once: a published job is in a queue or with a worker until a
\* final status was stored for it or a copy lies in the dead queue.  Only a
\* refused dead-letter publish of a job whose failed status could not be
\* stored either can lose it (_dead_letter nacks it without requeue).
NoSilentLoss ==
    \A j \in Job :
        Published(j) => \/ InFlight(j) \/ reached[j] \/ Buried(j)
                        \/ storeFaults > 0 /\ brokerFaults > 0

\* README "Job status": whoever reads completed or waiting_for_confirmation
\* finds all three timestamps and an attempt count, and for a waiting job the
\* metadata needed to resume it; _finish() writes the status last.
FinalStatusIsBacked ==
    \A j \in Job :
        status[j] \in {"completed", "waiting_for_confirmation"} =>
            /\ timing[j] = {"published", "started", "finished"}
            /\ attempts[j] > 0
            /\ status[j] = "waiting_for_confirmation" => metadata[j]

\* A confirmation is spent by the run it starts: while no process died and no
\* store call failed, no two flight_changes rows of a conversation rest on the
\* same question, and none on the one still open, however often lost
\* connections, refused publishes and errors of the agent repeat the resume.
OneBookingPerConfirmation ==
    crashes = 0 /\ storeFaults = 0 =>
        \A c \in Conversation :
            \A i \in DOMAIN changes[c] :
                /\ changes[c][i].ask \in 1..asked[c] \ {open[c]}
                /\ \A k \in DOMAIN changes[c] :
                       changes[c][i].ask = changes[c][k].ask => i = k

\* max_attempts bounds how often the agent is started for a job.  The count
\* travels in the envelope, so every fault can buy a job a second set: a crash,
\* or a publish that raises, leaves the delivery beside its successor; a lost
\* connection leaves two, the redelivery and the one that consume() publishes
\* after the ack has raised, whose attempt is counted.
AttemptsBounded ==
    \A j \in Job :
        runs[j] <= MaxAttempts * (1 + brokerFaults + crashes)
                   + (2 * MaxAttempts - 1) * drops

\* README "Retries with backoff": a start message goes to the dead queue only
\* after its last attempt, never for a busy conversation or an early error.
DeadOnlyWhenExhausted ==
    \A m \in Envelope :
        dead[m] > 0 /\ Kind[m.id] = "message" => m.attempt = MaxAttempts

\* Every published job settles: it reaches a final status or the dead queue.
JobSettles == \A j \in Job : Published(j) ~> (reached[j] \/ Buried(j))

\* A lock taken by a worker that is gone does not block its conversation for
\* good: it is freed in the end, and again and again.
LockIsFreed == \A c \in Conversation : []<>(lock[c] = None)

-----------------------------------------------------------------------------
(* What comments and documents say, and the code does not keep.            *)

\* service.py:156, "a job that already reached a final state is a duplicate
\* delivery and must not run the agent again".
DuplicateSkipped == [][\A j \in Job : reached[j] => runs'[j] = runs[j]]_vars
=============================================================================
