-------------------------- MODULE JobWorkersProofs --------------------------
(***************************************************************************)
(* Theorems about JobWorkers, for any jobs, workers, conversations, attempt *)
(* limit and fault bounds: its types; the fate of its messages; a final     *)
(* status is backed by its timestamps and metadata, and a start message is  *)
(* dead-lettered only when its attempts are used up; the agent runs one job *)
(* at a time per conversation and books once per confirmation.              *)
(***************************************************************************)
EXTENDS JobWorkers, TLAPS

-----------------------------------------------------------------------------
(* Types.  TypeOK alone is not inductive: that job.attempt stays in range   *)
(* needs every copy that can be delivered, and every delivery a worker has, *)
(* to have an attempt left.                                                 *)

\* Labels of a worker without a delivery.
Resting == {"idle", "down"}

\* Labels before the last attempt is counted.
Retryable == {"get_status", "lock", "set_processing", "mark_started", "run",
              "running", "booked", "set_metadata", "mark_finished",
              "set_final", "set_retrying", "busy", "delay"}

\* TypeOK, one conjunct per store the variables model.
TypeBroker == /\ ready \in [Envelope -> Nat]
              /\ delayed \in [Level -> [Envelope -> Nat]]
              /\ dead \in [Envelope -> Nat]
TypeStore == /\ status \in [Job -> Status]
             /\ timing \in [Job -> SUBSET {"published", "started", "finished"}]
             /\ attempts \in [Job -> 0..MaxAttempts]
             /\ metadata \in [Job -> BOOLEAN]
             /\ reached \in [Job -> BOOLEAN]
TypeLocks == /\ lock \in [Conversation -> Job \union {None}]
             /\ owner \in [Conversation -> Worker \union {None}]
TypeAgent == /\ asked \in [Conversation -> Nat]
             /\ open \in [Conversation -> Nat]
             /\ changes \in [Conversation -> Seq(Row)]
             /\ runs \in [Job -> Nat]
TypeWorker == /\ pc \in [Worker -> Label]
              /\ msg \in [Worker -> Envelope \union {None}]
              /\ att \in [Worker -> 0..MaxAttempts]
              /\ unacked \in [Worker -> BOOLEAN]
              /\ held \in [Worker -> BOOLEAN]
              /\ requested \in [Worker -> BOOLEAN]
              /\ answering \in [Worker -> Nat]
              /\ conn \in [Worker -> BOOLEAN]
              /\ caught \in [Worker -> BOOLEAN]
TypeFaults == /\ storeFaults \in 0..MaxStoreFaults
              /\ brokerFaults \in 0..MaxFaults
              /\ drops \in 0..MaxFaults
              /\ crashes \in 0..MaxFaults

\* Every copy that can be delivered has an attempt left.
QueuesLeft ==
    /\ \A m \in Envelope : ready[m] > 0 => m.attempt < MaxAttempts
    /\ \A l \in Level, m \in Envelope :
           delayed[l][m] > 0 => m.attempt < MaxAttempts
\* A worker at work has a delivery with an attempt left, and before _retry()
\* its own count is below the limit; after the ack nothing is unacknowledged.
WorkersLeft ==
    \A w \in Worker :
        /\ pc[w] \notin Resting => msg[w] \in Envelope /\ msg[w].attempt < MaxAttempts
        /\ pc[w] \in Retryable => att[w] < MaxAttempts
        /\ unacked[w] => pc[w] \notin Resting \union {"release"}

TypeInv == /\ TypeBroker /\ TypeStore /\ TypeLocks /\ TypeAgent
           /\ TypeWorker /\ TypeFaults /\ QueuesLeft /\ WorkersLeft

\* What the provers need to know of the records in a queue.
LEMMA EnvelopeFacts ==
    /\ \A m \in Envelope : m.id \in Job /\ m.attempt \in 0..MaxAttempts
    /\ \A j \in Job, n \in 0..MaxAttempts :
          /\ [id |-> j, attempt |-> n] \in Envelope
          /\ [id |-> j, attempt |-> n].id = j
          /\ [id |-> j, attempt |-> n].attempt = n
BY DEF Envelope

\* A retry is delayed in one of the queues there are.
LEMMA DelayLevel ==
    /\ 1 \in Level
    /\ \A n \in 0..MaxAttempts : Clamp(n) \in Level
<1>1. MaxAttempts \in Nat
  BY JobWorkersAssumption
<1> QED
  BY <1>1 DEF Level, Clamp, Min2, Max2

\* The empty system satisfies the type invariant.
LEMMA InitTypeInv == Init => TypeInv
<1> SUFFICES ASSUME Init PROVE TypeInv
  OBVIOUS
<1>1. TypeBroker
  BY Zenon DEF Init, TypeBroker
<1>2. TypeStore
  <2>1. /\ status \in [Job -> Status]
        /\ timing \in [Job -> SUBSET {"published", "started", "finished"}]
    BY Zenon DEF Init, Status
  <2>2. attempts \in [Job -> 0..MaxAttempts]
    <3>1. 0 \in 0..MaxAttempts
      BY JobWorkersAssumption
    <3> QED
      BY <3>1, Zenon DEF Init
  <2>3. metadata \in [Job -> BOOLEAN] /\ reached \in [Job -> BOOLEAN]
    BY Zenon DEF Init
  <2> QED
    BY <2>1, <2>2, <2>3 DEF TypeStore
<1>3. TypeLocks
  BY Zenon DEF Init, TypeLocks
<1>4. TypeAgent
  <2>1. changes \in [Conversation -> Seq(Row)]
    <3>1. <<>> \in Seq(Row)
      OBVIOUS
    <3> QED
      BY <3>1, Zenon DEF Init
  <2>2. /\ asked \in [Conversation -> Nat]
        /\ open \in [Conversation -> Nat]
        /\ runs \in [Job -> Nat]
    BY Zenon DEF Init
  <2> QED
    BY <2>1, <2>2 DEF TypeAgent
<1>5. TypeWorker
  <2>1. att \in [Worker -> 0..MaxAttempts]
    <3>1. 0 \in 0..MaxAttempts
      BY JobWorkersAssumption
    <3> QED
      BY <3>1, Zenon DEF Init
  <2>2. /\ pc \in [Worker -> Label]
        /\ msg \in [Worker -> Envelope \union {None}]
        /\ answering \in [Worker -> Nat]
    BY Zenon DEF Init, Label
  <2>3. /\ unacked \in [Worker -> BOOLEAN] /\ held \in [Worker -> BOOLEAN]
        /\ requested \in [Worker -> BOOLEAN] /\ conn \in [Worker -> BOOLEAN]
        /\ caught \in [Worker -> BOOLEAN]
    BY Zenon DEF Init
  <2> QED
    BY <2>1, <2>2, <2>3 DEF TypeWorker
<1>6. TypeFaults
  <2>1. storeFaults = 0 /\ brokerFaults = 0 /\ drops = 0 /\ crashes = 0
    BY Zenon DEF Init
  <2> QED
    BY <2>1, JobWorkersAssumption DEF TypeFaults
<1>7. QueuesLeft
  <2>1. /\ \A m \in Envelope : ready[m] = 0
        /\ \A l \in Level, m \in Envelope : delayed[l][m] = 0
    BY Zenon DEF Init
  <2> QED
    BY <2>1 DEF QueuesLeft
<1>8. WorkersLeft
  <2>1. \A w \in Worker : pc[w] = "idle" /\ ~unacked[w]
    BY Zenon DEF Init
  <2> QED
    BY <2>1 DEF WorkersLeft, Retryable, Resting
<1> QED
  BY <1>1, <1>2, <1>3, <1>4, <1>5, <1>6, <1>7, <1>8 DEF TypeInv

\* What a step of process() may do to the worker's control state.
Moves(w) ==
    /\ pc' = [pc EXCEPT ![w] = pc'[w]]
    /\ pc'[w] \in Label \ Resting
    /\ att' \in [Worker -> 0..MaxAttempts]
    /\ \A v \in Worker : v # w => att'[v] = att[v]
    /\ pc'[w] \in Retryable => att'[w] < MaxAttempts
    /\ pc'[w] = "release" => ~unacked'[w]
    /\ pc'[w] \in InJob => pc[w] \in InJob \union {"lock"}
    /\ pc'[w] = "running" => pc[w] = "run"

\* A worker in the middle of process() has a well-formed delivery.
AtWork(w) ==
    /\ pc[w] \notin Resting
    /\ msg[w] \in Envelope
    /\ msg[w].attempt < MaxAttempts
    /\ JobOf(w) \in Job
    /\ Conv(w) \in Conversation
    /\ att[w] \in 0..MaxAttempts
    /\ pc[w] \in Retryable => att[w] < MaxAttempts

\* The type invariant says so of every worker that has a delivery.
LEMMA Working ==
    ASSUME NEW w \in Worker, TypeInv, pc[w] \notin Resting
    PROVE  AtWork(w)
<1>1. /\ msg[w] \in Envelope
      /\ msg[w].attempt < MaxAttempts
      /\ pc[w] \in Retryable => att[w] < MaxAttempts
      /\ att[w] \in 0..MaxAttempts
  BY DEF TypeInv, WorkersLeft, TypeWorker
<1>2. JobOf(w) \in Job
  BY <1>1, EnvelopeFacts DEF JobOf
<1> QED
  BY <1>1, <1>2, JobWorkersAssumption DEF Conv, AtWork

\* Counting an attempt keeps it in range while one is left.
LEMMA RetryMoves ==
    ASSUME NEW w \in Worker, TypeInv, AtWork(w), retry(w)
    PROVE  Moves(w)
<1> DEFINE n == msg[w].attempt + 1
<1>1. n \in 0..MaxAttempts /\ att \in [Worker -> 0..MaxAttempts]
  BY JobWorkersAssumption, EnvelopeFacts DEF TypeInv, TypeWorker, AtWork
<1>2. RetryTarget(n) \in {"set_failed", "set_retrying"}
  BY DEF RetryTarget
<1>3. RetryTarget(n) = "set_retrying" => n < MaxAttempts
  BY <1>1, JobWorkersAssumption DEF RetryTarget
<1>4. pc' = [pc EXCEPT ![w] = RetryTarget(n)] /\ pc \in [Worker -> Label]
  BY DEF retry, Goto, TypeInv, TypeWorker
<1>5. pc'[w] = RetryTarget(n)
  BY <1>4
<1>6. att' = [att EXCEPT ![w] = n]
  BY DEF retry
<1> HIDE DEF n
<1>7. /\ att' \in [Worker -> 0..MaxAttempts]
      /\ att'[w] = n
      /\ \A v \in Worker : v # w => att'[v] = att[v]
  BY <1>1, <1>6
<1> QED
  BY <1>2, <1>3, <1>4, <1>5, <1>7, Zenon
     DEF Moves, Label, Retryable, InJob, Resting

\* A plain transition of process() is a move.
LEMMA GotoMoves ==
    ASSUME NEW w \in Worker, TypeInv, NEW l \in Label \ Resting, Goto(w, l),
           UNCHANGED att, l \in Retryable => att[w] < MaxAttempts,
           l = "release" => ~unacked'[w],
           l \in InJob => pc[w] \in InJob \union {"lock"},
           l = "running" => pc[w] = "run"
    PROVE  Moves(w)
BY DEF Moves, Goto, TypeInv, TypeWorker

\* The worker's part of TypeInv after a step that keeps the delivery.
LEMMA MovesType ==
    ASSUME NEW w \in Worker, TypeInv, AtWork(w), Moves(w), UNCHANGED msg,
           unacked' \in [Worker -> BOOLEAN],
           \A v \in Worker : unacked'[v] => unacked[v],
           held' \in [Worker -> BOOLEAN], requested' \in [Worker -> BOOLEAN],
           answering' \in [Worker -> Nat], conn' \in [Worker -> BOOLEAN],
           caught' \in [Worker -> BOOLEAN]
    PROVE  TypeWorker' /\ WorkersLeft'
<1>1. TypeWorker'
  <2>1. pc' \in [Worker -> Label] /\ att' \in [Worker -> 0..MaxAttempts]
    BY DEF TypeInv, TypeWorker, Moves
  <2> QED
    BY <2>1 DEF TypeInv, TypeWorker
<1>2. ASSUME NEW v \in Worker
      PROVE  /\ pc'[v] \notin Resting => msg'[v] \in Envelope /\ msg'[v].attempt < MaxAttempts
             /\ pc'[v] \in Retryable => att'[v] < MaxAttempts
             /\ unacked'[v] => pc'[v] \notin Resting \union {"release"}
  BY DEF AtWork, TypeInv, TypeWorker, WorkersLeft, Moves
<1> QED
  BY <1>1, <1>2 DEF WorkersLeft

\* The same when only the label and the attempt count change.
LEMMA MovesOnlyType ==
    ASSUME NEW w \in Worker, TypeInv, AtWork(w), Moves(w),
           UNCHANGED msg, UNCHANGED locals
    PROVE  TypeWorker' /\ WorkersLeft'
<1>1. /\ unacked' \in [Worker -> BOOLEAN]
      /\ \A v \in Worker : unacked'[v] => unacked[v]
      /\ held' \in [Worker -> BOOLEAN] /\ requested' \in [Worker -> BOOLEAN]
      /\ answering' \in [Worker -> Nat] /\ conn' \in [Worker -> BOOLEAN]
      /\ caught' \in [Worker -> BOOLEAN]
  BY DEF locals, TypeInv, TypeWorker
<1> QED
  BY <1>1, MovesType

\* Every step of process() up to the release is such a move.
LEMMA ProcessMoves ==
    ASSUME TypeInv, NEW w \in Worker, Process(w)
    PROVE  AtWork(w) /\ Moves(w)
<1> USE DEF Label, Retryable, InJob, Resting
<1>GetJobStatus. ASSUME GetJobStatus(w) PROVE AtWork(w) /\ Moves(w)
  <2>1. AtWork(w)
    BY <1>GetJobStatus, Working DEF GetJobStatus
  <2> QED
    BY <1>GetJobStatus, <2>1, GotoMoves DEF GetJobStatus, AtWork,
       StatusTarget
<1>AcquireConversationLock. ASSUME AcquireConversationLock(w)
  PROVE AtWork(w) /\ Moves(w)
  <2>1. AtWork(w)
    BY <1>AcquireConversationLock, Working DEF AcquireConversationLock
  <2> QED
    BY <1>AcquireConversationLock, <2>1, GotoMoves
       DEF AcquireConversationLock, AtWork
<1>SetProcessing. ASSUME SetProcessing(w) PROVE AtWork(w) /\ Moves(w)
  <2>1. AtWork(w)
    BY <1>SetProcessing, Working DEF SetProcessing
  <2> QED
    BY <1>SetProcessing, <2>1, GotoMoves DEF SetProcessing, AtWork
<1>MarkStarted. ASSUME MarkStarted(w) PROVE AtWork(w) /\ Moves(w)
  <2>1. AtWork(w)
    BY <1>MarkStarted, Working DEF MarkStarted
  <2> QED
    BY <1>MarkStarted, <2>1, GotoMoves DEF MarkStarted, AtWork
<1>StartRun. ASSUME StartRun(w) PROVE AtWork(w) /\ Moves(w)
  <2>1. AtWork(w)
    BY <1>StartRun, Working DEF StartRun
  <2> QED
    BY <1>StartRun, <2>1, GotoMoves DEF StartRun, AtWork
<1>NoPendingInput. ASSUME NoPendingInput(w) PROVE AtWork(w) /\ Moves(w)
  <2>1. AtWork(w)
    BY <1>NoPendingInput, Working DEF NoPendingInput
  <2> QED
    BY <1>NoPendingInput, <2>1, GotoMoves DEF NoPendingInput, AtWork
<1>Pause. ASSUME Pause(w) PROVE AtWork(w) /\ Moves(w)
  <2>1. AtWork(w)
    BY <1>Pause, Working, Zenon DEF Pause
  <2> QED
    BY <1>Pause, <2>1, GotoMoves DEF Pause, AtWork
<1>Book. ASSUME Book(w) PROVE AtWork(w) /\ Moves(w)
  <2>1. AtWork(w)
    BY <1>Book, Working DEF Book
  <2> QED
    BY <1>Book, <2>1, GotoMoves DEF Book, AtWork
<1>Complete. ASSUME Complete(w) PROVE AtWork(w) /\ Moves(w)
  <2>1. AtWork(w)
    BY <1>Complete, Working DEF Complete
  <2> QED
    BY <1>Complete, <2>1, GotoMoves DEF Complete, AtWork
<1>EndFailed. ASSUME EndFailed(w) PROVE AtWork(w) /\ Moves(w)
  <2>1. AtWork(w)
    BY <1>EndFailed, Working DEF EndFailed
  <2> QED
    BY <1>EndFailed, <2>1, GotoMoves DEF EndFailed, AtWork
<1>FailRun. ASSUME FailRun(w) PROVE AtWork(w) /\ Moves(w)
  <2>1. AtWork(w)
    BY <1>FailRun, Working DEF FailRun
  <2> QED
    BY <1>FailRun, <2>1, RetryMoves DEF FailRun
<1>SetMetadata. ASSUME SetMetadata(w) PROVE AtWork(w) /\ Moves(w)
  <2>1. AtWork(w)
    BY <1>SetMetadata, Working DEF SetMetadata
  <2> QED
    BY <1>SetMetadata, <2>1, GotoMoves DEF SetMetadata, AtWork
<1>MarkFinished. ASSUME MarkFinished(w) PROVE AtWork(w) /\ Moves(w)
  <2>1. AtWork(w)
    BY <1>MarkFinished, Working DEF MarkFinished
  <2> QED
    BY <1>MarkFinished, <2>1, GotoMoves DEF MarkFinished, AtWork
<1>SetFinal. ASSUME SetFinal(w) PROVE AtWork(w) /\ Moves(w)
  <2>1. AtWork(w)
    BY <1>SetFinal, Working DEF SetFinal
  <2> QED
    BY <1>SetFinal, <2>1, GotoMoves DEF SetFinal, AtWork
<1>SetRetrying. ASSUME SetRetrying(w) PROVE AtWork(w) /\ Moves(w)
  <2>1. AtWork(w)
    BY <1>SetRetrying, Working, Zenon DEF SetRetrying
  <2> QED
    BY <1>SetRetrying, <2>1, GotoMoves DEF SetRetrying, AtWork
<1>Delay. ASSUME Delay(w) PROVE AtWork(w) /\ Moves(w)
  <2>1. AtWork(w)
    BY <1>Delay, Working DEF Delay
  <2> QED
    BY <1>Delay, <2>1, GotoMoves, Zenon DEF Delay, AtWork
<1>SetFailed. ASSUME SetFailed(w) PROVE AtWork(w) /\ Moves(w)
  <2>1. AtWork(w)
    BY <1>SetFailed, Working DEF SetFailed
  <2> QED
    BY <1>SetFailed, <2>1, GotoMoves DEF SetFailed, AtWork
<1>MarkFailed. ASSUME MarkFailed(w) PROVE AtWork(w) /\ Moves(w)
  <2>1. AtWork(w)
    BY <1>MarkFailed, Working DEF MarkFailed
  <2> QED
    BY <1>MarkFailed, <2>1, GotoMoves DEF MarkFailed, AtWork
<1>DeadLetter. ASSUME DeadLetter(w) PROVE AtWork(w) /\ Moves(w)
  <2>1. AtWork(w)
    BY <1>DeadLetter, Working DEF DeadLetter
  <2> QED
    BY <1>DeadLetter, <2>1, GotoMoves DEF DeadLetter, AtWork
<1>Settle. ASSUME Settle(w) PROVE AtWork(w) /\ Moves(w)
  <2>1. AtWork(w)
    BY <1>Settle, Working DEF Settle
  <2> QED
    BY <1>Settle, <2>1, GotoMoves
       DEF Settle, Raise, AtWork, TypeInv, TypeWorker
<1>Requeue. ASSUME Requeue(w) PROVE AtWork(w) /\ Moves(w)
  <2>1. AtWork(w)
    BY <1>Requeue, Working DEF Requeue
  <2> QED
    BY <1>Requeue, <2>1, GotoMoves, Zenon
       DEF Requeue, Raise, AtWork, TypeInv, TypeWorker
<1> QED
  BY <1>GetJobStatus, <1>AcquireConversationLock, <1>SetProcessing,
     <1>MarkStarted, <1>StartRun, <1>NoPendingInput, <1>Pause, <1>Book,
     <1>Complete, <1>EndFailed, <1>FailRun, <1>SetMetadata, <1>MarkFinished,
     <1>SetFinal, <1>SetRetrying, <1>Delay, <1>SetFailed, <1>MarkFailed,
     <1>DeadLetter, <1>Settle, <1>Requeue DEF Process

\* A status write, whether or not it took effect, stores a status.
LEMMA StatusType ==
    ASSUME NEW j \in Job, NEW s \in Status, TypeInv,
           SetJobStatus(j, s) \/ UNCHANGED states
    PROVE  status' \in [Job -> Status] /\ reached' \in [Job -> BOOLEAN]
<1>1. CASE SetJobStatus(j, s)
  BY <1>1 DEF SetJobStatus, isTerminal, TypeInv, TypeStore
<1>2. CASE UNCHANGED states
  BY <1>2 DEF states, TypeInv, TypeStore
<1> QED
  BY <1>1, <1>2

\* The fault counters stay within their bounds.
LEMMA FaultType ==
    ASSUME TypeInv,
           StoreFault \/ UNCHANGED storeFaults,
           BrokerFault \/ UNCHANGED brokerFaults,
           UNCHANGED deaths
    PROVE  TypeFaults'
BY JobWorkersAssumption
   DEF StoreFault, BrokerFault, FaultLeft, deaths, TypeInv, TypeFaults

\* The same when the fault is a crash or a lost connection.
LEMMA CrashFaultType ==
    ASSUME TypeInv, FaultLeft,
           \/ crashes' = crashes + 1 /\ UNCHANGED drops
           \/ drops' = drops + 1 /\ UNCHANGED crashes,
           UNCHANGED storeFaults, UNCHANGED brokerFaults
    PROVE  TypeFaults'
BY JobWorkersAssumption DEF FaultLeft, TypeInv, TypeFaults

\* A part of the state that does not change keeps its part of the invariant.
LEMMA Frames ==
    ASSUME TypeInv
    PROVE  /\ UNCHANGED broker => TypeBroker'
           /\ UNCHANGED ready /\ UNCHANGED delayed => QueuesLeft'
           /\ UNCHANGED states /\ UNCHANGED hashes => TypeStore'
           /\ UNCHANGED locks => TypeLocks'
           /\ UNCHANGED agent => TypeAgent'
           /\ UNCHANGED storeFaults /\ UNCHANGED brokerFaults
              /\ UNCHANGED deaths => TypeFaults'
           /\ UNCHANGED pc /\ UNCHANGED msg /\ UNCHANGED att
              /\ UNCHANGED locals => TypeWorker' /\ WorkersLeft'
<1>1. UNCHANGED broker => TypeBroker'
  BY Zenon DEF broker, TypeInv, TypeBroker
<1>7. UNCHANGED ready /\ UNCHANGED delayed => QueuesLeft'
  BY Zenon DEF TypeInv, QueuesLeft
<1>2. UNCHANGED states /\ UNCHANGED hashes => TypeStore'
  BY Zenon DEF states, hashes, TypeInv, TypeStore
<1>3. UNCHANGED locks => TypeLocks'
  BY Zenon DEF locks, TypeInv, TypeLocks
<1>4. UNCHANGED agent => TypeAgent'
  BY Zenon DEF agent, TypeInv, TypeAgent
<1>5. UNCHANGED storeFaults /\ UNCHANGED brokerFaults
         /\ UNCHANGED deaths => TypeFaults'
  BY Zenon DEF deaths, TypeInv, TypeFaults
<1>6. UNCHANGED pc /\ UNCHANGED msg /\ UNCHANGED att
         /\ UNCHANGED locals => TypeWorker' /\ WorkersLeft'
  BY Zenon DEF locals, TypeInv, TypeWorker, WorkersLeft
<1> QED
  BY <1>1, <1>2, <1>3, <1>4, <1>5, <1>6, <1>7, Zenon

\* Adding a copy to a queue, and taking one away.
LEMMA PutFacts ==
    ASSUME NEW q \in [Envelope -> Nat], NEW m \in Envelope
    PROVE  /\ Put(q, m) \in [Envelope -> Nat]
           /\ Put(q, m)[m] > 0
           /\ \A e \in Envelope : e # m => Put(q, m)[e] = q[e]
BY DEF Put

\* A delivery or an expiry takes one copy from its queue only.
LEMMA TakeFacts ==
    ASSUME NEW q \in [Envelope -> Nat], NEW m \in Envelope, q[m] > 0
    PROVE  /\ Take(q, m) \in [Envelope -> Nat]
           /\ \A e \in Envelope : e # m => Take(q, m)[e] = q[e]
BY DEF Take

\* The broker takes an unacknowledged delivery back as it was.
LEMMA ReturnType ==
    ASSUME TypeInv, NEW w \in Worker, UNCHANGED <<delayed, dead>>,
           ready' = IF unacked[w] THEN Put(ready, msg[w]) ELSE ready
    PROVE  TypeBroker' /\ QueuesLeft'
<1>1. CASE unacked[w]
  <2>1. msg[w] \in Envelope /\ msg[w].attempt < MaxAttempts
    BY <1>1, Zenon DEF TypeInv, WorkersLeft
  <2>2. ready' = Put(ready, msg[w]) /\ ready \in [Envelope -> Nat]
    BY <1>1, Zenon DEF TypeInv, TypeBroker
  <2>3. ready' \in [Envelope -> Nat]
    BY <2>1, <2>2, PutFacts, Zenon
  <2>4. \A m \in Envelope : ready'[m] > 0 => m.attempt < MaxAttempts
    BY <2>1, <2>2, PutFacts DEF TypeInv, QueuesLeft
  <2> QED
    BY <2>3, <2>4, Zenon DEF TypeInv, TypeBroker, QueuesLeft
<1>2. CASE ~unacked[w]
  BY <1>2, Zenon DEF TypeInv, TypeBroker, QueuesLeft
<1> QED
  BY <1>1, <1>2, Zenon

\* A restored question is one that was put.
LEMMA RestoreType ==
    ASSUME TypeInv, NEW w \in Worker, Conv(w) \in Conversation, Restore(w)
    PROVE  open' \in [Conversation -> Nat]
BY Zenon DEF Restore, TypeInv, TypeAgent, TypeWorker

\* The finally clause frees the lock or leaves it.
LEMMA UnlockType ==
    ASSUME TypeInv, NEW w \in Worker, Conv(w) \in Conversation, Unlock(w),
           UNCHANGED brokerFaults, UNCHANGED deaths
    PROVE  TypeLocks' /\ TypeFaults'
<1>1. TypeLocks'
  BY Zenon DEF Unlock, DropLock, TypeInv, TypeLocks, locks
<1>2. TypeFaults'
  BY FaultType, Zenon DEF Unlock
<1> QED
  BY <1>1, <1>2, Zenon

\* Every step of the system preserves the type invariant.
LEMMA NextTypeInv == TypeInv /\ [Next]_vars => TypeInv'
<1> SUFFICES ASSUME TypeInv, [Next]_vars PROVE TypeInv'
  BY Zenon
<1>GetJobStatus. ASSUME NEW w \in Worker, GetJobStatus(w) PROVE TypeInv'
  <2>1. AtWork(w) /\ Moves(w)
    BY <1>GetJobStatus, ProcessMoves, Zenon DEF Process
  <2>2. TypeWorker' /\ WorkersLeft'
    BY <1>GetJobStatus, <2>1, MovesOnlyType, Zenon DEF GetJobStatus
  <2>3. TypeFaults'
    BY <1>GetJobStatus, FaultType, Zenon DEF GetJobStatus
  <2>4. TypeBroker' /\ TypeStore' /\ TypeLocks' /\ TypeAgent' /\ QueuesLeft'
    BY <1>GetJobStatus, Frames, Zenon DEF broker, GetJobStatus
  <2> QED
    BY <2>2, <2>3, <2>4, Zenon DEF TypeInv
<1>AcquireConversationLock. ASSUME NEW w \in Worker, AcquireConversationLock(w)
  PROVE TypeInv'
  <2>1. AtWork(w) /\ Moves(w)
    BY <1>AcquireConversationLock, ProcessMoves, Zenon DEF Process
  <2>2. TypeWorker' /\ WorkersLeft'
    <3>1. /\ UNCHANGED msg
          /\ unacked' \in [Worker -> BOOLEAN]
          /\ \A v \in Worker : unacked'[v] => unacked[v]
          /\ held' \in [Worker -> BOOLEAN] /\ requested' \in [Worker -> BOOLEAN]
          /\ answering' \in [Worker -> Nat] /\ conn' \in [Worker -> BOOLEAN]
          /\ caught' \in [Worker -> BOOLEAN]
      BY <1>AcquireConversationLock, Zenon
      DEF AcquireConversationLock, TypeInv, TypeWorker
    <3> QED
      BY <2>1, <3>1, MovesType, Zenon
  <2>3. TypeFaults'
    BY <1>AcquireConversationLock, FaultType, Zenon DEF AcquireConversationLock
  <2>4. TypeLocks'
    BY <1>AcquireConversationLock, <2>1, Zenon
    DEF AcquireConversationLock, AtWork, TypeInv, TypeLocks, TakeLock, locks
  <2>5. TypeBroker' /\ TypeStore' /\ TypeAgent' /\ QueuesLeft'
    BY <1>AcquireConversationLock, Frames, Zenon
    DEF broker, AcquireConversationLock
  <2> QED
    BY <2>2, <2>3, <2>4, <2>5, Zenon DEF TypeInv
<1>SetProcessing. ASSUME NEW w \in Worker, SetProcessing(w) PROVE TypeInv'
  <2>1. AtWork(w) /\ Moves(w)
    BY <1>SetProcessing, ProcessMoves, Zenon DEF Process
  <2>2. TypeWorker' /\ WorkersLeft'
    BY <1>SetProcessing, <2>1, MovesOnlyType, Zenon DEF SetProcessing
  <2>3. TypeFaults'
    BY <1>SetProcessing, FaultType, Zenon DEF SetProcessing, FailJobStatus
  <2>4. TypeStore'
    BY <1>SetProcessing, <2>1, StatusType, Zenon
    DEF SetProcessing, AtWork, TypeInv, TypeStore, FailJobStatus, Status,
       hashes
  <2>5. TypeBroker' /\ TypeLocks' /\ TypeAgent' /\ QueuesLeft'
    BY <1>SetProcessing, Frames, Zenon DEF broker, SetProcessing
  <2> QED
    BY <2>2, <2>3, <2>4, <2>5, Zenon DEF TypeInv
<1>MarkStarted. ASSUME NEW w \in Worker, MarkStarted(w) PROVE TypeInv'
  <2>1. AtWork(w) /\ Moves(w)
    BY <1>MarkStarted, ProcessMoves, Zenon DEF Process
  <2>2. TypeWorker' /\ WorkersLeft'
    BY <1>MarkStarted, <2>1, MovesOnlyType, Zenon DEF MarkStarted
  <2>3. TypeFaults'
    BY <1>MarkStarted, FaultType, Zenon DEF MarkStarted
  <2>4. TypeStore'
    <3>1. att[w] + 1 \in 0..MaxAttempts
      BY <1>MarkStarted, <2>1, JobWorkersAssumption, SMTT(30)
         DEF AtWork, MarkStarted,
         Retryable
    <3>2. attempts' \in [Job -> 0..MaxAttempts]
      BY <1>MarkStarted, <2>1, <3>1, Zenon
         DEF AtWork, MarkStarted, TypeInv, TypeStore
    <3>3. timing' \in [Job -> SUBSET {"published", "started", "finished"}]
      BY <1>MarkStarted, <2>1, ZenonT(30)
         DEF AtWork, MarkStarted, TypeInv, TypeStore
    <3> QED
      BY <1>MarkStarted, <3>2, <3>3, ZenonT(30)
         DEF MarkStarted, TypeInv, TypeStore, states
  <2>5. TypeBroker' /\ TypeLocks' /\ TypeAgent' /\ QueuesLeft'
    BY <1>MarkStarted, Frames, Zenon DEF broker, MarkStarted
  <2> QED
    BY <2>2, <2>3, <2>4, <2>5, Zenon DEF TypeInv
<1>StartRun. ASSUME NEW w \in Worker, StartRun(w) PROVE TypeInv'
  <2>1. AtWork(w) /\ Moves(w)
    BY <1>StartRun, ProcessMoves, Zenon DEF Process
  <2>0. /\ Conv(w) \in Conversation /\ open[Conv(w)] \in Nat
        /\ runs[JobOf(w)] + 1 \in Nat /\ 0 \in Nat
    BY <2>1, SMTT(30) DEF AtWork, TypeInv, TypeAgent
  <2>2. TypeWorker' /\ WorkersLeft'
    <3>1. /\ UNCHANGED msg
          /\ unacked' \in [Worker -> BOOLEAN]
          /\ \A v \in Worker : unacked'[v] => unacked[v]
          /\ held' \in [Worker -> BOOLEAN] /\ requested' \in [Worker -> BOOLEAN]
          /\ answering' \in [Worker -> Nat] /\ conn' \in [Worker -> BOOLEAN]
          /\ caught' \in [Worker -> BOOLEAN]
      BY <1>StartRun, <2>0, Zenon DEF StartRun, TypeInv, TypeWorker
    <3> QED
      BY <2>1, <3>1, MovesType, Zenon
  <2>3. TypeFaults'
    BY <1>StartRun, FaultType, Zenon DEF StartRun
  <2>4. TypeAgent'
    BY <1>StartRun, <2>0, Zenon DEF StartRun, Answered, TypeInv, TypeAgent
  <2>5. TypeBroker' /\ TypeStore' /\ TypeLocks' /\ QueuesLeft'
    BY <1>StartRun, Frames, Zenon DEF broker, StartRun
  <2> QED
    BY <2>2, <2>3, <2>4, <2>5, Zenon DEF TypeInv
<1>NoPendingInput. ASSUME NEW w \in Worker, NoPendingInput(w) PROVE TypeInv'
  <2>1. AtWork(w) /\ Moves(w)
    BY <1>NoPendingInput, ProcessMoves, Zenon DEF Process
  <2>2. TypeWorker' /\ WorkersLeft'
    BY <1>NoPendingInput, <2>1, MovesOnlyType, Zenon DEF NoPendingInput
  <2>3. TypeFaults'
    BY <1>NoPendingInput, FaultType, Zenon DEF NoPendingInput
  <2>4. TypeBroker' /\ TypeStore' /\ TypeLocks' /\ TypeAgent' /\ QueuesLeft'
    BY <1>NoPendingInput, Frames, Zenon DEF broker, NoPendingInput
  <2> QED
    BY <2>2, <2>3, <2>4, Zenon DEF TypeInv
<1>EndFailed. ASSUME NEW w \in Worker, EndFailed(w) PROVE TypeInv'
  <2>1. AtWork(w) /\ Moves(w)
    BY <1>EndFailed, ProcessMoves, Zenon DEF Process
  <2>2. TypeWorker' /\ WorkersLeft'
    BY <1>EndFailed, <2>1, MovesOnlyType, Zenon DEF EndFailed
  <2>3. TypeFaults'
    BY <1>EndFailed, FaultType, Zenon DEF EndFailed
  <2>4. TypeBroker' /\ TypeStore' /\ TypeLocks' /\ TypeAgent' /\ QueuesLeft'
    BY <1>EndFailed, Frames, Zenon DEF broker, EndFailed
  <2> QED
    BY <2>2, <2>3, <2>4, Zenon DEF TypeInv
<1>Pause. ASSUME NEW w \in Worker, Pause(w) PROVE TypeInv'
  <2>1. AtWork(w) /\ Moves(w)
    BY <1>Pause, ProcessMoves, Zenon DEF Process
  <2>2. TypeWorker' /\ WorkersLeft'
    <3>1. /\ UNCHANGED msg
          /\ unacked' \in [Worker -> BOOLEAN]
          /\ \A v \in Worker : unacked'[v] => unacked[v]
          /\ held' \in [Worker -> BOOLEAN] /\ requested' \in [Worker -> BOOLEAN]
          /\ answering' \in [Worker -> Nat] /\ conn' \in [Worker -> BOOLEAN]
          /\ caught' \in [Worker -> BOOLEAN]
      BY <1>Pause, Zenon DEF Pause, TypeInv, TypeWorker
    <3> QED
      BY <2>1, <3>1, MovesType, Zenon
  <2>3. TypeFaults'
    BY <1>Pause, FaultType, Zenon DEF Pause
  <2>4. TypeAgent'
    <3>1. /\ Conv(w) \in Conversation
          /\ asked \in [Conversation -> Nat]
          /\ open \in [Conversation -> Nat]
          /\ asked[Conv(w)] + 1 \in Nat
      BY <2>1 DEF AtWork, TypeInv, TypeAgent
    <3>2. asked' \in [Conversation -> Nat]
      BY <1>Pause, <3>1, Zenon DEF Pause
    <3>3. open' \in [Conversation -> Nat]
      BY <1>Pause, <3>1, Zenon DEF Pause
    <3> QED
      BY <1>Pause, <3>2, <3>3, Zenon DEF Pause, TypeInv, TypeAgent
  <2>5. TypeBroker' /\ TypeStore' /\ TypeLocks' /\ QueuesLeft'
    BY <1>Pause, Frames, Zenon DEF broker, Pause
  <2> QED
    BY <2>2, <2>3, <2>4, <2>5, Zenon DEF TypeInv
<1>Book. ASSUME NEW w \in Worker, Book(w) PROVE TypeInv'
  <2>1. AtWork(w) /\ Moves(w)
    BY <1>Book, ProcessMoves, Zenon DEF Process
  <2>2. TypeWorker' /\ WorkersLeft'
    BY <1>Book, <2>1, MovesOnlyType, Zenon DEF Book
  <2>3. TypeFaults'
    BY <1>Book, FaultType, ZenonT(30) DEF Book
  <2>4. TypeAgent'
    <3>1. [job |-> JobOf(w), ask |-> answering[w]] \in Row
      BY <2>1, Zenon DEF AtWork, Row, TypeInv, TypeWorker
    <3> QED
      BY <1>Book, <2>1, <3>1 DEF AtWork, Book, TypeInv, TypeAgent
  <2>5. TypeBroker' /\ TypeStore' /\ TypeLocks' /\ QueuesLeft'
    BY <1>Book, Frames, Zenon DEF broker, Book
  <2> QED
    BY <2>2, <2>3, <2>4, <2>5, Zenon DEF TypeInv
<1>Complete. ASSUME NEW w \in Worker, Complete(w) PROVE TypeInv'
  <2>1. AtWork(w) /\ Moves(w)
    BY <1>Complete, ProcessMoves, Zenon DEF Process
  <2>2. TypeWorker' /\ WorkersLeft'
    BY <1>Complete, <2>1, MovesOnlyType, Zenon DEF Complete
  <2>3. TypeFaults'
    BY <1>Complete, FaultType, Zenon DEF Complete
  <2>4. TypeBroker' /\ TypeStore' /\ TypeLocks' /\ TypeAgent' /\ QueuesLeft'
    BY <1>Complete, Frames, Zenon DEF broker, Complete
  <2> QED
    BY <2>2, <2>3, <2>4, Zenon DEF TypeInv
<1>FailRun. ASSUME NEW w \in Worker, FailRun(w) PROVE TypeInv'
  <2>1. AtWork(w) /\ Moves(w)
    BY <1>FailRun, ProcessMoves, Zenon DEF Process
  <2>2. TypeWorker' /\ WorkersLeft'
    BY <1>FailRun, <2>1, MovesOnlyType, Zenon DEF FailRun
  <2>3. TypeFaults'
    BY <1>FailRun, FaultType, Zenon DEF FailRun
  <2>4. TypeAgent'
    <3>1. open' \in [Conversation -> Nat]
      BY <1>FailRun, <2>1, RestoreType, Zenon
         DEF FailRun, AtWork, TypeInv, TypeAgent
    <3> QED
      BY <1>FailRun, <3>1, Zenon DEF FailRun, TypeInv, TypeAgent
  <2>5. TypeBroker' /\ TypeStore' /\ TypeLocks' /\ QueuesLeft'
    BY <1>FailRun, Frames, Zenon DEF broker, FailRun
  <2> QED
    BY <2>2, <2>3, <2>4, <2>5, Zenon DEF TypeInv
<1>SetMetadata. ASSUME NEW w \in Worker, SetMetadata(w) PROVE TypeInv'
  <2>1. AtWork(w) /\ Moves(w)
    BY <1>SetMetadata, ProcessMoves, Zenon DEF Process
  <2>2. TypeWorker' /\ WorkersLeft'
    BY <1>SetMetadata, <2>1, MovesOnlyType, Zenon DEF SetMetadata
  <2>3. TypeFaults'
    BY <1>SetMetadata, FaultType, Zenon DEF SetMetadata
  <2>4. TypeStore'
    BY <1>SetMetadata, <2>1, Zenon
       DEF SetMetadata, AtWork, TypeInv, TypeStore, states
  <2>5. TypeBroker' /\ TypeLocks' /\ TypeAgent' /\ QueuesLeft'
    BY <1>SetMetadata, Frames, Zenon DEF broker, SetMetadata
  <2> QED
    BY <2>2, <2>3, <2>4, <2>5, Zenon DEF TypeInv
<1>MarkFinished. ASSUME NEW w \in Worker, MarkFinished(w) PROVE TypeInv'
  <2>1. AtWork(w) /\ Moves(w)
    BY <1>MarkFinished, ProcessMoves, Zenon DEF Process
  <2>2. TypeWorker' /\ WorkersLeft'
    BY <1>MarkFinished, <2>1, MovesOnlyType, Zenon DEF MarkFinished
  <2>3. TypeFaults'
    BY <1>MarkFinished, FaultType, Zenon DEF MarkFinished
  <2>4. TypeStore'
    BY <1>MarkFinished, <2>1, Zenon
    DEF MarkFinished, AtWork, TypeInv, TypeStore, Finished, states
  <2>5. TypeBroker' /\ TypeLocks' /\ TypeAgent' /\ QueuesLeft'
    BY <1>MarkFinished, Frames, Zenon DEF broker, MarkFinished
  <2> QED
    BY <2>2, <2>3, <2>4, <2>5, Zenon DEF TypeInv
<1>SetFinal. ASSUME NEW w \in Worker, SetFinal(w) PROVE TypeInv'
  <2>1. AtWork(w) /\ Moves(w)
    BY <1>SetFinal, ProcessMoves, Zenon DEF Process
  <2>2. TypeWorker' /\ WorkersLeft'
    BY <1>SetFinal, <2>1, MovesOnlyType, Zenon DEF SetFinal
  <2>3. TypeFaults'
    BY <1>SetFinal, FaultType, Zenon DEF SetFinal, FailJobStatus
  <2>4. TypeStore'
    BY <1>SetFinal, <2>1, StatusType, Zenon
    DEF SetFinal, AtWork, TypeInv, TypeStore, FailJobStatus, FinalStatus,
       Status, hashes
  <2>5. TypeBroker' /\ TypeLocks' /\ TypeAgent' /\ QueuesLeft'
    BY <1>SetFinal, Frames, Zenon DEF broker, SetFinal
  <2> QED
    BY <2>2, <2>3, <2>4, <2>5, Zenon DEF TypeInv
<1>SetRetrying. ASSUME NEW w \in Worker, SetRetrying(w) PROVE TypeInv'
  <2>1. AtWork(w) /\ Moves(w)
    BY <1>SetRetrying, ProcessMoves, Zenon DEF Process
  <2>2. TypeWorker' /\ WorkersLeft'
    BY <1>SetRetrying, <2>1, MovesOnlyType, Zenon DEF SetRetrying
  <2>3. TypeFaults'
    BY <1>SetRetrying, FaultType, Zenon DEF SetRetrying, FailJobStatus
  <2>4. TypeStore'
    BY <1>SetRetrying, <2>1, StatusType, Zenon
    DEF SetRetrying, AtWork, TypeInv, TypeStore, FailJobStatus, Status, hashes
  <2>5. TypeBroker' /\ TypeLocks' /\ TypeAgent' /\ QueuesLeft'
    BY <1>SetRetrying, Frames, Zenon DEF broker, SetRetrying
  <2> QED
    BY <2>2, <2>3, <2>4, <2>5, Zenon DEF TypeInv
<1>Delay. ASSUME NEW w \in Worker, Delay(w) PROVE TypeInv'
  <2>1. AtWork(w) /\ Moves(w)
    BY <1>Delay, ProcessMoves, Zenon DEF Process
  <2>2. TypeWorker' /\ WorkersLeft'
    BY <1>Delay, <2>1, MovesOnlyType, Zenon DEF Delay
  <2>3. TypeFaults'
    BY <1>Delay, FaultType, Zenon DEF Delay, Refused
  <2>4. TypeBroker' /\ QueuesLeft'
    <3>1. Copy(w) \in Envelope /\ Copy(w).attempt < MaxAttempts
      BY <1>Delay, <2>1, EnvelopeFacts, Zenon
      DEF AtWork, Copy, Delay, Retryable
    <3>2. 1 \in Level /\ Clamp(att[w]) \in Level
      BY <2>1, JobWorkersAssumption, SMTT(30)
         DEF AtWork, Level, Clamp, Max2, Min2
    <3>3. UNCHANGED <<ready, dead>>
      BY <1>Delay, Zenon DEF Delay
    <3>4. CASE UNCHANGED delayed
      BY <3>3, <3>4, Zenon DEF TypeInv, TypeBroker, QueuesLeft
    <3>5. ASSUME NEW l \in Level,
                 delayed' = [delayed EXCEPT ![l] = Put(delayed[l], Copy(w))]
          PROVE  TypeBroker' /\ QueuesLeft'
      <4>1. delayed \in [Level -> [Envelope -> Nat]]
        BY Zenon DEF TypeInv, TypeBroker
      <4>2. Put(delayed[l], Copy(w)) \in [Envelope -> Nat]
        BY <3>1, <4>1, PutFacts, Zenon
      <4>3. delayed' \in [Level -> [Envelope -> Nat]]
        BY <3>5, <4>1, <4>2, Zenon
      <4>4. ASSUME NEW k \in Level, NEW m \in Envelope, delayed'[k][m] > 0
            PROVE  m.attempt < MaxAttempts
        <5>1. CASE k = l
          <6>1. delayed'[k] = Put(delayed[l], Copy(w))
            BY <3>5, <4>1, <5>1, Zenon
          <6>2. CASE m = Copy(w)
            BY <3>1, <6>2, Zenon
          <6>3. CASE m # Copy(w)
            <7>1. delayed[l][m] > 0
              BY <3>1, <4>1, <4>4, <6>1, <6>3, PutFacts, SMTT(30)
            <7> QED
              BY <7>1, Zenon DEF TypeInv, QueuesLeft
          <6> QED
            BY <6>2, <6>3, Zenon
        <5>2. CASE k # l
          BY <3>5, <4>1, <4>4, <5>2, ZenonT(30) DEF TypeInv, QueuesLeft
        <5> QED
          BY <5>1, <5>2, Zenon
      <4> QED
        BY <3>3, <4>3, <4>4, Zenon DEF TypeInv, TypeBroker, QueuesLeft
    <3> QED
      BY <1>Delay, <3>2, <3>4, <3>5, Zenon DEF Delay, Refused
  <2>5. TypeStore' /\ TypeLocks' /\ TypeAgent'
    BY <1>Delay, Frames, Zenon DEF broker, Delay
  <2> QED
    BY <2>2, <2>3, <2>4, <2>5, Zenon DEF TypeInv
<1>SetFailed. ASSUME NEW w \in Worker, SetFailed(w) PROVE TypeInv'
  <2>1. AtWork(w) /\ Moves(w)
    BY <1>SetFailed, ProcessMoves, Zenon DEF Process
  <2>2. TypeWorker' /\ WorkersLeft'
    BY <1>SetFailed, <2>1, MovesOnlyType, Zenon DEF SetFailed
  <2>3. TypeFaults'
    BY <1>SetFailed, FaultType, Zenon DEF SetFailed, FailJobStatus
  <2>4. TypeStore'
    BY <1>SetFailed, <2>1, StatusType, Zenon DEF SetFailed, AtWork, TypeInv,
       TypeStore, FailJobStatus, Status, hashes
  <2>5. TypeBroker' /\ TypeLocks' /\ TypeAgent' /\ QueuesLeft'
    BY <1>SetFailed, Frames, Zenon DEF broker, SetFailed
  <2> QED
    BY <2>2, <2>3, <2>4, <2>5, Zenon DEF TypeInv
<1>MarkFailed. ASSUME NEW w \in Worker, MarkFailed(w) PROVE TypeInv'
  <2>1. AtWork(w) /\ Moves(w)
    BY <1>MarkFailed, ProcessMoves, Zenon DEF Process
  <2>2. TypeWorker' /\ WorkersLeft'
    BY <1>MarkFailed, <2>1, MovesOnlyType, Zenon DEF MarkFailed
  <2>3. TypeFaults'
    BY <1>MarkFailed, FaultType, Zenon DEF MarkFailed
  <2>4. TypeStore'
    BY <1>MarkFailed, <2>1, Zenon DEF MarkFailed, AtWork, TypeInv, TypeStore,
       Finished, states
  <2>5. TypeBroker' /\ TypeLocks' /\ TypeAgent' /\ QueuesLeft'
    BY <1>MarkFailed, Frames, Zenon DEF broker, MarkFailed
  <2> QED
    BY <2>2, <2>3, <2>4, <2>5, Zenon DEF TypeInv
<1>DeadLetter. ASSUME NEW w \in Worker, DeadLetter(w) PROVE TypeInv'
  <2>1. AtWork(w) /\ Moves(w)
    BY <1>DeadLetter, ProcessMoves, Zenon DEF Process
  <2>2. TypeWorker' /\ WorkersLeft'
    BY <1>DeadLetter, <2>1, MovesOnlyType, Zenon DEF DeadLetter
  <2>3. TypeFaults'
    BY <1>DeadLetter, FaultType, Zenon DEF DeadLetter, Refused
  <2>4. TypeBroker'
    <3>1. Copy(w) \in Envelope
      BY <2>1, EnvelopeFacts, Zenon DEF AtWork, Copy
    <3> QED
      BY <1>DeadLetter, <3>1, PutFacts, ZenonT(30)
         DEF TypeInv, DeadLetter, Refused, TypeBroker
  <2>5. TypeStore' /\ TypeLocks' /\ TypeAgent' /\ QueuesLeft'
    BY <1>DeadLetter, Frames, Zenon DEF broker, DeadLetter
  <2> QED
    BY <2>2, <2>3, <2>4, <2>5, Zenon DEF TypeInv
<1>Settle. ASSUME NEW w \in Worker, Settle(w) PROVE TypeInv'
  <2>1. AtWork(w) /\ Moves(w)
    BY <1>Settle, ProcessMoves, Zenon DEF Process
  <2>2. TypeWorker' /\ WorkersLeft'
    <3>1. /\ UNCHANGED msg
          /\ unacked' \in [Worker -> BOOLEAN]
          /\ \A v \in Worker : unacked'[v] => unacked[v]
          /\ held' \in [Worker -> BOOLEAN] /\ requested' \in [Worker -> BOOLEAN]
          /\ answering' \in [Worker -> Nat] /\ conn' \in [Worker -> BOOLEAN]
          /\ caught' \in [Worker -> BOOLEAN]
      BY <1>Settle, Zenon DEF Settle, TypeInv, TypeWorker
    <3> QED
      BY <2>1, <3>1, MovesType, Zenon
  <2>3. TypeFaults'
    BY <1>Settle, FaultType, Zenon DEF Settle
  <2>4. TypeBroker' /\ TypeStore' /\ TypeLocks' /\ TypeAgent' /\ QueuesLeft'
    BY <1>Settle, Frames, Zenon DEF broker, Settle
  <2> QED
    BY <2>2, <2>3, <2>4, Zenon DEF TypeInv
<1>Requeue. ASSUME NEW w \in Worker, Requeue(w) PROVE TypeInv'
  <2>1. AtWork(w) /\ Moves(w)
    BY <1>Requeue, ProcessMoves, Zenon DEF Process
  <2>2. TypeWorker' /\ WorkersLeft'
    <3>1. /\ UNCHANGED msg
          /\ unacked' \in [Worker -> BOOLEAN]
          /\ \A v \in Worker : unacked'[v] => unacked[v]
          /\ held' \in [Worker -> BOOLEAN] /\ requested' \in [Worker -> BOOLEAN]
          /\ answering' \in [Worker -> Nat] /\ conn' \in [Worker -> BOOLEAN]
          /\ caught' \in [Worker -> BOOLEAN]
      BY <1>Requeue, Zenon DEF Requeue, TypeInv, TypeWorker
    <3> QED
      BY <2>1, <3>1, MovesType, Zenon
  <2>3. TypeFaults'
    BY <1>Requeue, FaultType, Zenon DEF Requeue
  <2>4. TypeBroker' /\ QueuesLeft'
    <3>1. /\ UNCHANGED <<delayed, dead>>
          /\ ready' = IF unacked[w] THEN Put(ready, msg[w]) ELSE ready
      BY <1>Requeue, Zenon DEF Requeue
    <3> QED
      BY <3>1, ReturnType, Zenon
  <2>5. TypeStore' /\ TypeLocks' /\ TypeAgent'
    BY <1>Requeue, Frames, Zenon DEF broker, Requeue
  <2> QED
    BY <2>2, <2>3, <2>4, <2>5, Zenon DEF TypeInv
<1>ReleaseConversationLock. ASSUME NEW w \in Worker, ReleaseConversationLock(w)
  PROVE TypeInv'
  <2>1. /\ pc[w] = "release" /\ Conv(w) \in Conversation
    BY <1>ReleaseConversationLock, Working, Zenon
       DEF ReleaseConversationLock, AtWork, Resting
  <2>2. TypeWorker' /\ WorkersLeft'
    <3>1. ~unacked[w]
      BY <2>1, Zenon DEF TypeInv, WorkersLeft
    <3>2. 0 \in 0..MaxAttempts
      BY JobWorkersAssumption
    <3> QED
      BY <3>2, <1>ReleaseConversationLock, <2>1, <3>1, ZenonT(30)
         DEF ReleaseConversationLock, Forget, Goto, TypeInv, TypeWorker,
         WorkersLeft, Retryable, Label, Resting
  <2>3. TypeLocks' /\ TypeFaults'
    BY <1>ReleaseConversationLock, <2>1, UnlockType, Zenon
       DEF ReleaseConversationLock
  <2>5. TypeBroker' /\ TypeStore' /\ TypeAgent' /\ QueuesLeft'
    BY <1>ReleaseConversationLock, Frames, Zenon
    DEF broker, ReleaseConversationLock
  <2> QED
    BY <2>2, <2>3, <2>5, Zenon DEF TypeInv
<1>Unwind. ASSUME NEW w \in Worker, Unwind(w) PROVE TypeInv'
  <2>1. AtWork(w)
    BY <1>Unwind, Working, Zenon DEF Unwind, Resting
  <2>2. Moves(w)
    BY <1>Unwind, <2>1, RetryMoves, Zenon DEF Unwind
  <2>3. TypeWorker' /\ WorkersLeft'
    <3>1. /\ UNCHANGED msg
          /\ unacked' \in [Worker -> BOOLEAN]
          /\ \A v \in Worker : unacked'[v] => unacked[v]
          /\ held' \in [Worker -> BOOLEAN] /\ requested' \in [Worker -> BOOLEAN]
          /\ answering' \in [Worker -> Nat] /\ conn' \in [Worker -> BOOLEAN]
          /\ caught' \in [Worker -> BOOLEAN]
      BY <1>Unwind, Zenon DEF Unwind, TypeInv, TypeWorker
    <3> QED
      BY <2>1, <2>2, <3>1, MovesType, Zenon
  <2>4. TypeLocks' /\ TypeFaults'
    BY <1>Unwind, <2>1, UnlockType, Zenon DEF Unwind, AtWork
  <2>5. TypeBroker' /\ TypeStore' /\ TypeAgent' /\ QueuesLeft'
    BY <1>Unwind, Frames, Zenon DEF broker, Unwind
  <2> QED
    BY <2>3, <2>4, <2>5, Zenon DEF TypeInv
<1>Publish. ASSUME NEW j \in Job, Publish(j) PROVE TypeInv'
  <2>1. /\ [id |-> j, attempt |-> 0] \in Envelope
        /\ [id |-> j, attempt |-> 0].attempt < MaxAttempts
    BY EnvelopeFacts, JobWorkersAssumption
  <2>2. TypeBroker' /\ QueuesLeft'
    <3>1. /\ ready' = Put(ready, [id |-> j, attempt |-> 0])
          /\ ready \in [Envelope -> Nat] /\ UNCHANGED <<delayed, dead>>
      BY <1>Publish, Zenon DEF Publish, TypeInv, TypeBroker
    <3>2. ready' \in [Envelope -> Nat]
      BY <2>1, <3>1, PutFacts, Zenon
    <3>3. \A m \in Envelope : ready'[m] > 0 => m.attempt < MaxAttempts
      BY <2>1, <3>1, PutFacts, ZenonT(30) DEF TypeInv, QueuesLeft
    <3> QED
      BY <3>1, <3>2, <3>3, Zenon DEF TypeInv, TypeBroker, QueuesLeft
  <2>3. TypeStore'
    BY <1>Publish, StatusType, Zenon DEF Publish, Status, TypeInv, TypeStore
  <2>4. TypeLocks' /\ TypeAgent' /\ TypeWorker' /\ TypeFaults' /\ WorkersLeft'
    BY <1>Publish, Frames, Zenon DEF broker, Publish
  <2> QED
    BY <2>2, <2>3, <2>4, Zenon DEF TypeInv
<1>Deliver. ASSUME NEW w \in Worker, NEW m \in Envelope, Deliver(w, m)
  PROVE TypeInv'
  <2>1. m.attempt \in 0..MaxAttempts /\ m.attempt < MaxAttempts
    BY <1>Deliver, EnvelopeFacts, Zenon DEF Deliver, TypeInv, QueuesLeft
  <2>2. TypeBroker' /\ QueuesLeft'
    <3>1. /\ ready' = Take(ready, m) /\ ready[m] > 0
          /\ ready \in [Envelope -> Nat] /\ UNCHANGED <<delayed, dead>>
      BY <1>Deliver, Zenon DEF Deliver, TypeInv, TypeBroker
    <3>2. ready' \in [Envelope -> Nat]
      BY <3>1, TakeFacts, Zenon
    <3>3. \A e \in Envelope : ready'[e] > 0 => e.attempt < MaxAttempts
      BY <2>1, <3>1, TakeFacts, Zenon DEF TypeInv, QueuesLeft
    <3> QED
      BY <3>1, <3>2, <3>3, ZenonT(30) DEF TypeInv, TypeBroker, QueuesLeft
  <2>3. TypeWorker' /\ WorkersLeft'
    BY <1>Deliver, <2>1, Zenon DEF Deliver, Goto, no_ack, TypeInv, TypeWorker,
       WorkersLeft, Label, Retryable, Resting
  <2>4. TypeStore' /\ TypeLocks' /\ TypeAgent' /\ TypeFaults'
    BY <1>Deliver, Frames, Zenon DEF broker, Deliver
  <2> QED
    BY <2>2, <2>3, <2>4, Zenon DEF TypeInv
<1>DelayExpires. ASSUME NEW l \in Level, NEW m \in Envelope, DelayExpires(l, m)
  PROVE TypeInv'
  <2>1. m.attempt < MaxAttempts
    BY <1>DelayExpires, Zenon DEF DelayExpires, TypeInv, QueuesLeft
  <2>2. TypeBroker' /\ QueuesLeft'
    <3>1. /\ ready \in [Envelope -> Nat]
          /\ delayed[l] \in [Envelope -> Nat] /\ delayed[l][m] > 0
          /\ ready' = Put(ready, m) /\ UNCHANGED dead
          /\ delayed' = [delayed EXCEPT ![l] = Take(delayed[l], m)]
      BY <1>DelayExpires, Zenon DEF DelayExpires, TypeInv, TypeBroker
    <3>2. ready' \in [Envelope -> Nat] /\ Take(delayed[l], m) \in [Envelope -> Nat]
      BY <3>1, PutFacts, TakeFacts, Zenon
    <3>3. \A e \in Envelope : ready'[e] > 0 => e.attempt < MaxAttempts
      BY <2>1, <3>1, PutFacts, ZenonT(30) DEF TypeInv, QueuesLeft
    <3>4. \A k \in Level, e \in Envelope :
              delayed'[k][e] > 0 => e.attempt < MaxAttempts
      <4>1. delayed \in [Level -> [Envelope -> Nat]]
        BY Zenon DEF TypeInv, TypeBroker
      <4>2. \A k \in Level, e \in Envelope :
                k # l \/ e # m => delayed'[k][e] = delayed[k][e]
        BY <3>1, <4>1, TakeFacts, SMTT(30)
      <4> QED
        BY <2>1, <4>2, Zenon DEF TypeInv, QueuesLeft
    <3> QED
      BY <3>1, <3>2, <3>3, <3>4, Zenon DEF TypeInv, TypeBroker, QueuesLeft
  <2>3. /\ TypeStore' /\ TypeLocks' /\ TypeAgent'
        /\ TypeWorker' /\ TypeFaults' /\ WorkersLeft'
    BY <1>DelayExpires, Frames, Zenon DEF broker, DelayExpires
  <2> QED
    BY <2>2, <2>3, ZenonT(30) DEF TypeInv
<1>Expire. ASSUME NEW c \in Conversation, Expire(c) PROVE TypeInv'
  <2>1. TypeLocks'
    BY <1>Expire, Zenon DEF Expire, TypeInv, TypeLocks
  <2>2. /\ TypeBroker' /\ TypeStore' /\ TypeAgent' /\ TypeWorker'
        /\ TypeFaults' /\ QueuesLeft' /\ WorkersLeft'
    BY <1>Expire, Frames, Zenon DEF broker, Expire
  <2> QED
    BY <2>1, <2>2, Zenon DEF TypeInv
<1>Disconnect. ASSUME NEW w \in Worker, Disconnect(w) PROVE TypeInv'
  <2>2. TypeBroker' /\ QueuesLeft'
    BY <1>Disconnect, ReturnType, Zenon DEF Disconnect
  <2>3. TypeWorker' /\ WorkersLeft'
    BY <1>Disconnect, Zenon DEF Disconnect, TypeInv, TypeWorker, WorkersLeft
  <2>4. TypeFaults'
    BY <1>Disconnect, CrashFaultType, Zenon DEF Disconnect
  <2>5. TypeStore' /\ TypeLocks' /\ TypeAgent'
    BY <1>Disconnect, Frames, Zenon DEF broker, Disconnect
  <2> QED
    BY <2>2, <2>3, <2>4, <2>5, Zenon DEF TypeInv
<1>Crash. ASSUME NEW w \in Worker, Crash(w) PROVE TypeInv'
  <2>2. TypeBroker' /\ QueuesLeft'
    BY <1>Crash, ReturnType, Zenon DEF Crash
  <2>3. 0 \in 0..MaxAttempts
    BY JobWorkersAssumption
  <2>4. TypeWorker' /\ WorkersLeft'
    BY <1>Crash, <2>3, Zenon DEF Crash, Forget, Goto, TypeInv, TypeWorker,
       WorkersLeft, Label, Retryable, Resting
  <2>5. TypeFaults'
    BY <1>Crash, CrashFaultType, Zenon DEF Crash
  <2>6. TypeStore' /\ TypeLocks'
    BY <1>Crash, Frames, Zenon DEF broker, Crash
  <2>7. TypeAgent'
    <3>1. pc[w] \in {"running", "booked"} => Conv(w) \in Conversation
      BY Working, Zenon DEF AtWork, Resting
    <3>2. open' \in [Conversation -> Nat]
      BY <1>Crash, <3>1, RestoreType, Zenon DEF Crash, TypeInv, TypeAgent
    <3> QED
      BY <1>Crash, <3>2, Zenon DEF Crash, TypeInv, TypeAgent
  <2> QED
    BY <2>2, <2>4, <2>5, <2>6, <2>7, Zenon DEF TypeInv
<1>Reconnect. ASSUME NEW w \in Worker, Reconnect(w) PROVE TypeInv'
  <2>1. TypeWorker' /\ WorkersLeft'
    BY <1>Reconnect, Zenon DEF Reconnect, TypeInv, TypeWorker, WorkersLeft
  <2>2. /\ TypeBroker' /\ TypeStore' /\ TypeLocks' /\ TypeAgent'
        /\ TypeFaults' /\ QueuesLeft'
    BY <1>Reconnect, Frames, Zenon DEF broker, Reconnect
  <2> QED
    BY <2>1, <2>2, Zenon DEF TypeInv
<1>Restart. ASSUME NEW w \in Worker, Restart(w) PROVE TypeInv'
  <2>1. TypeWorker' /\ WorkersLeft'
    BY <1>Restart, Zenon DEF Restart, Goto, TypeInv, TypeWorker, WorkersLeft,
       Label, Retryable, Resting
  <2>2. /\ TypeBroker' /\ TypeStore' /\ TypeLocks' /\ TypeAgent'
        /\ TypeFaults' /\ QueuesLeft'
    BY <1>Restart, Frames, Zenon DEF broker, Restart
  <2> QED
    BY <2>1, <2>2, Zenon DEF TypeInv
<1>Stutter. CASE UNCHANGED vars
  BY <1>Stutter, Frames, Zenon DEF broker, vars, TypeInv
<1> QED
  BY <1>GetJobStatus, <1>AcquireConversationLock, <1>SetProcessing,
     <1>MarkStarted, <1>StartRun, <1>NoPendingInput, <1>Pause, <1>Book,
     <1>Complete, <1>EndFailed, <1>FailRun, <1>SetMetadata, <1>MarkFinished,
     <1>SetFinal, <1>SetRetrying, <1>Delay, <1>SetFailed, <1>MarkFailed,
     <1>DeadLetter, <1>Settle, <1>Requeue, <1>ReleaseConversationLock,
     <1>Unwind, <1>Publish, <1>Deliver, <1>DelayExpires, <1>Expire,
     <1>Disconnect, <1>Crash, <1>Reconnect, <1>Restart, <1>Stutter, Zenon
  DEF Next, Step, Process

\* TypeOK holds in every reachable state, so no attempt counter of the retry
\* and dead-letter paths ever passes MaxAttempts.
THEOREM TypeCorrect == Spec => []TypeOK
<1>1. TypeInv => TypeOK
  BY Zenon DEF TypeInv, TypeOK, TypeBroker, TypeStore, TypeLocks, TypeAgent,
     TypeWorker, TypeFaults, QueuesLeft, WorkersLeft
<1> QED
  BY <1>1, InitTypeInv, NextTypeInv, PTL DEF Spec

-----------------------------------------------------------------------------
(* No published job is lost silently, whatever crashes, connections lost    *)
(* and calls failed.                                                        *)

\* A copy of the job in the main queue or in a delay queue.
Queued(j) ==
    \E m \in Envelope :
        m.id = j /\ (ready[m] > 0 \/ \E l \in Level : delayed[l][m] > 0)

\* The job does not depend on the delivery of a worker.
Safe(j) == \/ reached[j] \/ Buried(j) \/ Queued(j)
           \/ storeFaults > 0 /\ brokerFaults > 0

\* The job rests on the delivery of w, which is not about to be settled.
Carries(w, j) == unacked[w] /\ JobOf(w) = j /\ pc[w] \notin {"ack", "drop"}

\* Labels of _dead_letter() behind its status write.
AfterFailed == {"mark_failed", "dead_letter", "drop"}

\* NoSilentLoss, strengthened: when a delivery is settled the job is already
\* safe, because a final status was read, a copy was published, or failed was
\* stored.
LossInv ==
    /\ \A j \in Job : Published(j) =>
           Safe(j) \/ \E w \in Worker : Carries(w, j)
    /\ \A j \in Job : isTerminal(status[j]) => reached[j]
    /\ \A w \in Worker :
           /\ unacked[w] => conn[w]
           /\ pc[w] \in AfterFailed => reached[JobOf(w)] \/ storeFaults > 0

\* What a step of _process() never takes away.
Keeps ==
    /\ \A j \in Job : reached[j] => reached'[j]
    /\ \A m \in Envelope :
           /\ ready[m] > 0 => ready'[m] > 0
           /\ dead[m] > 0 => dead'[m] > 0
           /\ \A l \in Level : delayed[l][m] > 0 => delayed'[l][m] > 0
    /\ storeFaults > 0 => storeFaults' > 0
    /\ brokerFaults > 0 => brokerFaults' > 0

\* A job that is safe stays so.
LEMMA SafeKept ==
    ASSUME Keeps, NEW j \in Job, Safe(j)
    PROVE  Safe(j)'
BY Zenon DEF Keeps, Safe, Queued, Buried

\* Status writes only add to the final statuses ever stored.
LEMMA StatusKept ==
    ASSUME TypeInv, NEW i \in Job, NEW s \in Status,
           SetJobStatus(i, s) \/ UNCHANGED states
    PROVE  /\ \A j \in Job : reached[j] => reached'[j]
           /\ (\A j \in Job : isTerminal(status[j]) => reached[j])
              => \A j \in Job : isTerminal(status'[j]) => reached'[j]
           /\ SetJobStatus(i, s) /\ isTerminal(s) => reached'[i]
BY Zenon DEF SetJobStatus, states, TypeInv, TypeStore

\* A failed call is counted.
LEMMA FaultKept ==
    ASSUME TypeInv
    PROVE  /\ StoreFault => storeFaults' > 0
           /\ BrokerFault => brokerFaults' > 0
BY JobWorkersAssumption DEF StoreFault, BrokerFault, TypeInv, TypeFaults

\* A publish keeps the copies there are.
LEMMA PutKept ==
    ASSUME NEW q \in [Envelope -> Nat], NEW m \in Envelope
    PROVE  \A e \in Envelope : q[e] > 0 => Put(q, m)[e] > 0
BY PutFacts, Zenon

\* The part of LossInv about jobs, for a step of one worker that keeps the
\* safe jobs safe and its own job either safe or with it.
LEMMA LossStep ==
    ASSUME LossInv, NEW w \in Worker,
           \A j \in Job : Safe(j) => Safe(j)',
           \A j \in Job : Published(j)' => Published(j),
           \A v \in Worker : v # w =>
               /\ unacked'[v] = unacked[v] /\ msg'[v] = msg[v]
               /\ pc'[v] = pc[v],
           \A j \in Job : Carries(w, j) => Carries(w, j)' \/ Safe(j)'
    PROVE  (\A j \in Job : Published(j) =>
               Safe(j) \/ \E v \in Worker : Carries(v, j))'
<1>1. ASSUME NEW j \in Job, NEW v \in Worker, Carries(v, j)
      PROVE  Safe(j)' \/ Carries(v, j)'
  <2>1. CASE v = w
    BY <1>1, <2>1, Zenon
  <2>2. CASE v # w
    BY <1>1, <2>2, Zenon DEF Carries, JobOf
  <2> QED
    BY <2>1, <2>2, Zenon
<1> QED
  BY <1>1, Zenon DEF LossInv

\* The rest of LossInv for a step of _process() that touches no status.
LEMMA LossRest ==
    ASSUME TypeInv, LossInv, NEW w \in Worker, Moves(w), UNCHANGED <<msg, conn>>,
           Keeps,
           \A v \in Worker : unacked'[v] => unacked[v],
           \A j \in Job : isTerminal(status'[j]) => reached'[j],
           pc'[w] \in AfterFailed => reached'[JobOf(w)] \/ storeFaults' > 0,
           AtWork(w)
    PROVE  /\ (\A j \in Job : isTerminal(status[j]) => reached[j])'
           /\ (\A v \in Worker :
                 /\ unacked[v] => conn[v]
                 /\ pc[v] \in AfterFailed =>
                       reached[JobOf(v)] \/ storeFaults > 0)'
<1>1. ASSUME NEW v \in Worker, pc'[v] \in AfterFailed
      PROVE  reached'[JobOf(v)] \/ storeFaults' > 0
  <2>1. CASE v = w
    BY <1>1, <2>1, Zenon
  <2>2. CASE v # w
    <3>1. pc'[v] = pc[v]
      BY <2>2, Zenon DEF Moves, TypeInv, TypeWorker
    <3>2. JobOf(v) \in Job
      BY <1>1, <3>1, Working, Zenon DEF Resting, AfterFailed, AtWork
    <3>3. reached[JobOf(v)] \/ storeFaults > 0
      BY <1>1, <3>1, Zenon DEF LossInv
    <3> QED
      BY <3>2, <3>3, Zenon DEF Keeps
  <2> QED
    BY <2>1, <2>2, Zenon
<1>2. \A v \in Worker : unacked'[v] => conn'[v]
  BY Zenon DEF LossInv
<1> QED
  BY <1>1, <1>2, Zenon DEF JobOf

\* Both parts for the calls that keep the delivery and do not end the job.
LEMMA LossMoves ==
    ASSUME TypeInv, LossInv, NEW w \in Worker, Process(w) \/ Unwind(w), Keeps,
           UNCHANGED <<msg, conn, unacked>>,
           \A j \in Job : Published(j)' => Published(j),
           \A j \in Job : isTerminal(status'[j]) => reached'[j],
           pc[w] \notin {"ack", "drop"},
           pc'[w] \in {"ack", "drop"} => Safe(JobOf(w))',
           pc'[w] \in AfterFailed => reached'[JobOf(w)] \/ storeFaults' > 0
    PROVE  LossInv'
<1>1. AtWork(w) /\ Moves(w)
  <2>1. Unwind(w) => AtWork(w) /\ Moves(w)
    BY Working, RetryMoves, Zenon DEF Unwind, Resting
  <2> QED
    BY <2>1, ProcessMoves, Zenon
<1>2. \A v \in Worker : v # w => pc'[v] = pc[v]
  BY <1>1, Zenon DEF Moves, TypeInv, TypeWorker
<1>3. \A j \in Job : Carries(w, j) => Carries(w, j)' \/ Safe(j)'
  BY Zenon DEF Carries, JobOf
<1>4. \A j \in Job : Safe(j) => Safe(j)'
  BY SafeKept, Zenon
<1>5. (\A j \in Job : Published(j) =>
          Safe(j) \/ \E v \in Worker : Carries(v, j))'
  BY <1>2, <1>3, <1>4, LossStep, Zenon
<1> QED
  BY <1>1, <1>5, LossRest, Zenon DEF LossInv

\* Calls that touch neither the queues nor the status and lead to no label
\* of _dead_letter() or of the ack.
LEMMA LossQuiet ==
    ASSUME TypeInv, LossInv, NEW w \in Worker, Process(w) \/ Unwind(w),
           UNCHANGED <<msg, conn, unacked, brokerFaults>>,
           UNCHANGED broker, UNCHANGED states,
           storeFaults > 0 => storeFaults' > 0,
           \A j \in Job : Published(j)' => Published(j),
           pc[w] \notin {"ack", "drop"},
           pc'[w] \notin {"ack", "drop"} \union AfterFailed
    PROVE  LossInv'
<1>1. Keeps
  BY Zenon DEF Keeps, broker, states
<1>2. \A j \in Job : isTerminal(status'[j]) => reached'[j]
  BY Zenon DEF states, LossInv
<1> QED
  BY <1>1, <1>2, LossMoves, Zenon

\* _retry() leads to its status writes.
LEMMA RetryLabel ==
    ASSUME TypeInv, NEW w \in Worker, retry(w)
    PROVE  pc'[w] \in {"set_failed", "set_retrying"}
BY Zenon DEF retry, RetryTarget, Goto, TypeInv, TypeWorker

\* A transition leads where it says.
LEMMA GotoLabel ==
    ASSUME TypeInv, NEW w \in Worker, NEW l, Goto(w, l)
    PROVE  pc'[w] = l
BY Zenon DEF Goto, TypeInv, TypeWorker

\* Counting a failed call.
LEMMA StoreFaultKept ==
    ASSUME TypeInv, UNCHANGED storeFaults \/ StoreFault
    PROVE  storeFaults > 0 => storeFaults' > 0
BY FaultKept, Zenon

\* An unacknowledged delivery that the broker takes back is queued again.
LEMMA Returned ==
    ASSUME TypeInv, NEW w \in Worker,
           UNCHANGED <<storeFaults, brokerFaults, delayed, dead>>,
           UNCHANGED states,
           ready' = IF unacked[w] THEN Put(ready, msg[w]) ELSE ready
    PROVE  /\ Keeps
           /\ \A j \in Job : Carries(w, j) => Safe(j)'
<1>1. unacked[w] => msg[w] \in Envelope
  BY Zenon DEF TypeInv, WorkersLeft
<1>2. ready \in [Envelope -> Nat]
  BY Zenon DEF TypeInv, TypeBroker
<1>3. Keeps
  BY <1>1, <1>2, PutKept, Zenon DEF Keeps, states
<1>4. ASSUME NEW j \in Job, Carries(w, j) PROVE Safe(j)'
  <2>1. unacked[w] /\ msg[w] \in Envelope /\ msg[w].id = j
    BY <1>1, <1>4, Zenon DEF Carries, JobOf
  <2>2. ready'[msg[w]] > 0
    BY <1>2, <2>1, PutFacts, Zenon
  <2>3. Queued(j)'
    BY <2>1, <2>2, ZenonT(30) DEF Queued
  <2> QED
    BY <2>3, Zenon DEF Safe
<1> QED
  BY <1>3, <1>4, Zenon

\* A worker's delivery or connection goes away, its job being queued again.
LEMMA LossGone ==
    ASSUME TypeInv, LossInv, NEW w \in Worker, Keeps, UNCHANGED timing,
           UNCHANGED states, UNCHANGED storeFaults,
           \A j \in Job : Carries(w, j) => Safe(j)',
           unacked' = [unacked EXCEPT ![w] = FALSE],
           conn' = [conn EXCEPT ![w] = FALSE],
           pc'[w] = "down" \/ (pc'[w] = pc[w] /\ msg'[w] = msg[w]),
           \A v \in Worker : v # w => pc'[v] = pc[v] /\ msg'[v] = msg[v]
    PROVE  LossInv'
<1>1. \A v \in Worker : v # w => unacked'[v] = unacked[v]
  BY Zenon DEF TypeInv, TypeWorker
<1>2. \A j \in Job : Safe(j) => Safe(j)'
  BY SafeKept, Zenon
<1>3. \A j \in Job : Published(j)' => Published(j)
  BY Zenon DEF Published
<1>4. (\A j \in Job : Published(j) =>
          Safe(j) \/ \E v \in Worker : Carries(v, j))'
  BY <1>1, <1>2, <1>3, LossStep, Zenon
<1>5. \A v \in Worker : unacked'[v] => conn'[v]
  BY Zenon DEF LossInv, TypeInv, TypeWorker
<1>6. ASSUME NEW v \in Worker, pc'[v] \in AfterFailed
      PROVE  (reached[JobOf(v)] \/ storeFaults > 0)'
  <2>1. pc'[v] = pc[v] /\ msg'[v] = msg[v]
    BY <1>6, Zenon DEF AfterFailed
  <2> QED
    BY <1>6, <2>1, Zenon DEF LossInv, JobOf, states
<1>7. \A j \in Job : isTerminal(status'[j]) => reached'[j]
  BY Zenon DEF states, LossInv
<1> QED
  BY <1>4, <1>5, <1>6, <1>7, Zenon DEF LossInv

\* A worker becomes idle after its ack.
LEMMA LossIdle ==
    ASSUME TypeInv, LossInv, NEW w \in Worker, Keeps, UNCHANGED timing,
           UNCHANGED states, UNCHANGED <<conn, unacked>>, ~unacked[w],
           pc' = [pc EXCEPT ![w] = "idle"], msg' = [msg EXCEPT ![w] = None]
    PROVE  LossInv'
<1>1. /\ pc'[w] = "idle"
      /\ \A v \in Worker : v # w => pc'[v] = pc[v] /\ msg'[v] = msg[v]
  BY Zenon DEF TypeInv, TypeWorker
<1>2. \A j \in Job : Safe(j) => Safe(j)'
  BY SafeKept, Zenon
<1>3. \A j \in Job : Published(j)' => Published(j)
  BY Zenon DEF Published
<1>4. \A j \in Job : ~Carries(w, j)
  BY Zenon DEF Carries
<1>5. (\A j \in Job : Published(j) =>
          Safe(j) \/ \E v \in Worker : Carries(v, j))'
  BY <1>1, <1>2, <1>3, <1>4, LossStep, Zenon
<1>6. ASSUME NEW v \in Worker, pc'[v] \in AfterFailed
      PROVE  (reached[JobOf(v)] \/ storeFaults > 0)'
  <2>1. pc'[v] = pc[v] /\ msg'[v] = msg[v]
    BY <1>1, <1>6, Zenon DEF AfterFailed
  <2> QED
    BY <1>6, <2>1, Zenon DEF LossInv, JobOf, states, Keeps
<1>7. \A j \in Job : isTerminal(status'[j]) => reached'[j]
  BY Zenon DEF states, LossInv
<1>8. \A v \in Worker : unacked'[v] => conn'[v]
  BY Zenon DEF LossInv
<1> QED
  BY <1>5, <1>6, <1>7, <1>8, Zenon DEF LossInv

\* Steps of the environment that leave the workers alone.
LEMMA SafeStays ==
    ASSUME UNCHANGED broker, UNCHANGED states,
           UNCHANGED <<storeFaults, brokerFaults>>
    PROVE  \A j \in Job : Safe(j) => Safe(j)'
BY Zenon DEF Safe, Queued, Buried, broker, states

\* They keep LossInv if they keep the safe jobs safe.
LEMMA LossFrame ==
    ASSUME LossInv, UNCHANGED <<storeFaults, unacked, msg>>,
           UNCHANGED timing, UNCHANGED states,
           \A v \in Worker : pc'[v] = pc[v] \/ (pc[v] = "down" /\ pc'[v] = "idle"),
           \A v \in Worker : conn[v] => conn'[v],
           \A j \in Job : Safe(j) => Safe(j)'
    PROVE  LossInv'
<1>1. (\A j \in Job : Published(j) =>
          Safe(j) \/ \E v \in Worker : Carries(v, j))'
  <2>1. \A v \in Worker, j \in Job : Carries(v, j) => Carries(v, j)'
    BY Zenon DEF Carries, JobOf
  <2>2. \A j \in Job : Published(j)' => Published(j)
    BY Zenon DEF Published
  <2> QED
    BY <2>1, <2>2, Zenon DEF LossInv
<1>2. (\A j \in Job : isTerminal(status[j]) => reached[j])'
  BY Zenon DEF LossInv, states
<1>3. (\A w \in Worker :
          /\ unacked[w] => conn[w]
          /\ pc[w] \in AfterFailed => reached[JobOf(w)] \/ storeFaults > 0)'
  BY Zenon DEF LossInv, states, JobOf, AfterFailed
<1> QED
  BY <1>1, <1>2, <1>3, Zenon DEF LossInv

\* Every step preserves LossInv.
LEMMA NextLossInv ==
    ASSUME TypeInv, LossInv, [Next]_vars
    PROVE  LossInv'
<1> USE DEF AfterFailed
<1>final. \A j \in Job : isTerminal(status[j]) => reached[j]
  BY ZenonT(30) DEF LossInv
<1>conn. \A w \in Worker : unacked[w] => conn[w]
  BY Zenon DEF LossInv
<1>failed. \A w \in Worker : pc[w] \in AfterFailed =>
              reached[JobOf(w)] \/ storeFaults > 0
  BY Zenon DEF LossInv
<1>AcquireConversationLock. ASSUME NEW w \in Worker, AcquireConversationLock(w) PROVE LossInv'
  <2>1. pc'[w] \notin {"ack", "drop"} \union AfterFailed
    BY <1>AcquireConversationLock, RetryLabel, GotoLabel, Zenon
       DEF AcquireConversationLock
  <2>2. \A j \in Job : Published(j)' => Published(j)
    BY <1>AcquireConversationLock, Zenon DEF AcquireConversationLock, hashes,
       Published
  <2>3. UNCHANGED storeFaults \/ StoreFault
    BY <1>AcquireConversationLock, Zenon DEF AcquireConversationLock
  <2>4. /\ UNCHANGED <<msg, conn, unacked, brokerFaults>>
        /\ UNCHANGED broker /\ UNCHANGED states
        /\ pc[w] \notin {"ack", "drop"}
    BY <1>AcquireConversationLock, Zenon DEF AcquireConversationLock, locals
  <2> QED
    BY <1>AcquireConversationLock, <2>1, <2>2, <2>3, <2>4, StoreFaultKept,
       LossQuiet, Zenon DEF Process
<1>StartRun. ASSUME NEW w \in Worker, StartRun(w) PROVE LossInv'
  <2>1. pc'[w] \notin {"ack", "drop"} \union AfterFailed
    BY <1>StartRun, RetryLabel, GotoLabel, Zenon DEF StartRun
  <2>2. \A j \in Job : Published(j)' => Published(j)
    BY <1>StartRun, Zenon DEF StartRun, hashes, Published
  <2>3. UNCHANGED storeFaults \/ StoreFault
    BY <1>StartRun, Zenon DEF StartRun
  <2>4. /\ UNCHANGED <<msg, conn, unacked, brokerFaults>>
        /\ UNCHANGED broker /\ UNCHANGED states
        /\ pc[w] \notin {"ack", "drop"}
    BY <1>StartRun, Zenon DEF StartRun, locals
  <2> QED
    BY <1>StartRun, <2>1, <2>2, <2>3, <2>4, StoreFaultKept, LossQuiet, Zenon
       DEF Process
<1>NoPendingInput. ASSUME NEW w \in Worker, NoPendingInput(w) PROVE LossInv'
  <2>1. pc'[w] \notin {"ack", "drop"} \union AfterFailed
    BY <1>NoPendingInput, RetryLabel, GotoLabel, ZenonT(30) DEF NoPendingInput
  <2>2. \A j \in Job : Published(j)' => Published(j)
    BY <1>NoPendingInput, Zenon DEF NoPendingInput, hashes, Published
  <2>3. UNCHANGED storeFaults \/ StoreFault
    BY <1>NoPendingInput, Zenon DEF NoPendingInput
  <2>4. /\ UNCHANGED <<msg, conn, unacked, brokerFaults>>
        /\ UNCHANGED broker /\ UNCHANGED states
        /\ pc[w] \notin {"ack", "drop"}
    BY <1>NoPendingInput, Zenon DEF NoPendingInput, locals
  <2> QED
    BY <1>NoPendingInput, <2>1, <2>2, <2>3, <2>4, StoreFaultKept, LossQuiet,
       Zenon DEF Process
<1>EndFailed. ASSUME NEW w \in Worker, EndFailed(w) PROVE LossInv'
  <2>1. pc'[w] \notin {"ack", "drop"} \union AfterFailed
    BY <1>EndFailed, RetryLabel, GotoLabel, Zenon DEF EndFailed
  <2>2. \A j \in Job : Published(j)' => Published(j)
    BY <1>EndFailed, Zenon DEF EndFailed, hashes, Published
  <2>3. UNCHANGED storeFaults \/ StoreFault
    BY <1>EndFailed, Zenon DEF EndFailed
  <2>4. /\ UNCHANGED <<msg, conn, unacked, brokerFaults>>
        /\ UNCHANGED broker /\ UNCHANGED states
        /\ pc[w] \notin {"ack", "drop"}
    BY <1>EndFailed, Zenon DEF EndFailed, locals
  <2> QED
    BY <1>EndFailed, <2>1, <2>2, <2>3, <2>4, StoreFaultKept, LossQuiet, Zenon
       DEF Process
<1>Pause. ASSUME NEW w \in Worker, Pause(w) PROVE LossInv'
  <2>1. pc'[w] \notin {"ack", "drop"} \union AfterFailed
    BY <1>Pause, RetryLabel, GotoLabel, Zenon DEF Pause
  <2>2. \A j \in Job : Published(j)' => Published(j)
    BY <1>Pause, Zenon DEF Pause, hashes, Published
  <2>3. UNCHANGED storeFaults \/ StoreFault
    BY <1>Pause, Zenon DEF Pause
  <2>4. /\ UNCHANGED <<msg, conn, unacked, brokerFaults>>
        /\ UNCHANGED broker /\ UNCHANGED states
        /\ pc[w] \notin {"ack", "drop"}
    BY <1>Pause, Zenon DEF Pause, locals
  <2> QED
    BY <1>Pause, <2>1, <2>2, <2>3, <2>4, StoreFaultKept, LossQuiet, Zenon
       DEF Process
<1>Book. ASSUME NEW w \in Worker, Book(w) PROVE LossInv'
  <2>1. pc'[w] \notin {"ack", "drop"} \union AfterFailed
    BY <1>Book, RetryLabel, GotoLabel, Zenon DEF Book
  <2>2. \A j \in Job : Published(j)' => Published(j)
    BY <1>Book, Zenon DEF Book, hashes, Published
  <2>3. UNCHANGED storeFaults \/ StoreFault
    BY <1>Book, Zenon DEF Book
  <2>4. /\ UNCHANGED <<msg, conn, unacked, brokerFaults>>
        /\ UNCHANGED broker /\ UNCHANGED states
        /\ pc[w] \notin {"ack", "drop"}
    BY <1>Book, Zenon DEF Book, locals
  <2> QED
    BY <1>Book, <2>1, <2>2, <2>3, <2>4, StoreFaultKept, LossQuiet, Zenon
       DEF Process
<1>Complete. ASSUME NEW w \in Worker, Complete(w) PROVE LossInv'
  <2>1. pc'[w] \notin {"ack", "drop"} \union AfterFailed
    BY <1>Complete, RetryLabel, GotoLabel, Zenon DEF Complete
  <2>2. \A j \in Job : Published(j)' => Published(j)
    BY <1>Complete, Zenon DEF Complete, hashes, Published
  <2>3. UNCHANGED storeFaults \/ StoreFault
    BY <1>Complete, Zenon DEF Complete
  <2>4. /\ UNCHANGED <<msg, conn, unacked, brokerFaults>>
        /\ UNCHANGED broker /\ UNCHANGED states
        /\ pc[w] \notin {"ack", "drop"}
    BY <1>Complete, Zenon DEF Complete, locals
  <2> QED
    BY <1>Complete, <2>1, <2>2, <2>3, <2>4, StoreFaultKept, LossQuiet, Zenon
       DEF Process
<1>FailRun. ASSUME NEW w \in Worker, FailRun(w) PROVE LossInv'
  <2>1. pc'[w] \notin {"ack", "drop"} \union AfterFailed
    BY <1>FailRun, RetryLabel, GotoLabel, Zenon DEF FailRun
  <2>2. \A j \in Job : Published(j)' => Published(j)
    BY <1>FailRun, Zenon DEF FailRun, hashes, Published
  <2>3. UNCHANGED storeFaults \/ StoreFault
    BY <1>FailRun, Zenon DEF FailRun
  <2>4. /\ UNCHANGED <<msg, conn, unacked, brokerFaults>>
        /\ UNCHANGED broker /\ UNCHANGED states
        /\ pc[w] \notin {"ack", "drop"}
    BY <1>FailRun, Zenon DEF FailRun, locals
  <2> QED
    BY <1>FailRun, <2>1, <2>2, <2>3, <2>4, StoreFaultKept, LossQuiet, Zenon
       DEF Process
<1>MarkStarted. ASSUME NEW w \in Worker, MarkStarted(w) PROVE LossInv'
  <2>1. pc'[w] \notin {"ack", "drop"} \union AfterFailed
    BY <1>MarkStarted, RetryLabel, GotoLabel, Zenon DEF MarkStarted
  <2>2. \A j \in Job : Published(j)' => Published(j)
    <3>1. \/ UNCHANGED timing
          \/ timing' = [timing EXCEPT ![JobOf(w)] = @ \union {"started"}]
      BY <1>MarkStarted, Zenon DEF MarkStarted
    <3> QED
      BY <3>1 DEF Published, TypeInv, TypeStore
  <2>3. UNCHANGED storeFaults \/ StoreFault
    BY <1>MarkStarted, Zenon DEF MarkStarted
  <2>4. /\ UNCHANGED <<msg, conn, unacked, brokerFaults>>
        /\ UNCHANGED broker /\ UNCHANGED states
        /\ pc[w] \notin {"ack", "drop"}
    BY <1>MarkStarted, Zenon DEF MarkStarted, locals
  <2> QED
    BY <1>MarkStarted, <2>1, <2>2, <2>3, <2>4, StoreFaultKept, LossQuiet, Zenon
       DEF Process
<1>SetMetadata. ASSUME NEW w \in Worker, SetMetadata(w) PROVE LossInv'
  <2>1. pc'[w] \notin {"ack", "drop"} \union AfterFailed
    BY <1>SetMetadata, RetryLabel, GotoLabel, Zenon DEF SetMetadata
  <2>2. \A j \in Job : Published(j)' => Published(j)
    BY <1>SetMetadata, Working, Zenon
    DEF Resting, SetMetadata, AtWork, Published, TypeInv, TypeStore
  <2>3. UNCHANGED storeFaults \/ StoreFault
    BY <1>SetMetadata, Zenon DEF SetMetadata
  <2>4. /\ UNCHANGED <<msg, conn, unacked, brokerFaults>>
        /\ UNCHANGED broker /\ UNCHANGED states
        /\ pc[w] \notin {"ack", "drop"}
    BY <1>SetMetadata, Zenon DEF SetMetadata, locals
  <2> QED
    BY <1>SetMetadata, <2>1, <2>2, <2>3, <2>4, StoreFaultKept, LossQuiet, Zenon
       DEF Process
<1>MarkFinished. ASSUME NEW w \in Worker, MarkFinished(w) PROVE LossInv'
  <2>1. pc'[w] \notin {"ack", "drop"} \union AfterFailed
    BY <1>MarkFinished, RetryLabel, GotoLabel, ZenonT(30) DEF MarkFinished
  <2>2. \A j \in Job : Published(j)' => Published(j)
    BY <1>MarkFinished, Working
    DEF Resting, MarkFinished, AtWork, Finished, Published, TypeInv, TypeStore
  <2>3. UNCHANGED storeFaults \/ StoreFault
    BY <1>MarkFinished, Zenon DEF MarkFinished
  <2>4. /\ UNCHANGED <<msg, conn, unacked, brokerFaults>>
        /\ UNCHANGED broker /\ UNCHANGED states
        /\ pc[w] \notin {"ack", "drop"}
    BY <1>MarkFinished, Zenon DEF MarkFinished, locals
  <2> QED
    BY <1>MarkFinished, <2>1, <2>2, <2>3, <2>4, StoreFaultKept, LossQuiet,
       Zenon DEF Process
<1>GetJobStatus. ASSUME NEW w \in Worker, GetJobStatus(w) PROVE LossInv'
  <2>1. /\ UNCHANGED <<msg, conn, unacked, brokerFaults>>
        /\ UNCHANGED broker /\ UNCHANGED states /\ UNCHANGED timing
        /\ pc[w] \notin {"ack", "drop"}
        /\ UNCHANGED storeFaults \/ StoreFault
    BY <1>GetJobStatus, Zenon DEF GetJobStatus, locals, hashes
  <2>2. AtWork(w)
    BY <1>GetJobStatus, Working, Zenon DEF Resting, GetJobStatus
  <2>3. Keeps
    BY <2>1, StoreFaultKept, Zenon DEF Keeps, broker, states
  <2>4. \A j \in Job : isTerminal(status'[j]) => reached'[j]
    BY <2>1, <1>final, ZenonT(30) DEF states
  <2>5. /\ pc'[w] \notin AfterFailed \union {"drop"}
        /\ pc'[w] = "ack" => isTerminal(status[JobOf(w)])
    BY <1>GetJobStatus, RetryLabel, GotoLabel, Zenon
    DEF GetJobStatus, StatusTarget
  <2>6. pc'[w] \in {"ack", "drop"} => Safe(JobOf(w))'
    <3>1. pc'[w] \in {"ack", "drop"} => reached[JobOf(w)]
      BY <2>2, <2>5, Zenon DEF LossInv, AtWork
    <3>2. pc'[w] \in {"ack", "drop"} => reached'[JobOf(w)']
      BY <2>1, <3>1, Zenon DEF states, JobOf
    <3> QED
      BY <3>2, ZenonT(30) DEF Safe
  <2>7. \A j \in Job : Published(j)' => Published(j)
    BY <2>1, Zenon DEF Published
  <2> QED
    BY <1>GetJobStatus, <2>1, <2>3, <2>4, <2>5, <2>6, <2>7, LossMoves, Zenon
       DEF Process
<1>SetProcessing. ASSUME NEW w \in Worker, SetProcessing(w) PROVE LossInv'
  <2>1. /\ UNCHANGED <<msg, conn, unacked, brokerFaults>>
        /\ UNCHANGED broker /\ UNCHANGED timing
        /\ pc[w] \notin {"ack", "drop"}
        /\ UNCHANGED storeFaults \/ StoreFault
        /\ SetJobStatus(JobOf(w), "processing") \/ UNCHANGED states
    BY <1>SetProcessing, Zenon DEF SetProcessing, FailJobStatus, locals, hashes
  <2>2. JobOf(w) \in Job /\ "processing" \in Status
    BY <1>SetProcessing, Working, Zenon
    DEF Resting, SetProcessing, AtWork, Status
  <2>3. /\ \A j \in Job : reached[j] => reached'[j]
        /\ \A j \in Job : isTerminal(status'[j]) => reached'[j]
        /\ SetJobStatus(JobOf(w), "processing") /\ isTerminal("processing")
              => reached'[JobOf(w)]
    BY <1>final, <2>1, <2>2, StatusKept, Zenon
  <2>4. Keeps
    BY <2>1, <2>3, StoreFaultKept, ZenonT(30) DEF Keeps, broker
  <2>5. pc'[w] \notin {"ack", "drop"} \union AfterFailed
    BY <1>SetProcessing, RetryLabel, GotoLabel, Zenon DEF SetProcessing
  <2>6. pc'[w] \in {"ack", "drop"} => Safe(JobOf(w))'
    BY <2>5, Zenon
  <2>7. \A j \in Job : Published(j)' => Published(j)
    BY <2>1, Zenon DEF Published
  <2> QED
    BY <1>SetProcessing, <2>1, <2>3, <2>4, <2>5, <2>6, <2>7, LossMoves, Zenon
       DEF Process
<1>SetRetrying. ASSUME NEW w \in Worker, SetRetrying(w) PROVE LossInv'
  <2>1. /\ UNCHANGED <<msg, conn, unacked, brokerFaults>>
        /\ UNCHANGED broker /\ UNCHANGED timing
        /\ pc[w] \notin {"ack", "drop"}
        /\ UNCHANGED storeFaults \/ StoreFault
        /\ SetJobStatus(JobOf(w), "retrying") \/ UNCHANGED states
    BY <1>SetRetrying, Zenon DEF SetRetrying, FailJobStatus, locals, hashes
  <2>2. JobOf(w) \in Job /\ "retrying" \in Status
    BY <1>SetRetrying, Working, Zenon DEF Resting, SetRetrying, AtWork, Status
  <2>3. /\ \A j \in Job : reached[j] => reached'[j]
        /\ \A j \in Job : isTerminal(status'[j]) => reached'[j]
        /\ SetJobStatus(JobOf(w), "retrying") /\ isTerminal("retrying")
              => reached'[JobOf(w)]
    BY <1>final, <2>1, <2>2, StatusKept, ZenonT(30)
  <2>4. Keeps
    BY <2>1, <2>3, StoreFaultKept, Zenon DEF Keeps, broker
  <2>5. pc'[w] \notin {"ack", "drop"} \union AfterFailed
    BY <1>SetRetrying, RetryLabel, GotoLabel, Zenon DEF SetRetrying
  <2>6. pc'[w] \in {"ack", "drop"} => Safe(JobOf(w))'
    BY <2>5, Zenon
  <2>7. \A j \in Job : Published(j)' => Published(j)
    BY <2>1, Zenon DEF Published
  <2> QED
    BY <1>SetRetrying, <2>1, <2>3, <2>4, <2>5, <2>6, <2>7, LossMoves, Zenon
       DEF Process
<1>SetFinal. ASSUME NEW w \in Worker, SetFinal(w) PROVE LossInv'
  <2>1. /\ UNCHANGED <<msg, conn, unacked, brokerFaults>>
        /\ UNCHANGED broker /\ UNCHANGED timing
        /\ pc[w] \notin {"ack", "drop"}
        /\ UNCHANGED storeFaults \/ StoreFault
        /\ SetJobStatus(JobOf(w), FinalStatus(w)) \/ UNCHANGED states
    BY <1>SetFinal, Zenon DEF SetFinal, FailJobStatus, locals, hashes
  <2>2. JobOf(w) \in Job /\ FinalStatus(w) \in Status
    BY <1>SetFinal, Working, Zenon
    DEF Resting, SetFinal, AtWork, Status, FinalStatus
  <2>3. /\ \A j \in Job : reached[j] => reached'[j]
        /\ \A j \in Job : isTerminal(status'[j]) => reached'[j]
        /\ SetJobStatus(JobOf(w), FinalStatus(w)) /\ isTerminal(FinalStatus(w))
              => reached'[JobOf(w)]
    BY <1>final, <2>1, <2>2, StatusKept, Zenon
  <2>4. Keeps
    BY <2>1, <2>3, StoreFaultKept, ZenonT(30) DEF Keeps, broker
  <2>5. /\ pc'[w] \notin AfterFailed \union {"drop"}
        /\ pc'[w] = "ack" => SetJobStatus(JobOf(w), FinalStatus(w))
    BY <1>SetFinal, RetryLabel, GotoLabel, Zenon DEF SetFinal
  <2>6. pc'[w] \in {"ack", "drop"} => Safe(JobOf(w))'
    <3>1. isTerminal(FinalStatus(w))
      BY ZenonT(30) DEF isTerminal, FinalStatus
    <3>2. pc'[w] \in {"ack", "drop"} => reached'[JobOf(w)']
      BY <2>1, <2>3, <2>5, <3>1, Zenon DEF JobOf
    <3> QED
      BY <3>2, Zenon DEF Safe
  <2>7. \A j \in Job : Published(j)' => Published(j)
    BY <2>1, Zenon DEF Published
  <2> QED
    BY <1>SetFinal, <2>1, <2>3, <2>4, <2>5, <2>6, <2>7, LossMoves, Zenon
       DEF Process
<1>SetFailed. ASSUME NEW w \in Worker, SetFailed(w) PROVE LossInv'
  <2>1. /\ UNCHANGED <<msg, conn, unacked, brokerFaults>>
        /\ UNCHANGED broker /\ UNCHANGED timing
        /\ pc[w] \notin {"ack", "drop"}
        /\ UNCHANGED storeFaults \/ StoreFault
        /\ SetJobStatus(JobOf(w), "failed") \/ UNCHANGED states
    BY <1>SetFailed, Zenon DEF SetFailed, FailJobStatus, locals, hashes
  <2>2. JobOf(w) \in Job /\ "failed" \in Status
    BY <1>SetFailed, Working, Zenon DEF Resting, SetFailed, AtWork, Status
  <2>3. /\ \A j \in Job : reached[j] => reached'[j]
        /\ \A j \in Job : isTerminal(status'[j]) => reached'[j]
        /\ SetJobStatus(JobOf(w), "failed") /\ isTerminal("failed")
              => reached'[JobOf(w)]
    BY <1>final, <2>1, <2>2, StatusKept, Zenon
  <2>4. Keeps
    BY <2>1, <2>3, StoreFaultKept, ZenonT(30) DEF Keeps, broker
  <2>5. /\ pc'[w] \in {"mark_failed", "dead_letter"}
        /\ reached'[JobOf(w)] \/ storeFaults' > 0
    <3>1. SetJobStatus(JobOf(w), "failed") \/ StoreFault
      BY <1>SetFailed, Zenon DEF SetFailed, FailJobStatus
    <3>2. isTerminal("failed")
      BY Zenon DEF isTerminal
    <3>3. pc'[w] \in {"mark_failed", "dead_letter"}
      BY <1>SetFailed, GotoLabel, Zenon DEF SetFailed
    <3> QED
      BY <2>3, <3>1, <3>2, <3>3, FaultKept, Zenon
  <2>6. pc'[w] \in {"ack", "drop"} => Safe(JobOf(w))'
    BY <2>5, Zenon
  <2>7. \A j \in Job : Published(j)' => Published(j)
    BY <2>1, Zenon DEF Published
  <2> QED
    BY <1>SetFailed, <2>1, <2>3, <2>4, <2>5, <2>6, <2>7, LossMoves, Zenon
       DEF Process
<1>MarkFailed. ASSUME NEW w \in Worker, MarkFailed(w) PROVE LossInv'
  <2>1. /\ UNCHANGED <<msg, conn, unacked, brokerFaults>>
        /\ UNCHANGED broker /\ UNCHANGED states
        /\ pc[w] = "mark_failed" /\ pc[w] \notin {"ack", "drop"}
        /\ UNCHANGED storeFaults \/ StoreFault
        /\ Finished(JobOf(w)) \/ UNCHANGED timing
    BY <1>MarkFailed, ZenonT(30) DEF MarkFailed, locals
  <2>2. Keeps
    BY <2>1, StoreFaultKept, Zenon DEF Keeps, broker, states
  <2>3. \A j \in Job : isTerminal(status'[j]) => reached'[j]
    BY <2>1, <1>final, Zenon DEF states
  <2>4. pc'[w] = "dead_letter"
    BY <1>MarkFailed, GotoLabel, ZenonT(30) DEF MarkFailed
  <2>5. reached'[JobOf(w)] \/ storeFaults' > 0
    BY <2>1, StoreFaultKept, Zenon DEF LossInv, states
  <2>6. \A j \in Job : Published(j)' => Published(j)
    BY <2>1 DEF Finished, Published, TypeInv, TypeStore
  <2> QED
    BY <1>MarkFailed, <2>1, <2>2, <2>3, <2>4, <2>5, <2>6, LossMoves, Zenon
       DEF Process
<1>Delay. ASSUME NEW w \in Worker, Delay(w) PROVE LossInv'
  <2> DEFINE level == IF pc[w] = "busy" THEN 1 ELSE Clamp(att[w])
  <2>1. /\ UNCHANGED <<msg, conn, unacked, storeFaults, ready, dead>>
        /\ UNCHANGED states /\ UNCHANGED timing
        /\ pc[w] \notin {"ack", "drop"}
        /\ \/ /\ delayed' = [delayed EXCEPT ![level] = Put(delayed[level], Copy(w))]
              /\ UNCHANGED brokerFaults /\ pc'[w] = "ack"
           \/ /\ pc'[w] = "requeue"
              /\ UNCHANGED brokerFaults \/ BrokerFault
              /\ \/ UNCHANGED delayed
                 \/ delayed' = [delayed EXCEPT ![level] = Put(delayed[level], Copy(w))]
    BY <1>Delay, GotoLabel, Zenon DEF Delay, Refused, locals, hashes
  <2>2. AtWork(w)
    BY <1>Delay, Working, Zenon DEF Resting, Delay
  <2>3. level \in Level /\ Copy(w) \in Envelope /\ Copy(w).id = JobOf(w)
    <3>1. level \in Level
      BY <2>2, DelayLevel, Zenon DEF AtWork
    <3> QED
      BY <2>2, <3>1, EnvelopeFacts, Zenon DEF Copy, AtWork
  <2> HIDE DEF level
  <2>4. delayed[level] \in [Envelope -> Nat] /\ DOMAIN delayed = Level
    BY <2>3, Zenon DEF TypeInv, TypeBroker
  <2>5. \A l \in Level, m \in Envelope : delayed[l][m] > 0 => delayed'[l][m] > 0
    BY <2>1, <2>3, <2>4, PutKept, ZenonT(30)
  <2>6. Keeps
    BY <2>1, <2>5, FaultKept, Zenon DEF Keeps, states
  <2>7. pc'[w] = "ack" => Safe(JobOf(w))'
    <3>1. ASSUME pc'[w] = "ack" PROVE delayed'[level][Copy(w)] > 0
      BY <2>1, <2>3, <2>4, <3>1, PutFacts, Zenon
    <3>2. JobOf(w)' = JobOf(w)
      BY <2>1, Zenon DEF JobOf
    <3> QED
      BY <2>3, <3>1, <3>2, Zenon DEF Safe, Queued
  <2>8. \A j \in Job : isTerminal(status'[j]) => reached'[j]
    BY <2>1, <1>final, Zenon DEF states
  <2>9. \A j \in Job : Published(j)' => Published(j)
    BY <2>1, Zenon DEF Published
  <2>10. pc'[w] \in {"ack", "requeue"}
    BY <2>1, Zenon
  <2> QED
    BY <1>Delay, <2>1, <2>6, <2>7, <2>8, <2>9, <2>10, LossMoves, Zenon
       DEF Process
<1>DeadLetter. ASSUME NEW w \in Worker, DeadLetter(w) PROVE LossInv'
  <2>1. /\ UNCHANGED <<msg, conn, unacked, storeFaults, ready, delayed>>
        /\ UNCHANGED states /\ UNCHANGED timing
        /\ pc[w] = "dead_letter" /\ pc[w] \notin {"ack", "drop"}
        /\ \/ /\ dead' = Put(dead, Copy(w))
              /\ UNCHANGED brokerFaults /\ pc'[w] = "ack"
           \/ /\ pc'[w] = "drop"
              /\ (~conn[w] /\ UNCHANGED brokerFaults) \/ BrokerFault
              /\ UNCHANGED dead \/ dead' = Put(dead, Copy(w))
    BY <1>DeadLetter, GotoLabel, Zenon DEF DeadLetter, Refused, locals, hashes
  <2>2. AtWork(w) /\ dead \in [Envelope -> Nat]
    BY <1>DeadLetter, Working, ZenonT(30)
    DEF Resting, DeadLetter, TypeInv, TypeBroker
  <2>3. Copy(w) \in Envelope /\ Copy(w).id = JobOf(w)
    BY <2>2, EnvelopeFacts, Zenon DEF Copy, AtWork
  <2>4. \A m \in Envelope : dead[m] > 0 => dead'[m] > 0
    BY <2>1, <2>2, <2>3, PutKept, Zenon
  <2>5. Keeps
    BY <2>1, <2>4, FaultKept, ZenonT(30) DEF Keeps, states
  <2>6. reached'[JobOf(w)] \/ storeFaults' > 0
    BY <2>1, Zenon DEF LossInv, states
  <2>7. JobOf(w)' = JobOf(w)
    BY <2>1, Zenon DEF JobOf
  <2>8. CASE unacked[w] \/ pc'[w] = "ack"
    <3>1. pc'[w] = "ack" => Buried(JobOf(w))'
      <4>1. ASSUME pc'[w] = "ack" PROVE dead'[Copy(w)] > 0
        BY <2>1, <2>2, <2>3, <4>1, PutFacts, ZenonT(30)
      <4> QED
        BY <2>3, <2>7, <4>1, Zenon DEF Buried
    <3>2. pc'[w] = "drop" => brokerFaults' > 0
      BY <1>conn, <2>1, <2>8, FaultKept, Zenon
    <3>3. pc'[w] \in {"ack", "drop"} => Safe(JobOf(w))'
      BY <2>6, <2>7, <3>1, <3>2, Zenon DEF Safe
    <3>4. \A j \in Job : isTerminal(status'[j]) => reached'[j]
      BY <2>1, <1>final, Zenon DEF states
    <3>5. \A j \in Job : Published(j)' => Published(j)
      BY <2>1, Zenon DEF Published
    <3> QED
      BY <1>DeadLetter, <2>1, <2>5, <2>6, <3>3, <3>4, <3>5, LossMoves, Zenon
         DEF Process
  <2>9. CASE ~unacked[w] /\ pc'[w] # "ack"
    <3>1. Moves(w)
      BY <1>DeadLetter, ProcessMoves, Zenon DEF Process
    <3>2. \A v \in Worker : v # w => pc'[v] = pc[v]
      BY <3>1, Zenon DEF Moves, TypeInv, TypeWorker
    <3>3. \A j \in Job : Carries(w, j) => Carries(w, j)' \/ Safe(j)'
      BY <2>9, Zenon DEF Carries
    <3>4. \A j \in Job : Safe(j) => Safe(j)'
      BY <2>5, SafeKept, Zenon
    <3>5. \A j \in Job : Published(j)' => Published(j)
      BY <2>1, Zenon DEF Published
    <3>6. (\A j \in Job : Published(j) =>
              Safe(j) \/ \E v \in Worker : Carries(v, j))'
      BY <2>1, <3>2, <3>3, <3>4, <3>5, LossStep, Zenon
    <3>7. \A j \in Job : isTerminal(status'[j]) => reached'[j]
      BY <2>1, <1>final, ZenonT(30) DEF states
    <3> QED
      BY <2>1, <2>2, <2>5, <2>6, <3>1, <3>6, <3>7, LossRest, Zenon DEF LossInv
  <2> QED
    BY <2>8, <2>9, Zenon
<1>Settle. ASSUME NEW w \in Worker, Settle(w) PROVE LossInv'
  <2>1. /\ UNCHANGED <<msg, conn, storeFaults, brokerFaults>>
        /\ UNCHANGED broker /\ UNCHANGED states /\ UNCHANGED timing
        /\ pc[w] \in {"ack", "drop"}
        /\ unacked' = [unacked EXCEPT ![w] = FALSE]
        /\ pc'[w] \in {"release", "unwind"}
    BY <1>Settle, GotoLabel, Zenon DEF Settle, Raise, hashes
  <2>2. AtWork(w) /\ Moves(w)
    BY <1>Settle, ProcessMoves, Zenon DEF Process
  <2>3. Keeps
    BY <2>1, Zenon DEF Keeps, broker, states
  <2>4. \A v \in Worker : v # w => pc'[v] = pc[v] /\ unacked'[v] = unacked[v]
    BY <2>1, <2>2, Zenon DEF Moves, TypeInv, TypeWorker
  <2>5. \A j \in Job : ~Carries(w, j)
    BY <2>1, Zenon DEF Carries
  <2>6. \A j \in Job : Safe(j) => Safe(j)'
    BY <2>3, SafeKept, Zenon
  <2>7. \A j \in Job : Published(j)' => Published(j)
    BY <2>1, Zenon DEF Published
  <2>8. (\A j \in Job : Published(j) =>
            Safe(j) \/ \E v \in Worker : Carries(v, j))'
    BY <2>1, <2>4, <2>5, <2>6, <2>7, LossStep, Zenon
  <2>9. \A j \in Job : isTerminal(status'[j]) => reached'[j]
    BY <2>1, <1>final, Zenon DEF states
  <2>10. \A v \in Worker : unacked'[v] => unacked[v]
    BY <2>1, Zenon DEF TypeInv, TypeWorker
  <2> QED
    BY <2>1, <2>2, <2>3, <2>8, <2>9, <2>10, LossRest, Zenon DEF LossInv
<1>Requeue. ASSUME NEW w \in Worker, Requeue(w) PROVE LossInv'
  <2>1. /\ UNCHANGED <<msg, conn, storeFaults, brokerFaults, delayed, dead>>
        /\ UNCHANGED states /\ UNCHANGED timing
        /\ ready' = IF unacked[w] THEN Put(ready, msg[w]) ELSE ready
        /\ unacked' = [unacked EXCEPT ![w] = FALSE]
        /\ pc'[w] \in {"release", "unwind"}
    BY <1>Requeue, GotoLabel, Zenon DEF Requeue, Raise, hashes
  <2>2. AtWork(w) /\ Moves(w)
    BY <1>Requeue, ProcessMoves, Zenon DEF Process
  <2>3. /\ Keeps
        /\ \A j \in Job : Carries(w, j) => Safe(j)'
    BY <2>1, Returned, Zenon
  <2>4. \A v \in Worker : v # w => pc'[v] = pc[v] /\ unacked'[v] = unacked[v]
    BY <2>1, <2>2, Zenon DEF Moves, TypeInv, TypeWorker
  <2>5. \A j \in Job : Safe(j) => Safe(j)'
    BY <2>3, SafeKept, ZenonT(30)
  <2>6. \A j \in Job : Published(j)' => Published(j)
    BY <2>1, Zenon DEF Published
  <2>7. (\A j \in Job : Published(j) =>
            Safe(j) \/ \E v \in Worker : Carries(v, j))'
    BY <2>1, <2>3, <2>4, <2>5, <2>6, LossStep, Zenon
  <2>8. \A j \in Job : isTerminal(status'[j]) => reached'[j]
    BY <2>1, <1>final, Zenon DEF states
  <2>9. \A v \in Worker : unacked'[v] => unacked[v]
    BY <2>1, Zenon DEF TypeInv, TypeWorker
  <2> QED
    BY <2>1, <2>2, <2>3, <2>7, <2>8, <2>9, LossRest, Zenon DEF LossInv
<1>ReleaseConversationLock. ASSUME NEW w \in Worker, ReleaseConversationLock(w)
  PROVE LossInv'
  <2>1. /\ UNCHANGED <<conn, unacked, brokerFaults>>
        /\ UNCHANGED broker /\ UNCHANGED states /\ UNCHANGED timing
        /\ pc[w] = "release"
        /\ pc' = [pc EXCEPT ![w] = "idle"]
        /\ msg' = [msg EXCEPT ![w] = None]
        /\ UNCHANGED storeFaults \/ StoreFault
    BY <1>ReleaseConversationLock, Zenon
    DEF ReleaseConversationLock, Forget, Goto, Unlock, hashes
  <2>2. Keeps
    BY <2>1, StoreFaultKept, Zenon DEF Keeps, broker, states
  <2>3. ~unacked[w]
    BY <2>1, Zenon DEF TypeInv, WorkersLeft
  <2> QED
    BY <2>1, <2>2, <2>3, LossIdle, Zenon
<1>Unwind. ASSUME NEW w \in Worker, Unwind(w) PROVE LossInv'
  <2>1. pc'[w] \notin {"ack", "drop"} \union AfterFailed
    BY <1>Unwind, RetryLabel, Zenon DEF Unwind
  <2>2. \A j \in Job : Published(j)' => Published(j)
    BY <1>Unwind, ZenonT(30) DEF Unwind, hashes, Published
  <2>3. UNCHANGED storeFaults \/ StoreFault
    BY <1>Unwind, Zenon DEF Unwind, Unlock
  <2>4. /\ UNCHANGED <<msg, conn, unacked, brokerFaults>>
        /\ UNCHANGED broker /\ UNCHANGED states
        /\ pc[w] \notin {"ack", "drop"}
    BY <1>Unwind, Zenon DEF Unwind
  <2> QED
    BY <1>Unwind, <2>1, <2>2, <2>3, <2>4, StoreFaultKept, LossQuiet, Zenon
<1>Crash. ASSUME NEW w \in Worker, Crash(w) PROVE LossInv'
  <2>1. /\ UNCHANGED <<storeFaults, brokerFaults, delayed, dead>>
        /\ UNCHANGED states /\ UNCHANGED timing
        /\ ready' = IF unacked[w] THEN Put(ready, msg[w]) ELSE ready
        /\ unacked' = [unacked EXCEPT ![w] = FALSE]
        /\ conn' = [conn EXCEPT ![w] = FALSE]
        /\ pc' = [pc EXCEPT ![w] = "down"]
        /\ msg' = [msg EXCEPT ![w] = None]
    BY <1>Crash, Zenon DEF Crash, Forget, Goto, hashes
  <2>2. Keeps /\ \A j \in Job : Carries(w, j) => Safe(j)'
    BY <2>1, Returned, Zenon
  <2>3. /\ pc'[w] = "down" \/ (pc'[w] = pc[w] /\ msg'[w] = msg[w])
        /\ \A v \in Worker : v # w => pc'[v] = pc[v] /\ msg'[v] = msg[v]
    <3>1. DOMAIN pc = Worker /\ DOMAIN msg = Worker
      BY Zenon DEF TypeInv, TypeWorker
    <3>2. pc'[w] = "down"
      BY <2>1, <3>1, Zenon
    <3>3. \A v \in Worker : v # w => pc'[v] = pc[v] /\ msg'[v] = msg[v]
      BY <2>1, <3>1, Zenon
    <3> QED
      BY <3>2, <3>3, Zenon
  <2>4. UNCHANGED storeFaults
    BY <2>1, Zenon
  <2> QED
    BY <2>1, <2>2, <2>3, <2>4, LossGone, Zenon
<1>Disconnect. ASSUME NEW w \in Worker, Disconnect(w) PROVE LossInv'
  <2>1. /\ UNCHANGED <<storeFaults, brokerFaults, delayed, dead, pc, msg>>
        /\ UNCHANGED states /\ UNCHANGED timing
        /\ ready' = IF unacked[w] THEN Put(ready, msg[w]) ELSE ready
        /\ unacked' = [unacked EXCEPT ![w] = FALSE]
        /\ conn' = [conn EXCEPT ![w] = FALSE]
    BY <1>Disconnect, Zenon DEF Disconnect, hashes
  <2>2. Keeps /\ \A j \in Job : Carries(w, j) => Safe(j)'
    BY <2>1, Returned, Zenon
  <2>3. \A v \in Worker : pc'[v] = pc[v] /\ msg'[v] = msg[v]
    BY <2>1, Zenon
  <2> QED
    BY <2>1, <2>2, <2>3, LossGone, Zenon
<1>Publish. ASSUME NEW i \in Job, Publish(i) PROVE LossInv'
  <2> DEFINE m == [id |-> i, attempt |-> 0]
  <2>1. /\ UNCHANGED <<delayed, dead, pc, msg, storeFaults, brokerFaults, conn, unacked>>
        /\ SetJobStatus(i, "published")
        /\ timing' = [timing EXCEPT ![i] = timing[i] \union {"published"}]
        /\ ready' = Put(ready, m)
    BY <1>Publish, Zenon DEF Publish, locals
  <2>2. m \in Envelope /\ m.id = i /\ ready \in [Envelope -> Nat]
    BY EnvelopeFacts, JobWorkersAssumption DEF TypeInv, TypeBroker
  <2> HIDE DEF m
  <2>3. /\ \A j \in Job : reached[j] => reached'[j]
        /\ \A j \in Job : isTerminal(status'[j]) => reached'[j]
    BY <2>1, StatusKept, Zenon DEF LossInv, Status
  <2>4. \A e \in Envelope : ready[e] > 0 => ready'[e] > 0
    BY <2>1, <2>2, PutKept, Zenon
  <2>5. Keeps
    BY <2>1, <2>3, <2>4, Zenon DEF Keeps
  <2>6. \A j \in Job : Safe(j) => Safe(j)'
    BY <2>5, SafeKept, ZenonT(30)
  <2>7. Safe(i)'
    BY <2>1, <2>2, PutFacts, Zenon DEF Safe, Queued
  <2>8. \A j \in Job : j # i /\ Published(j)' => Published(j)
    BY <2>1, Zenon DEF Published, TypeInv, TypeStore
  <2>9. \A v \in Worker, j \in Job : Carries(v, j) => Carries(v, j)'
    BY <2>1, Zenon DEF Carries, JobOf
  <2>10. (\A j \in Job : Published(j) =>
             Safe(j) \/ \E v \in Worker : Carries(v, j))'
    BY <2>6, <2>7, <2>8, <2>9, Zenon DEF LossInv
  <2>11. ASSUME NEW v \in Worker, pc[v] \in AfterFailed
         PROVE  reached'[JobOf(v)] \/ storeFaults' > 0
    <3>1. JobOf(v) \in Job
      BY <2>11, Working, ZenonT(30) DEF Resting, AtWork
    <3> QED
      BY <1>failed, <2>1, <2>3, <2>11, <3>1, Zenon
  <2>12. (\A v \in Worker :
             /\ unacked[v] => conn[v]
             /\ pc[v] \in AfterFailed => reached[JobOf(v)] \/ storeFaults > 0)'
    BY <2>1, <2>11, Zenon DEF LossInv, JobOf
  <2> QED
    BY <2>3, <2>10, <2>12, Zenon DEF LossInv
<1>Deliver. ASSUME NEW w \in Worker, NEW m \in Envelope, Deliver(w, m)
  PROVE LossInv'
  <2>1. /\ UNCHANGED <<delayed, dead, storeFaults, brokerFaults, conn>>
        /\ UNCHANGED states /\ UNCHANGED timing
        /\ pc[w] = "idle" /\ conn[w] /\ ready[m] > 0
        /\ ready' = Take(ready, m)
        /\ msg' = [msg EXCEPT ![w] = m]
        /\ unacked' = [unacked EXCEPT ![w] = TRUE]
        /\ pc' = [pc EXCEPT ![w] = "get_status"]
    BY <1>Deliver, Zenon DEF Deliver, Goto, no_ack, hashes
  <2>2. /\ pc'[w] = "get_status" /\ msg'[w] = m /\ unacked'[w]
        /\ \A v \in Worker : v # w => /\ pc'[v] = pc[v] /\ msg'[v] = msg[v]
                                      /\ unacked'[v] = unacked[v]
    BY <2>1, Zenon DEF TypeInv, TypeWorker
  <2>3. \A e \in Envelope : e # m => ready'[e] = ready[e]
    BY <2>1, TakeFacts, Zenon DEF TypeInv, TypeBroker
  <2>4. Carries(w, m.id)'
    BY <2>2, Zenon DEF Carries, JobOf
  <2>5. ASSUME NEW j \in Job, j # m.id, Safe(j) PROVE Safe(j)'
    <3>1. Queued(j) => Queued(j)'
      BY <2>1, <2>3, <2>5, Zenon DEF Queued
    <3>2. Buried(j) => Buried(j)'
      BY <2>1, Zenon DEF Buried
    <3> QED
      BY <2>1, <2>5, <3>1, <3>2, Zenon DEF Safe, states
  <2>6. \A v \in Worker, j \in Job : Carries(v, j) => Carries(v, j)'
    <3>1. ~unacked[w]
      BY <2>1, Zenon DEF TypeInv, WorkersLeft, Resting
    <3> QED
      BY <2>2, <3>1, ZenonT(30) DEF Carries, JobOf
  <2>7. (\A j \in Job : Published(j) =>
            Safe(j) \/ \E v \in Worker : Carries(v, j))'
    <3>1. ASSUME NEW j \in Job, Published(j)'
          PROVE  Safe(j)' \/ \E v \in Worker : Carries(v, j)'
      <4>1. Published(j)
        BY <2>1, <3>1, Zenon DEF Published
      <4>2. Safe(j) \/ \E v \in Worker : Carries(v, j)
        BY <4>1, Zenon DEF LossInv
      <4> QED
        BY <2>4, <2>5, <2>6, <4>2, Zenon
    <3> QED
      BY <3>1, Zenon
  <2>8. \A v \in Worker : unacked'[v] => conn'[v]
    BY <2>1, <2>2, <1>conn, Zenon
  <2>9. ASSUME NEW v \in Worker, pc'[v] \in AfterFailed
        PROVE  (reached[JobOf(v)] \/ storeFaults > 0)'
    <3>1. pc'[v] = pc[v] /\ msg'[v] = msg[v]
      BY <2>2, <2>9, Zenon
    <3> QED
      BY <2>1, <2>9, <3>1, Zenon DEF LossInv, JobOf, states
  <2>10. \A j \in Job : isTerminal(status'[j]) => reached'[j]
    BY <2>1, <1>final, ZenonT(30) DEF states
  <2> QED
    BY <2>7, <2>8, <2>9, <2>10, Zenon DEF LossInv
<1>DelayExpires. ASSUME NEW l \in Level, NEW m \in Envelope, DelayExpires(l, m)
  PROVE LossInv'
  <2>1. /\ UNCHANGED <<dead, storeFaults, brokerFaults, conn, unacked, pc, msg>>
        /\ UNCHANGED states /\ UNCHANGED timing
        /\ delayed[l][m] > 0
        /\ delayed' = [delayed EXCEPT ![l] = Take(delayed[l], m)]
        /\ ready' = Put(ready, m)
    BY <1>DelayExpires, Zenon DEF DelayExpires, locals, hashes
  <2>2. /\ ready \in [Envelope -> Nat] /\ delayed[l] \in [Envelope -> Nat]
        /\ DOMAIN delayed = Level
    BY Zenon DEF TypeInv, TypeBroker
  <2>3. /\ ready'[m] > 0
        /\ \A e \in Envelope : ready[e] > 0 => ready'[e] > 0
    BY <2>1, <2>2, PutFacts, PutKept, ZenonT(30)
  <2>4. \A k \in Level, e \in Envelope : e # m => delayed'[k][e] = delayed[k][e]
    BY <2>1, <2>2, TakeFacts, SMTT(30)
  <2>5. ASSUME NEW j \in Job, Safe(j) PROVE Safe(j)'
    <3>1. Queued(j) => Queued(j)'
      <4>1. CASE j = m.id
        BY <2>3, <4>1, Zenon DEF Queued
      <4>2. CASE j # m.id
        BY <2>3, <2>4, <4>2, Zenon DEF Queued
      <4> QED
        BY <4>1, <4>2, Zenon
    <3>2. Buried(j) => Buried(j)'
      BY <2>1, Zenon DEF Buried
    <3> QED
      BY <2>1, <2>5, <3>1, <3>2, Zenon DEF Safe, states
  <2> QED
    BY <2>1, <2>5, LossFrame, ZenonT(30)
<1>Expire. ASSUME NEW c \in Conversation, Expire(c) PROVE LossInv'
  <2>1. /\ UNCHANGED <<storeFaults, brokerFaults, conn, unacked, pc, msg>>
        /\ UNCHANGED states /\ UNCHANGED timing /\ UNCHANGED broker
    BY <1>Expire, Zenon DEF Expire, locals, hashes
  <2> QED
    BY <2>1, SafeStays, LossFrame, Zenon
<1>Reconnect. ASSUME NEW w \in Worker, Reconnect(w) PROVE LossInv'
  <2>1. /\ UNCHANGED <<storeFaults, brokerFaults, unacked, pc, msg>>
        /\ UNCHANGED states /\ UNCHANGED timing /\ UNCHANGED broker
        /\ conn' = [conn EXCEPT ![w] = TRUE]
    BY <1>Reconnect, Zenon DEF Reconnect, hashes
  <2>2. \A v \in Worker : conn[v] => conn'[v]
    BY <2>1, Zenon DEF TypeInv, TypeWorker
  <2> QED
    BY <2>1, <2>2, SafeStays, LossFrame, Zenon
<1>Restart. ASSUME NEW w \in Worker, Restart(w) PROVE LossInv'
  <2>1. /\ UNCHANGED <<storeFaults, brokerFaults, unacked, msg>>
        /\ UNCHANGED states /\ UNCHANGED timing /\ UNCHANGED broker
        /\ conn' = [conn EXCEPT ![w] = TRUE]
        /\ pc[w] = "down" /\ pc' = [pc EXCEPT ![w] = "idle"]
    BY <1>Restart, Zenon DEF Restart, Goto, hashes
  <2>2. /\ \A v \in Worker : conn[v] => conn'[v]
        /\ \A v \in Worker : pc'[v] = pc[v] \/ (pc[v] = "down" /\ pc'[v] = "idle")
    BY <2>1, Zenon DEF TypeInv, TypeWorker
  <2> QED
    BY <2>1, <2>2, SafeStays, LossFrame, Zenon
<1>Stutter. CASE UNCHANGED vars
  <2>1. /\ UNCHANGED <<storeFaults, brokerFaults, conn, unacked, pc, msg>>
        /\ UNCHANGED states /\ UNCHANGED timing /\ UNCHANGED broker
    BY <1>Stutter, Zenon DEF vars, locals, hashes
  <2> QED
    BY <2>1, SafeStays, LossFrame, Zenon
<1> QED
  BY <1>GetJobStatus, <1>AcquireConversationLock, <1>SetProcessing,
     <1>MarkStarted, <1>StartRun, <1>NoPendingInput, <1>EndFailed, <1>Pause,
     <1>Book, <1>Complete, <1>FailRun, <1>SetMetadata, <1>MarkFinished,
     <1>SetFinal, <1>SetRetrying, <1>Delay, <1>SetFailed, <1>MarkFailed,
     <1>DeadLetter, <1>Settle, <1>Requeue, <1>ReleaseConversationLock,
     <1>Publish, <1>Deliver, <1>DelayExpires, <1>Expire, <1>Disconnect,
     <1>Unwind, <1>Crash, <1>Reconnect, <1>Restart, <1>Stutter, Zenon
  DEF Next, Step, Process

\* At-least-once, in full: a published job is queued, with a worker, finished
\* or buried, unless the store and the broker both failed it.
THEOREM NoJobLost == Spec => []NoSilentLoss
<1>1. Init => LossInv
  <2>1. ASSUME Init
        PROVE  /\ \A j \in Job : timing[j] = {} /\ status[j] = ""
               /\ \A w \in Worker : pc[w] = "idle" /\ ~unacked[w]
    BY <2>1, Zenon DEF Init
  <2> QED
    BY <2>1, Zenon DEF LossInv, Published, isTerminal, AfterFailed
<1>2. LossInv => NoSilentLoss
  BY Zenon DEF LossInv, NoSilentLoss, InFlight, Safe, Queued, Carries
<1>3. TypeInv /\ LossInv /\ [Next]_vars => LossInv'
  BY NextLossInv, Zenon
<1> QED
  BY <1>1, <1>2, <1>3, InitTypeInv, NextTypeInv, PTL DEF Spec

-----------------------------------------------------------------------------
(* The arithmetic of the attempt count.                                    *)

LEMMA CountFacts ==
    /\ 0 \in 0..MaxAttempts /\ 0 <= 0
    /\ \A a, b \in Nat : a <= b => a <= b + 1 /\ a + 1 <= b + 1
    /\ \A a, b \in Nat : a <= b /\ b < MaxAttempts => a + 1 <= MaxAttempts
    /\ \A n \in 0..MaxAttempts :
           n \in Nat /\ (RetryTarget(n) = "set_failed" => n = MaxAttempts)
<1>1. MaxAttempts \in Nat
  BY JobWorkersAssumption
<1> QED
  BY <1>1 DEF RetryTarget

-----------------------------------------------------------------------------
(* A final status is backed.                                               *)

\* Statuses written by _finish().
Final == {"completed", "waiting_for_confirmation"}

\* Labels behind MarkStarted, and labels before the run can be interrupted.
AfterStart == {"run", "running", "booked", "set_metadata", "mark_finished",
               "set_final"}
BeforePause == {"idle", "down", "get_status", "lock", "set_processing",
                "mark_started", "run", "running", "booked"}

\* What a worker has recorded of its job when it reaches a label.
Recorded(w) ==
    /\ pc[w] \notin Resting => Published(JobOf(w))
    /\ pc[w] \in AfterStart => /\ "started" \in timing[JobOf(w)]
                               /\ attempts[JobOf(w)] > 0
    /\ pc[w] \in BeforePause => ~requested[w]
    /\ pc[w] \in {"mark_finished", "set_final"} /\ requested[w] =>
           metadata[JobOf(w)]
    /\ pc[w] = "set_final" => "finished" \in timing[JobOf(w)]

Backed(j) ==
    status[j] \in Final =>
        /\ timing[j] = {"published", "started", "finished"}
        /\ attempts[j] > 0
        /\ status[j] = "waiting_for_confirmation" => metadata[j]

\* Only published jobs are queued.
QueuedPublished ==
    /\ \A m \in Envelope : ready[m] > 0 => Published(m.id)
    /\ \A l \in Level, m \in Envelope : delayed[l][m] > 0 => Published(m.id)

\* FinalStatusIsBacked, strengthened by what every worker has recorded so far.
RecordInv == /\ QueuedPublished
             /\ \A j \in Job : Backed(j)
             /\ \A w \in Worker : Recorded(w)

\* No call takes anything away from the records of a job.
Grows ==
    \A j \in Job : /\ timing[j] \subseteq timing'[j]
                   /\ attempts[j] > 0 => attempts'[j] > 0
                   /\ metadata[j] => metadata'[j]

\* Records that only grow keep every status backed that is not written.
LEMMA BackedKept ==
    ASSUME TypeInv, TypeInv', Grows, NEW j \in Job, Backed(j),
           status'[j] = status[j] \/ status'[j] \notin Final
    PROVE  Backed(j)'
<1>1. timing'[j] \subseteq {"published", "started", "finished"}
  BY ZenonT(30) DEF TypeInv, TypeStore
<1> QED
  BY <1>1, Zenon DEF Backed, Grows

\* They keep what a worker that does not move has recorded.
LEMMA RecordedKept ==
    ASSUME TypeInv, Grows, NEW w \in Worker, Recorded(w),
           pc'[w] = pc[w], msg'[w] = msg[w], requested'[w] = requested[w]
    PROVE  Recorded(w)'
<1>1. CASE pc[w] \in Resting
  BY <1>1 DEF Resting, Recorded, AfterStart
<1>2. CASE pc[w] \notin Resting
  <2>1. JobOf(w) \in Job /\ JobOf(w)' = JobOf(w)
    BY <1>2, Working DEF AtWork, JobOf
  <2>2. /\ timing[JobOf(w)] \subseteq timing'[JobOf(w)]
        /\ attempts[JobOf(w)] > 0 => attempts'[JobOf(w)] > 0
        /\ metadata[JobOf(w)] => metadata'[JobOf(w)]
    BY <2>1 DEF Grows
  <2> QED
    BY <2>1, <2>2, Zenon DEF Recorded, Published
<1> QED
  BY <1>1, <1>2

\* They keep the queued jobs published.
LEMMA QueuedKept ==
    ASSUME Grows, QueuedPublished,
           \A m \in Envelope : ready'[m] > 0 => ready[m] > 0 \/ Published(m.id),
           \A l \in Level, m \in Envelope :
               delayed'[l][m] > 0 => delayed[l][m] > 0 \/ Published(m.id)
    PROVE  QueuedPublished'
<1>1. \A m \in Envelope : Published(m.id) => Published(m.id)'
  BY EnvelopeFacts DEF Published, Grows
<1> QED
  BY <1>1 DEF QueuedPublished

\* A step of one worker, given what it does to its own records.
LEMMA RecordStep ==
    ASSUME TypeInv, TypeInv', RecordInv, Grows, NEW w \in Worker,
           \A v \in Worker : v # w => /\ pc'[v] = pc[v] /\ msg'[v] = msg[v]
                                      /\ requested'[v] = requested[v],
           \A m \in Envelope : ready'[m] > 0 => ready[m] > 0 \/ Published(m.id),
           \A l \in Level, m \in Envelope :
               delayed'[l][m] > 0 => delayed[l][m] > 0 \/ Published(m.id),
           \A j \in Job : \/ status'[j] = status[j] \/ status'[j] \notin Final
                          \/ Backed(j)',
           Recorded(w)'
    PROVE  RecordInv'
<1>1. QueuedPublished'
  BY QueuedKept DEF RecordInv
<1>2. \A j \in Job : Backed(j)'
  BY BackedKept DEF RecordInv
<1>3. \A v \in Worker : Recorded(v)'
  BY RecordedKept DEF RecordInv
<1> QED
  BY <1>1, <1>2, <1>3 DEF RecordInv

\* A step of _process(), or its end by an exception, moves one worker.
LEMMA OneMoves ==
    ASSUME TypeInv, NEW w \in Worker, Process(w) \/ Unwind(w)
    PROVE  AtWork(w) /\ \A v \in Worker : v # w => pc'[v] = pc[v]
<1>1. Unwind(w) => AtWork(w) /\ Moves(w)
  BY Working, RetryMoves DEF Unwind, Resting
<1>2. AtWork(w) /\ Moves(w)
  BY <1>1, ProcessMoves
<1> QED
  BY <1>2, Zenon DEF Moves, TypeInv, TypeWorker

\* A call that writes nothing but perhaps a status that is not final.
LEMMA RecordQuiet ==
    ASSUME TypeInv, TypeInv', RecordInv, NEW w \in Worker,
           Process(w) \/ Unwind(w), UNCHANGED hashes,
           UNCHANGED <<msg, requested, ready, delayed>>,
           \A j \in Job : status'[j] = status[j] \/ status'[j] \notin Final,
           pc'[w] \in AfterStart => pc[w] \in AfterStart,
           pc'[w] \in BeforePause \union {"mark_finished"} =>
               pc[w] \in BeforePause,
           pc'[w] # "set_final"
    PROVE  RecordInv'
<1>1. AtWork(w) /\ \A v \in Worker : v # w => pc'[v] = pc[v]
  BY OneMoves
<1>2. Grows
  BY DEF Grows, hashes
<1>3. Recorded(w)'
  <2>1. JobOf(w)' = JobOf(w) /\ Recorded(w) /\ pc[w] \notin Resting
    BY <1>1 DEF JobOf, RecordInv, AtWork
  <2> QED
    BY <2>1, Zenon DEF Recorded, Published, hashes
<1> QED
  BY <1>1, <1>2, <1>3, RecordStep

\* A status write.
LEMMA StatusWrite ==
    ASSUME TypeInv, NEW i \in Job, NEW s,
           SetJobStatus(i, s) \/ UNCHANGED states
    PROVE  \A j \in Job : status'[j] = status[j] \/ (j = i /\ status'[j] = s)
BY DEF SetJobStatus, states, TypeInv, TypeStore

\* A transition leads where it says, and _retry() to its status writes.
LEMMA Leads ==
    ASSUME TypeInv, NEW w \in Worker
    PROVE  /\ \A l : Goto(w, l) => pc'[w] = l
           /\ retry(w) => pc'[w] \in {"set_failed", "set_retrying"}
BY DEF Goto, retry, RetryTarget, TypeInv, TypeWorker

\* Every step preserves RecordInv.
LEMMA NextRecordInv ==
    ASSUME TypeInv, TypeInv', RecordInv, [Next]_vars
    PROVE  RecordInv'
<1> USE DEF AfterStart, BeforePause
<1>GetJobStatus. ASSUME NEW w \in Worker, GetJobStatus(w) PROVE RecordInv'
  <2>1. /\ UNCHANGED hashes /\ UNCHANGED <<msg, requested, ready, delayed>>
        /\ pc'[w] \in AfterStart => pc[w] \in AfterStart
        /\ pc'[w] \in BeforePause \union {"mark_finished"} =>
               pc[w] \in BeforePause
        /\ pc'[w] # "set_final"
    BY <1>GetJobStatus, Leads, ZenonT(30)
    DEF GetJobStatus, broker, locals, StatusTarget
  <2>2. \A j \in Job : status'[j] = status[j] \/ status'[j] \notin Final
    BY <1>GetJobStatus, Zenon DEF GetJobStatus, states
  <2> QED
    BY <1>GetJobStatus, <2>1, <2>2, RecordQuiet, Zenon DEF Process
<1>AcquireConversationLock. ASSUME NEW w \in Worker, AcquireConversationLock(w) PROVE RecordInv'
  <2>1. /\ UNCHANGED hashes /\ UNCHANGED <<msg, requested, ready, delayed>>
        /\ pc'[w] \in AfterStart => pc[w] \in AfterStart
        /\ pc'[w] \in BeforePause \union {"mark_finished"} =>
               pc[w] \in BeforePause
        /\ pc'[w] # "set_final"
    BY <1>AcquireConversationLock, Leads, ZenonT(30)
    DEF AcquireConversationLock, broker, locals
  <2>2. \A j \in Job : status'[j] = status[j] \/ status'[j] \notin Final
    BY <1>AcquireConversationLock, Zenon DEF AcquireConversationLock, states
  <2> QED
    BY <1>AcquireConversationLock, <2>1, <2>2, RecordQuiet, Zenon DEF Process
<1>StartRun. ASSUME NEW w \in Worker, StartRun(w) PROVE RecordInv'
  <2>1. /\ UNCHANGED hashes /\ UNCHANGED <<msg, requested, ready, delayed>>
        /\ pc'[w] \in AfterStart => pc[w] \in AfterStart
        /\ pc'[w] \in BeforePause \union {"mark_finished"} =>
               pc[w] \in BeforePause
        /\ pc'[w] # "set_final"
    BY <1>StartRun, Leads, ZenonT(30) DEF StartRun, broker, locals
  <2>2. \A j \in Job : status'[j] = status[j] \/ status'[j] \notin Final
    BY <1>StartRun, Zenon DEF StartRun, states
  <2> QED
    BY <1>StartRun, <2>1, <2>2, RecordQuiet, Zenon DEF Process
<1>NoPendingInput. ASSUME NEW w \in Worker, NoPendingInput(w) PROVE RecordInv'
  <2>1. /\ UNCHANGED hashes /\ UNCHANGED <<msg, requested, ready, delayed>>
        /\ pc'[w] \in AfterStart => pc[w] \in AfterStart
        /\ pc'[w] \in BeforePause \union {"mark_finished"} =>
               pc[w] \in BeforePause
        /\ pc'[w] # "set_final"
    BY <1>NoPendingInput, Leads, ZenonT(30) DEF NoPendingInput, broker, locals
  <2>2. \A j \in Job : status'[j] = status[j] \/ status'[j] \notin Final
    BY <1>NoPendingInput, Zenon DEF NoPendingInput, states
  <2> QED
    BY <1>NoPendingInput, <2>1, <2>2, RecordQuiet, Zenon DEF Process
<1>Book. ASSUME NEW w \in Worker, Book(w) PROVE RecordInv'
  <2>1. /\ UNCHANGED hashes /\ UNCHANGED <<msg, requested, ready, delayed>>
        /\ pc'[w] \in AfterStart => pc[w] \in AfterStart
        /\ pc'[w] \in BeforePause \union {"mark_finished"} =>
               pc[w] \in BeforePause
        /\ pc'[w] # "set_final"
    BY <1>Book, Leads, ZenonT(30) DEF Book, broker, locals
  <2>2. \A j \in Job : status'[j] = status[j] \/ status'[j] \notin Final
    BY <1>Book, Zenon DEF Book, states
  <2> QED
    BY <1>Book, <2>1, <2>2, RecordQuiet, Zenon DEF Process
<1>Complete. ASSUME NEW w \in Worker, Complete(w) PROVE RecordInv'
  <2>1. /\ UNCHANGED hashes /\ UNCHANGED <<msg, requested, ready, delayed>>
        /\ pc'[w] \in AfterStart => pc[w] \in AfterStart
        /\ pc'[w] \in BeforePause \union {"mark_finished"} =>
               pc[w] \in BeforePause
        /\ pc'[w] # "set_final"
    BY <1>Complete, Leads, ZenonT(30) DEF Complete, broker, locals
  <2>2. \A j \in Job : status'[j] = status[j] \/ status'[j] \notin Final
    BY <1>Complete, Zenon DEF Complete, states
  <2> QED
    BY <1>Complete, <2>1, <2>2, RecordQuiet, Zenon DEF Process
<1>EndFailed. ASSUME NEW w \in Worker, EndFailed(w) PROVE RecordInv'
  <2>1. /\ UNCHANGED hashes /\ UNCHANGED <<msg, requested, ready, delayed>>
        /\ pc'[w] \in AfterStart => pc[w] \in AfterStart
        /\ pc'[w] \in BeforePause \union {"mark_finished"} =>
               pc[w] \in BeforePause
        /\ pc'[w] # "set_final"
    BY <1>EndFailed, Leads, Zenon DEF EndFailed, broker, locals
  <2>2. \A j \in Job : status'[j] = status[j] \/ status'[j] \notin Final
    BY <1>EndFailed, Zenon DEF EndFailed, states
  <2> QED
    BY <1>EndFailed, <2>1, <2>2, RecordQuiet, Zenon DEF Process
<1>FailRun. ASSUME NEW w \in Worker, FailRun(w) PROVE RecordInv'
  <2>1. /\ UNCHANGED hashes /\ UNCHANGED <<msg, requested, ready, delayed>>
        /\ pc'[w] \in AfterStart => pc[w] \in AfterStart
        /\ pc'[w] \in BeforePause \union {"mark_finished"} =>
               pc[w] \in BeforePause
        /\ pc'[w] # "set_final"
    BY <1>FailRun, Leads, ZenonT(30) DEF FailRun, broker, locals
  <2>2. \A j \in Job : status'[j] = status[j] \/ status'[j] \notin Final
    BY <1>FailRun, Zenon DEF FailRun, states
  <2> QED
    BY <1>FailRun, <2>1, <2>2, RecordQuiet, Zenon DEF Process
<1>SetProcessing. ASSUME NEW w \in Worker, SetProcessing(w) PROVE RecordInv'
  <2>1. /\ UNCHANGED hashes /\ UNCHANGED <<msg, requested, ready, delayed>>
        /\ pc'[w] \in AfterStart => pc[w] \in AfterStart
        /\ pc'[w] \in BeforePause \union {"mark_finished"} =>
               pc[w] \in BeforePause
        /\ pc'[w] # "set_final"
    BY <1>SetProcessing, Leads, ZenonT(30) DEF SetProcessing, broker, locals
  <2>2. SetJobStatus(JobOf(w), "processing") \/ UNCHANGED states
    BY <1>SetProcessing, ZenonT(30) DEF SetProcessing, FailJobStatus
  <2>3. JobOf(w) \in Job
    BY <1>SetProcessing, OneMoves, ZenonT(30) DEF Process, AtWork
  <2>4. \A j \in Job : status'[j] = status[j] \/ status'[j] \notin Final
    BY <2>2, <2>3, StatusWrite DEF Final
  <2> QED
    BY <1>SetProcessing, <2>1, <2>4, RecordQuiet, Zenon DEF Process
<1>SetRetrying. ASSUME NEW w \in Worker, SetRetrying(w) PROVE RecordInv'
  <2>1. /\ UNCHANGED hashes /\ UNCHANGED <<msg, requested, ready, delayed>>
        /\ pc'[w] \in AfterStart => pc[w] \in AfterStart
        /\ pc'[w] \in BeforePause \union {"mark_finished"} =>
               pc[w] \in BeforePause
        /\ pc'[w] # "set_final"
    BY <1>SetRetrying, Leads, Zenon DEF SetRetrying, broker, locals
  <2>2. SetJobStatus(JobOf(w), "retrying") \/ UNCHANGED states
    BY <1>SetRetrying, ZenonT(30) DEF SetRetrying, FailJobStatus
  <2>3. JobOf(w) \in Job
    BY <1>SetRetrying, OneMoves, ZenonT(30) DEF Process, AtWork
  <2>4. \A j \in Job : status'[j] = status[j] \/ status'[j] \notin Final
    BY <2>2, <2>3, StatusWrite DEF Final
  <2> QED
    BY <1>SetRetrying, <2>1, <2>4, RecordQuiet, Zenon DEF Process
<1>SetFailed. ASSUME NEW w \in Worker, SetFailed(w) PROVE RecordInv'
  <2>1. /\ UNCHANGED hashes /\ UNCHANGED <<msg, requested, ready, delayed>>
        /\ pc'[w] \in AfterStart => pc[w] \in AfterStart
        /\ pc'[w] \in BeforePause \union {"mark_finished"} =>
               pc[w] \in BeforePause
        /\ pc'[w] # "set_final"
    BY <1>SetFailed, Leads, ZenonT(30) DEF SetFailed, broker, locals
  <2>2. SetJobStatus(JobOf(w), "failed") \/ UNCHANGED states
    BY <1>SetFailed, ZenonT(30) DEF SetFailed, FailJobStatus
  <2>3. JobOf(w) \in Job
    BY <1>SetFailed, OneMoves, ZenonT(30) DEF Process, AtWork
  <2>4. \A j \in Job : status'[j] = status[j] \/ status'[j] \notin Final
    BY <2>2, <2>3, StatusWrite DEF Final
  <2> QED
    BY <1>SetFailed, <2>1, <2>4, RecordQuiet, Zenon DEF Process
<1>Unwind. ASSUME NEW w \in Worker, Unwind(w) PROVE RecordInv'
  <2>1. /\ UNCHANGED hashes /\ UNCHANGED <<msg, requested, ready, delayed>>
        /\ pc'[w] \in AfterStart => pc[w] \in AfterStart
        /\ pc'[w] \in BeforePause \union {"mark_finished"} =>
               pc[w] \in BeforePause
        /\ pc'[w] # "set_final"
    BY <1>Unwind, Leads, ZenonT(30) DEF Unwind, broker
  <2>2. \A j \in Job : status'[j] = status[j] \/ status'[j] \notin Final
    BY <1>Unwind, Zenon DEF Unwind, states
  <2> QED
    BY <1>Unwind, <2>1, <2>2, RecordQuiet, Zenon
<1>DeadLetter. ASSUME NEW w \in Worker, DeadLetter(w) PROVE RecordInv'
  <2>1. /\ UNCHANGED hashes /\ UNCHANGED <<msg, requested, ready, delayed>>
        /\ pc'[w] \in AfterStart => pc[w] \in AfterStart
        /\ pc'[w] \in BeforePause \union {"mark_finished"} =>
               pc[w] \in BeforePause
        /\ pc'[w] # "set_final"
    BY <1>DeadLetter, Leads, ZenonT(30) DEF DeadLetter, broker, locals
  <2>2. \A j \in Job : status'[j] = status[j] \/ status'[j] \notin Final
    BY <1>DeadLetter, Zenon DEF DeadLetter, states
  <2> QED
    BY <1>DeadLetter, <2>1, <2>2, RecordQuiet, ZenonT(30) DEF Process
<1>Settle. ASSUME NEW w \in Worker, Settle(w) PROVE RecordInv'
  <2>1. /\ UNCHANGED hashes /\ UNCHANGED <<msg, requested, ready, delayed>>
        /\ pc'[w] \in AfterStart => pc[w] \in AfterStart
        /\ pc'[w] \in BeforePause \union {"mark_finished"} =>
               pc[w] \in BeforePause
        /\ pc'[w] # "set_final"
    BY <1>Settle, Leads, ZenonT(30) DEF Settle, broker, locals, Raise
  <2>2. \A j \in Job : status'[j] = status[j] \/ status'[j] \notin Final
    BY <1>Settle, Zenon DEF Settle, states
  <2> QED
    BY <1>Settle, <2>1, <2>2, RecordQuiet, Zenon DEF Process
<1>Pause. ASSUME NEW w \in Worker, Pause(w) PROVE RecordInv'
  <2>1. /\ UNCHANGED hashes /\ UNCHANGED <<msg, status, ready, delayed>>
        /\ requested' = [requested EXCEPT ![w] = TRUE]
        /\ pc[w] = "running" /\ pc'[w] = "set_metadata"
    BY <1>Pause, Leads, ZenonT(30) DEF Pause, broker, states
  <2>2. AtWork(w) /\ \A v \in Worker : v # w => pc'[v] = pc[v]
    BY <1>Pause, OneMoves, ZenonT(30) DEF Process
  <2>3. \A v \in Worker : v # w => requested'[v] = requested[v]
    BY <2>1 DEF TypeInv, TypeWorker
  <2>4. Grows
    BY <2>1 DEF Grows, hashes
  <2>5. Recorded(w)'
    <3>1. Recorded(w) /\ JobOf(w)' = JobOf(w)
      BY <2>1 DEF RecordInv, JobOf
    <3> QED
      BY <2>1, <3>1 DEF Recorded, Published, hashes, Resting
  <2> QED
    BY <2>1, <2>2, <2>3, <2>4, <2>5, RecordStep, Zenon
<1>MarkStarted. ASSUME NEW w \in Worker, MarkStarted(w) PROVE RecordInv'
  <2> DEFINE j == JobOf(w)
  <2>1. /\ UNCHANGED <<msg, requested, status, ready, delayed, metadata>>
        /\ pc[w] = "mark_started" /\ pc'[w] \in {"run", "unwind"}
    BY <1>MarkStarted, Leads, Zenon DEF MarkStarted, broker, states, locals
  <2>2. AtWork(w) /\ \A v \in Worker : v # w => pc'[v] = pc[v]
    BY <1>MarkStarted, OneMoves, Zenon DEF Process
  <2>3. /\ \/ UNCHANGED timing
           \/ timing' = [timing EXCEPT ![j] = timing[j] \union {"started"}]
        /\ \/ UNCHANGED attempts
           \/ attempts' = [attempts EXCEPT ![j] = att[w] + 1]
        /\ pc'[w] = "run" =>
               /\ timing' = [timing EXCEPT ![j] = timing[j] \union {"started"}]
               /\ attempts' = [attempts EXCEPT ![j] = att[w] + 1]
    BY <1>MarkStarted, Leads, ZenonT(30) DEF MarkStarted
  <2>4. /\ j \in Job /\ att[w] + 1 > 0
        /\ DOMAIN timing = Job /\ DOMAIN attempts = Job
    BY <2>2, JobWorkersAssumption DEF AtWork, TypeInv, TypeStore
  <2> HIDE DEF j
  <2>5. Grows
    BY <2>1, <2>3, <2>4 DEF Grows
  <2>6. pc'[w] = "run" => "started" \in timing'[j] /\ attempts'[j] > 0
    BY <2>3, <2>4
  <2>7. Recorded(w)'
    <3>1. Recorded(w) /\ JobOf(w)' = JobOf(w) /\ j = JobOf(w)
      BY <2>1 DEF RecordInv, JobOf, j
    <3>2. timing[j] \subseteq timing'[j]
      BY <2>4, <2>5 DEF Grows
    <3> QED
      BY <2>1, <2>6, <3>1, <3>2, Zenon DEF Recorded, Published, Resting
  <2> QED
    BY <2>1, <2>2, <2>5, <2>7, RecordStep
<1>SetMetadata. ASSUME NEW w \in Worker, SetMetadata(w) PROVE RecordInv'
  <2> DEFINE j == JobOf(w)
  <2>1. /\ UNCHANGED <<msg, requested, status, ready, delayed, timing, attempts>>
        /\ pc[w] = "set_metadata" /\ pc'[w] \in {"mark_finished", "unwind"}
    BY <1>SetMetadata, Leads, Zenon DEF SetMetadata, broker, states, locals
  <2>2. AtWork(w) /\ \A v \in Worker : v # w => pc'[v] = pc[v]
    BY <1>SetMetadata, OneMoves, Zenon DEF Process
  <2>3. /\ \/ UNCHANGED metadata
           \/ metadata' = [metadata EXCEPT ![j] = TRUE]
        /\ pc'[w] = "mark_finished" => metadata' = [metadata EXCEPT ![j] = TRUE]
    BY <1>SetMetadata, Leads, ZenonT(30) DEF SetMetadata
  <2>4. j \in Job /\ DOMAIN metadata = Job
    BY <2>2 DEF AtWork, TypeInv, TypeStore
  <2> HIDE DEF j
  <2>5. Grows
    BY <2>1, <2>3, <2>4 DEF Grows
  <2>6. pc'[w] = "mark_finished" => metadata'[j]
    BY <2>3, <2>4
  <2>7. Recorded(w)'
    <3>1. Recorded(w) /\ JobOf(w)' = JobOf(w) /\ j = JobOf(w)
      BY <2>1 DEF RecordInv, JobOf, j
    <3> QED
      BY <2>1, <2>6, <3>1, Zenon DEF Recorded, Published, Resting
  <2> QED
    BY <2>1, <2>2, <2>5, <2>7, RecordStep
<1>MarkFinished. ASSUME NEW w \in Worker, MarkFinished(w) PROVE RecordInv'
  <2> DEFINE j == JobOf(w)
  <2>1. /\ UNCHANGED <<msg, requested, status, ready, delayed, metadata, attempts>>
        /\ pc[w] = "mark_finished" /\ pc'[w] \in {"set_final", "unwind"}
    BY <1>MarkFinished, Leads, Zenon DEF MarkFinished, broker, states, locals
  <2>2. AtWork(w) /\ \A v \in Worker : v # w => pc'[v] = pc[v]
    BY <1>MarkFinished, OneMoves, Zenon DEF Process
  <2>3. /\ \/ UNCHANGED timing
           \/ timing' = [timing EXCEPT ![j] = timing[j] \union {"finished"}]
        /\ pc'[w] = "set_final" =>
               timing' = [timing EXCEPT ![j] = timing[j] \union {"finished"}]
    BY <1>MarkFinished, Leads, ZenonT(30) DEF MarkFinished, Finished
  <2>4. j \in Job /\ DOMAIN timing = Job
    BY <2>2 DEF AtWork, TypeInv, TypeStore
  <2> HIDE DEF j
  <2>5. Grows
    BY <2>1, <2>3, <2>4 DEF Grows
  <2>6. pc'[w] = "set_final" => "finished" \in timing'[j]
    BY <2>3, <2>4
  <2>7. Recorded(w)'
    <3>1. Recorded(w) /\ JobOf(w)' = JobOf(w) /\ j = JobOf(w)
      BY <2>1 DEF RecordInv, JobOf, j
    <3>2. timing[j] \subseteq timing'[j]
      BY <2>4, <2>5 DEF Grows
    <3> QED
      BY <2>1, <2>6, <3>1, <3>2, Zenon DEF Recorded, Published, Resting
  <2> QED
    BY <2>1, <2>2, <2>5, <2>7, RecordStep
<1>SetFinal. ASSUME NEW w \in Worker, SetFinal(w) PROVE RecordInv'
  <2> DEFINE i == JobOf(w)
  <2>1. /\ UNCHANGED hashes /\ UNCHANGED <<msg, requested, ready, delayed>>
        /\ pc[w] = "set_final" /\ pc'[w] \in {"ack", "unwind"}
        /\ SetJobStatus(i, FinalStatus(w)) \/ UNCHANGED states
    BY <1>SetFinal, Leads, Zenon DEF SetFinal, FailJobStatus, broker, locals
  <2>2. AtWork(w) /\ \A v \in Worker : v # w => pc'[v] = pc[v]
    BY <1>SetFinal, OneMoves, Zenon DEF Process
  <2>3. Grows
    BY <2>1 DEF Grows, hashes
  <2>4. i \in Job /\ Recorded(w) /\ JobOf(w)' = JobOf(w)
    BY <2>1, <2>2 DEF AtWork, RecordInv, JobOf
  <2>5. /\ timing'[i] = {"published", "started", "finished"}
        /\ attempts'[i] > 0
        /\ requested[w] => metadata'[i]
    <3>1. timing[i] \subseteq {"published", "started", "finished"}
      BY <2>4, Zenon DEF TypeInv, TypeStore
    <3>2. /\ "published" \in timing[i] /\ "started" \in timing[i]
          /\ "finished" \in timing[i]
          /\ attempts[i] > 0
          /\ requested[w] => metadata[i]
      BY <2>1, <2>4 DEF Recorded, Published, Resting
    <3> QED
      BY <2>1, <3>1, <3>2 DEF hashes
  <2>6. FinalStatus(w) = "waiting_for_confirmation" => requested[w]
    BY ZenonT(30) DEF FinalStatus
  <2>7. \A j \in Job : status'[j] = status[j] \/ (j = i /\ status'[j] = FinalStatus(w))
    BY <2>1, <2>4, StatusWrite
  <2> HIDE DEF i
  <2>8. \A j \in Job : \/ status'[j] = status[j] \/ status'[j] \notin Final
                       \/ Backed(j)'
    <3>1. ASSUME NEW j \in Job, j = i, status'[j] = FinalStatus(w)
          PROVE  Backed(j)'
      BY <2>5, <2>6, <3>1 DEF Backed
    <3> QED
      BY <2>7, <3>1
  <2>9. Recorded(w)'
    BY <2>1, <2>4, Zenon DEF Recorded, Published, hashes, Resting
  <2> QED
    BY <2>1, <2>2, <2>3, <2>8, <2>9, RecordStep
<1>MarkFailed. ASSUME NEW w \in Worker, MarkFailed(w) PROVE RecordInv'
  <2> DEFINE j == JobOf(w)
  <2>1. /\ UNCHANGED <<msg, requested, status, ready, delayed, metadata, attempts>>
        /\ pc[w] = "mark_failed" /\ pc'[w] = "dead_letter"
        /\ \/ UNCHANGED timing
           \/ timing' = [timing EXCEPT ![j] = timing[j] \union {"finished"}]
    BY <1>MarkFailed, Leads, Zenon
    DEF MarkFailed, Finished, broker, states, locals
  <2>2. AtWork(w) /\ \A v \in Worker : v # w => pc'[v] = pc[v]
    BY <1>MarkFailed, OneMoves, Zenon DEF Process
  <2>3. j \in Job /\ DOMAIN timing = Job
    BY <2>2 DEF AtWork, TypeInv, TypeStore
  <2> HIDE DEF j
  <2>4. Grows
    BY <2>1, <2>3 DEF Grows
  <2>5. Recorded(w)'
    <3>1. Recorded(w) /\ JobOf(w)' = JobOf(w) /\ j = JobOf(w)
      BY <2>1, Zenon DEF RecordInv, JobOf, j
    <3>2. timing[j] \subseteq timing'[j]
      BY <2>3, <2>4 DEF Grows
    <3> QED
      BY <2>1, <3>1, <3>2, Zenon DEF Recorded, Published, Resting
  <2> QED
    BY <2>1, <2>2, <2>4, <2>5, RecordStep
<1>Delay. ASSUME NEW w \in Worker, Delay(w) PROVE RecordInv'
  <2> DEFINE level == IF pc[w] = "busy" THEN 1 ELSE Clamp(att[w])
  <2>1. /\ UNCHANGED hashes /\ UNCHANGED <<msg, requested, status, ready>>
        /\ pc[w] \notin Resting /\ pc'[w] \in {"ack", "requeue"}
        /\ \/ delayed' = [delayed EXCEPT ![level] = Put(delayed[level], Copy(w))]
           \/ UNCHANGED delayed
    BY <1>Delay, Leads, Zenon DEF Delay, Refused, locals, states, Resting
  <2>2. AtWork(w) /\ \A v \in Worker : v # w => pc'[v] = pc[v]
    BY <1>Delay, OneMoves, Zenon DEF Process
  <2>3. Recorded(w) /\ JobOf(w)' = JobOf(w)
    BY <2>1, Zenon DEF RecordInv, JobOf
  <2>4. Copy(w) \in Envelope /\ Copy(w).id = JobOf(w) /\ Published(JobOf(w))
    BY <2>1, <2>2, <2>3, EnvelopeFacts, Zenon DEF Copy, AtWork, Recorded
  <2> HIDE DEF level
  <2>5. \A l \in Level, m \in Envelope :
            delayed'[l][m] > 0 => delayed[l][m] > 0 \/ Published(m.id)
    <3>1. delayed \in [Level -> [Envelope -> Nat]]
      BY ZenonT(30) DEF TypeInv, TypeBroker
    <3>2. ASSUME NEW l \in Level, NEW m \in Envelope, m # Copy(w)
          PROVE  delayed'[l][m] = delayed[l][m]
      BY <2>1, <2>4, <3>1, <3>2, PutFacts, SMTT(30)
    <3> QED
      BY <2>4, <3>2
  <2>6. Grows
    BY <2>1 DEF Grows, hashes
  <2>7. Recorded(w)'
    BY <2>1, <2>3, Zenon DEF Recorded, Published, hashes, Resting
  <2> QED
    BY <2>1, <2>2, <2>5, <2>6, <2>7, RecordStep
<1>Requeue. ASSUME NEW w \in Worker, Requeue(w) PROVE RecordInv'
  <2>1. /\ UNCHANGED hashes /\ UNCHANGED <<msg, requested, status, delayed>>
        /\ pc[w] = "requeue" /\ pc'[w] \in {"release", "unwind"}
        /\ ready' = IF unacked[w] THEN Put(ready, msg[w]) ELSE ready
    BY <1>Requeue, Leads, Zenon DEF Requeue, Raise, states
  <2>2. AtWork(w) /\ \A v \in Worker : v # w => pc'[v] = pc[v]
    BY <1>Requeue, OneMoves, Zenon DEF Process
  <2>3. Recorded(w) /\ JobOf(w)' = JobOf(w)
    BY <2>1, ZenonT(30) DEF RecordInv, JobOf
  <2>4. Published(msg[w].id)
    BY <2>1, <2>3 DEF Recorded, JobOf, Resting
  <2>5. \A m \in Envelope : ready'[m] > 0 => ready[m] > 0 \/ Published(m.id)
    <3>1. ready \in [Envelope -> Nat] /\ msg[w] \in Envelope
      BY <2>2 DEF TypeInv, TypeBroker, AtWork
    <3>2. \A m \in Envelope : m # msg[w] => ready'[m] = ready[m]
      BY <2>1, <3>1, PutFacts
    <3> QED
      BY <2>4, <3>2
  <2>6. Grows
    BY <2>1 DEF Grows, hashes
  <2>7. Recorded(w)'
    BY <2>1, <2>3, Zenon DEF Recorded, Published, hashes, Resting
  <2> QED
    BY <2>1, <2>2, <2>5, <2>6, <2>7, RecordStep
<1>Leaves. ASSUME NEW w \in Worker, ReleaseConversationLock(w) \/ Crash(w)
           PROVE  RecordInv'
  <2>1. /\ UNCHANGED hashes /\ UNCHANGED <<status, delayed>>
        /\ \/ UNCHANGED ready
           \/ ready' = IF unacked[w] THEN Put(ready, msg[w]) ELSE ready
        /\ pc'[w] \in Resting
        /\ msg' = [msg EXCEPT ![w] = None]
        /\ requested' = [requested EXCEPT ![w] = FALSE]
        /\ pc' = [pc EXCEPT ![w] = pc'[w]]
    BY <1>Leaves, Zenon
    DEF ReleaseConversationLock, Crash, Forget, Goto, broker, states, Resting,
       TypeInv, TypeWorker
  <2>2. \A v \in Worker : v # w => /\ pc'[v] = pc[v] /\ msg'[v] = msg[v]
                                   /\ requested'[v] = requested[v]
    BY <2>1, ZenonT(30) DEF TypeInv, TypeWorker
  <2>3. \A m \in Envelope : ready'[m] > 0 => ready[m] > 0 \/ Published(m.id)
    <3>1. CASE unacked[w]
      <4>1. msg[w] \in Envelope /\ pc[w] \notin Resting
        BY <3>1, ZenonT(30) DEF TypeInv, WorkersLeft
      <4>2. Published(msg[w].id)
        BY <4>1, ZenonT(30) DEF RecordInv, Recorded, JobOf
      <4>3. \A m \in Envelope : m # msg[w] => ready'[m] = ready[m]
        BY <2>1, <4>1, PutFacts DEF TypeInv, TypeBroker
      <4> QED
        BY <4>2, <4>3
    <3>2. CASE ~unacked[w]
      BY <2>1, <3>2
    <3> QED
      BY <3>1, <3>2
  <2>4. Grows
    BY <2>1, Zenon DEF Grows, hashes
  <2>5. Recorded(w)'
    <3>1. ~requested'[w]
      BY <2>1, Zenon DEF TypeInv, TypeWorker
    <3> QED
      BY <2>1, <3>1, Zenon DEF Recorded, Resting
  <2> QED
    BY <2>1, <2>2, <2>3, <2>4, <2>5, RecordStep, Zenon
<1>Deliver. ASSUME NEW w \in Worker, NEW m \in Envelope, Deliver(w, m)
            PROVE  RecordInv'
  <2>1. /\ UNCHANGED hashes /\ UNCHANGED <<status, delayed, requested>>
        /\ pc[w] = "idle" /\ ready[m] > 0
        /\ ready' = Take(ready, m)
        /\ msg' = [msg EXCEPT ![w] = m]
        /\ pc' = [pc EXCEPT ![w] = "get_status"]
    BY <1>Deliver, ZenonT(30) DEF Deliver, Goto, states
  <2>2. /\ pc'[w] = "get_status" /\ msg'[w] = m
        /\ \A v \in Worker : v # w => pc'[v] = pc[v] /\ msg'[v] = msg[v]
    BY <2>1, ZenonT(30) DEF TypeInv, TypeWorker
  <2>3. \A e \in Envelope : ready'[e] > 0 => ready[e] > 0
    BY <2>1, TakeFacts, ZenonT(30) DEF TypeInv, TypeBroker
  <2>4. Grows
    BY <2>1 DEF Grows, hashes
  <2>5. Recorded(w)'
    <3>1. ~requested[w] /\ Published(m.id)
      BY <2>1, ZenonT(30) DEF RecordInv, Recorded, QueuedPublished
    <3> QED
      BY <2>1, <2>2, <3>1, ZenonT(30) DEF Recorded, Published, JobOf, hashes
  <2> QED
    BY <2>1, <2>2, <2>3, <2>4, <2>5, RecordStep
<1>Restart. ASSUME NEW w \in Worker, Restart(w) PROVE RecordInv'
  <2>1. /\ UNCHANGED hashes
        /\ UNCHANGED <<status, ready, delayed, requested, msg>>
        /\ pc[w] = "down" /\ pc' = [pc EXCEPT ![w] = "idle"]
    BY <1>Restart, Zenon DEF Restart, Goto, states, broker
  <2>2. pc'[w] = "idle" /\ \A v \in Worker : v # w => pc'[v] = pc[v]
    BY <2>1, Zenon DEF TypeInv, TypeWorker
  <2>3. Grows
    BY <2>1, Zenon DEF Grows, hashes
  <2>4. Recorded(w)'
    BY <2>1, <2>2, Zenon DEF RecordInv, Recorded, Resting
  <2> QED
    BY <2>1, <2>2, <2>3, <2>4, RecordStep
<1>Disconnect. ASSUME NEW w \in Worker, Disconnect(w) PROVE RecordInv'
  <2>1. /\ UNCHANGED hashes
        /\ UNCHANGED <<status, delayed, requested, msg, pc>>
        /\ ready' = IF unacked[w] THEN Put(ready, msg[w]) ELSE ready
    BY <1>Disconnect, ZenonT(30) DEF Disconnect, states
  <2>2. \A m \in Envelope : ready'[m] > 0 => ready[m] > 0 \/ Published(m.id)
    <3>1. CASE unacked[w]
      <4>1. msg[w] \in Envelope /\ pc[w] \notin Resting
        BY <3>1, Zenon DEF TypeInv, WorkersLeft
      <4>2. Published(msg[w].id)
        BY <4>1, ZenonT(30) DEF RecordInv, Recorded, JobOf
      <4>3. \A m \in Envelope : m # msg[w] => ready'[m] = ready[m]
        BY <2>1, <4>1, PutFacts DEF TypeInv, TypeBroker
      <4> QED
        BY <4>2, <4>3
    <3>2. CASE ~unacked[w]
      BY <2>1, <3>2
    <3> QED
      BY <3>1, <3>2
  <2>3. Grows
    BY <2>1, Zenon DEF Grows, hashes
  <2>4. Recorded(w)'
    BY <2>1, <2>3, RecordedKept DEF RecordInv
  <2> QED
    BY <2>1, <2>2, <2>3, <2>4, RecordStep, Zenon
<1>Publish. ASSUME NEW i \in Job, Publish(i) PROVE RecordInv'
  <2> DEFINE m == [id |-> i, attempt |-> 0]
  <2>1. /\ UNCHANGED <<delayed, pc, msg, requested, attempts, metadata>>
        /\ SetJobStatus(i, "published")
        /\ timing' = [timing EXCEPT ![i] = timing[i] \union {"published"}]
        /\ ready' = Put(ready, m)
    BY <1>Publish, Zenon DEF Publish, locals
  <2>2. m \in Envelope /\ m.id = i /\ ready \in [Envelope -> Nat]
    BY EnvelopeFacts, JobWorkersAssumption DEF TypeInv, TypeBroker
  <2> HIDE DEF m
  <2>3. Grows /\ Published(i)'
    BY <2>1, Zenon DEF Grows, Published, TypeInv, TypeStore
  <2>4. \A e \in Envelope : e # m => ready'[e] = ready[e]
    BY <2>1, <2>2, PutFacts, Zenon
  <2>5. QueuedPublished'
    <3>1. \A e \in Envelope : Published(e.id) => Published(e.id)'
      BY <2>3, EnvelopeFacts, Zenon DEF Published, Grows
    <3> QED
      BY <2>1, <2>2, <2>3, <2>4, <3>1, Zenon DEF RecordInv, QueuedPublished
  <2>6. \A j \in Job : status'[j] = status[j] \/ status'[j] \notin Final
    BY <2>1, StatusWrite DEF Final
  <2>7. \A j \in Job : Backed(j)'
    BY <2>3, <2>6, BackedKept, Zenon DEF RecordInv
  <2>8. \A w \in Worker : Recorded(w)'
    BY <2>1, <2>3, RecordedKept, Zenon DEF RecordInv
  <2> QED
    BY <2>5, <2>7, <2>8, Zenon DEF RecordInv
<1>DelayExpires. ASSUME NEW l \in Level, NEW m \in Envelope, DelayExpires(l, m)
                 PROVE  RecordInv'
  <2>1. /\ UNCHANGED hashes /\ UNCHANGED <<status, requested, msg, pc>>
        /\ delayed[l][m] > 0
        /\ delayed' = [delayed EXCEPT ![l] = Take(delayed[l], m)]
        /\ ready' = Put(ready, m)
    BY <1>DelayExpires, Zenon DEF DelayExpires, states, locals
  <2>2. /\ ready \in [Envelope -> Nat]
        /\ delayed \in [Level -> [Envelope -> Nat]]
    BY Zenon DEF TypeInv, TypeBroker
  <2>3. Published(m.id)
    BY <2>1, Zenon DEF RecordInv, QueuedPublished
  <2>4. \A e \in Envelope : ready'[e] > 0 => ready[e] > 0 \/ Published(e.id)
    BY <2>1, <2>2, <2>3, PutFacts, Zenon
  <2>5. \A k \in Level, e \in Envelope : delayed'[k][e] > 0 => delayed[k][e] > 0
    BY <2>1, <2>2, TakeFacts, SMTT(30)
  <2>6. Grows
    BY <2>1, ZenonT(30) DEF Grows, hashes
  <2>7. QueuedPublished'
    BY <2>4, <2>5, <2>6, QueuedKept, Zenon DEF RecordInv
  <2>8. \A j \in Job : Backed(j)'
    BY <2>1, <2>6, BackedKept, ZenonT(30) DEF RecordInv
  <2>9. \A w \in Worker : Recorded(w)'
    BY <2>1, <2>6, RecordedKept, Zenon DEF RecordInv
  <2> QED
    BY <2>7, <2>8, <2>9, Zenon DEF RecordInv
<1>Others. CASE \/ UNCHANGED vars
                \/ \E c \in Conversation : Expire(c)
                \/ \E w \in Worker : Reconnect(w)
  <2>1. /\ UNCHANGED hashes
        /\ UNCHANGED <<status, ready, delayed, requested, msg, pc>>
    BY <1>Others, Zenon DEF vars, Expire, Reconnect, states, broker, locals
  <2>2. Grows
    BY <2>1, Zenon DEF Grows, hashes
  <2>3. QueuedPublished'
    BY <2>1, <2>2, QueuedKept, Zenon DEF RecordInv
  <2>4. \A j \in Job : Backed(j)'
    BY <2>1, <2>2, BackedKept, Zenon DEF RecordInv
  <2>5. \A w \in Worker : Recorded(w)'
    BY <2>1, <2>2, RecordedKept, Zenon DEF RecordInv
  <2> QED
    BY <2>3, <2>4, <2>5, Zenon DEF RecordInv
<1> QED
  BY <1>GetJobStatus, <1>AcquireConversationLock, <1>SetProcessing,
     <1>MarkStarted, <1>StartRun, <1>NoPendingInput, <1>Pause, <1>Book,
     <1>Complete, <1>EndFailed, <1>FailRun, <1>SetMetadata, <1>MarkFinished,
     <1>SetFinal, <1>SetRetrying, <1>Delay, <1>SetFailed, <1>MarkFailed,
     <1>DeadLetter, <1>Settle, <1>Requeue, <1>Unwind, <1>Leaves, <1>Publish,
     <1>Deliver, <1>DelayExpires, <1>Disconnect, <1>Restart, <1>Others, Zenon
     DEF Next, Step, Process

\* The empty system satisfies RecordInv.
LEMMA InitRecordInv == ASSUME Init PROVE RecordInv
<1>1. QueuedPublished
  <2>1. /\ \A m \in Envelope : ready[m] = 0
        /\ \A l \in Level, m \in Envelope : delayed[l][m] = 0
    BY Zenon DEF Init
  <2> QED
    BY <2>1 DEF QueuedPublished
<1>2. \A j \in Job : Backed(j)
  BY Zenon DEF Init, Backed, Final
<1>3. \A w \in Worker : Recorded(w)
  BY Zenon DEF Init, Recorded, Resting, AfterStart
<1> QED
  BY <1>1, <1>2, <1>3, Zenon DEF RecordInv

\* Whoever reads completed or waiting_for_confirmation finds the timestamps,
\* the attempt count and the metadata that belong to it, whatever workers,
\* crashes, lost connections and failed Redis calls interleave.
THEOREM FinalIsBacked == Spec => []FinalStatusIsBacked
<1>1. Init => RecordInv
  BY InitRecordInv, Zenon
<1>2. RecordInv => FinalStatusIsBacked
  BY Zenon DEF RecordInv, Backed, Final, FinalStatusIsBacked
<1>3. TypeInv /\ TypeInv' /\ RecordInv /\ [Next]_vars => RecordInv'
  BY NextRecordInv, Zenon
<1> QED
  BY <1>1, <1>2, <1>3, InitTypeInv, NextTypeInv, PTL DEF Spec

-----------------------------------------------------------------------------
(* Only used-up start messages are dead-lettered.                          *)

\* The labels of _dead_letter() up to its publish.
Failing == {"set_failed", "mark_failed", "dead_letter"}

\* A worker that is about to dead-letter a start message has counted the last
\* attempt: the other ways there are for resumes and invalid payloads only.
Exhausted(w) ==
    /\ pc[w] \in Failing /\ Kind[JobOf(w)] = "message" => att[w] = MaxAttempts
    /\ pc[w] = "booked" => Kind[JobOf(w)] # "message"

ExhaustInv == DeadOnlyWhenExhausted /\ \A w \in Worker : Exhausted(w)

\* A step of one worker that dead-letters nothing.
LEMMA ExhaustStep ==
    ASSUME ExhaustInv, UNCHANGED dead, NEW w \in Worker, Exhausted(w)',
           \A v \in Worker : v # w => /\ pc'[v] = pc[v] /\ msg'[v] = msg[v]
                                      /\ att'[v] = att[v]
    PROVE  ExhaustInv'
<1>1. DeadOnlyWhenExhausted'
  BY Zenon DEF ExhaustInv, DeadOnlyWhenExhausted
<1>2. \A v \in Worker : Exhausted(v)'
  BY Zenon DEF ExhaustInv, Exhausted, JobOf
<1> QED
  BY <1>1, <1>2, Zenon DEF ExhaustInv

\* A step of _process(), or its end by an exception, counts for one worker.
LEMMA OneCounts ==
    ASSUME TypeInv, NEW w \in Worker, Process(w) \/ Unwind(w)
    PROVE  \A v \in Worker : v # w => att'[v] = att[v]
<1>1. Unwind(w) => Moves(w)
  BY Working, RetryMoves, Zenon DEF Unwind, Resting
<1>2. Moves(w)
  BY <1>1, ProcessMoves, Zenon
<1> QED
  BY <1>2, Zenon DEF Moves

\* A call that does not lead to _dead_letter() or to a booking.
LEMMA ExhaustMoves ==
    ASSUME TypeInv, ExhaustInv, NEW w \in Worker, Process(w),
           UNCHANGED <<dead, msg>>, pc'[w] \notin Failing \union {"booked"}
    PROVE  ExhaustInv'
BY OneMoves, OneCounts, ExhaustStep, ZenonT(30) DEF Exhausted

\* _retry() gives up only when the last attempt is counted.
LEMMA ExhaustRetry ==
    ASSUME TypeInv, ExhaustInv, NEW w \in Worker, Process(w) \/ Unwind(w),
           retry(w), UNCHANGED <<dead, msg>>
    PROVE  ExhaustInv'
<1>1. AtWork(w)
  BY OneMoves, Zenon
<1>2. /\ pc'[w] \in {"set_failed", "set_retrying"}
      /\ pc'[w] = "set_failed" => att'[w] = MaxAttempts
  <2> DEFINE n == msg[w].attempt + 1
  <2>1. n \in 0..MaxAttempts
    BY <1>1, EnvelopeFacts, JobWorkersAssumption DEF AtWork
  <2>2. pc'[w] = RetryTarget(n) /\ att'[w] = n
    BY ZenonT(30) DEF retry, Goto, TypeInv, TypeWorker
  <2> HIDE DEF n
  <2> QED
    BY <2>1, <2>2, CountFacts, Zenon DEF RetryTarget
<1>3. Exhausted(w)'
  BY <1>2, Zenon DEF Exhausted, Failing
<1> QED
  BY <1>3, OneMoves, OneCounts, ExhaustStep, Zenon

\* Every step preserves ExhaustInv.
LEMMA NextExhaustInv ==
    ASSUME TypeInv, ExhaustInv, [Next]_vars
    PROVE  ExhaustInv'
<1>AcquireConversationLock. ASSUME NEW w \in Worker, AcquireConversationLock(w) PROVE ExhaustInv'
  <2>1. /\ UNCHANGED <<dead, msg>>
        /\ pc'[w] \notin Failing \union {"booked"}
    BY <1>AcquireConversationLock, Leads, ZenonT(30)
    DEF AcquireConversationLock, broker, Failing
  <2> QED
    BY <1>AcquireConversationLock, <2>1, ExhaustMoves, Zenon DEF Process
<1>SetProcessing. ASSUME NEW w \in Worker, SetProcessing(w) PROVE ExhaustInv'
  <2>1. /\ UNCHANGED <<dead, msg>>
        /\ pc'[w] \notin Failing \union {"booked"}
    BY <1>SetProcessing, Leads, Zenon DEF SetProcessing, broker, Failing
  <2> QED
    BY <1>SetProcessing, <2>1, ExhaustMoves, ZenonT(30) DEF Process
<1>MarkStarted. ASSUME NEW w \in Worker, MarkStarted(w) PROVE ExhaustInv'
  <2>1. /\ UNCHANGED <<dead, msg>>
        /\ pc'[w] \notin Failing \union {"booked"}
    BY <1>MarkStarted, Leads, Zenon DEF MarkStarted, broker, Failing
  <2> QED
    BY <1>MarkStarted, <2>1, ExhaustMoves, Zenon DEF Process
<1>StartRun. ASSUME NEW w \in Worker, StartRun(w) PROVE ExhaustInv'
  <2>1. /\ UNCHANGED <<dead, msg>>
        /\ pc'[w] \notin Failing \union {"booked"}
    BY <1>StartRun, Leads, Zenon DEF StartRun, broker, Failing
  <2> QED
    BY <1>StartRun, <2>1, ExhaustMoves, ZenonT(30) DEF Process
<1>Pause. ASSUME NEW w \in Worker, Pause(w) PROVE ExhaustInv'
  <2>1. /\ UNCHANGED <<dead, msg>>
        /\ pc'[w] \notin Failing \union {"booked"}
    BY <1>Pause, Leads, Zenon DEF Pause, broker, Failing
  <2> QED
    BY <1>Pause, <2>1, ExhaustMoves, Zenon DEF Process
<1>Complete. ASSUME NEW w \in Worker, Complete(w) PROVE ExhaustInv'
  <2>1. /\ UNCHANGED <<dead, msg>>
        /\ pc'[w] \notin Failing \union {"booked"}
    BY <1>Complete, Leads, Zenon DEF Complete, broker, Failing
  <2> QED
    BY <1>Complete, <2>1, ExhaustMoves, Zenon DEF Process
<1>SetMetadata. ASSUME NEW w \in Worker, SetMetadata(w) PROVE ExhaustInv'
  <2>1. /\ UNCHANGED <<dead, msg>>
        /\ pc'[w] \notin Failing \union {"booked"}
    BY <1>SetMetadata, Leads, Zenon DEF SetMetadata, broker, Failing
  <2> QED
    BY <1>SetMetadata, <2>1, ExhaustMoves, Zenon DEF Process
<1>MarkFinished. ASSUME NEW w \in Worker, MarkFinished(w) PROVE ExhaustInv'
  <2>1. /\ UNCHANGED <<dead, msg>>
        /\ pc'[w] \notin Failing \union {"booked"}
    BY <1>MarkFinished, Leads, Zenon DEF MarkFinished, broker, Failing
  <2> QED
    BY <1>MarkFinished, <2>1, ExhaustMoves, Zenon DEF Process
<1>SetFinal. ASSUME NEW w \in Worker, SetFinal(w) PROVE ExhaustInv'
  <2>1. /\ UNCHANGED <<dead, msg>>
        /\ pc'[w] \notin Failing \union {"booked"}
    BY <1>SetFinal, Leads, Zenon DEF SetFinal, broker, Failing
  <2> QED
    BY <1>SetFinal, <2>1, ExhaustMoves, ZenonT(30) DEF Process
<1>SetRetrying. ASSUME NEW w \in Worker, SetRetrying(w) PROVE ExhaustInv'
  <2>1. /\ UNCHANGED <<dead, msg>>
        /\ pc'[w] \notin Failing \union {"booked"}
    BY <1>SetRetrying, Leads, Zenon DEF SetRetrying, broker, Failing
  <2> QED
    BY <1>SetRetrying, <2>1, ExhaustMoves, Zenon DEF Process
<1>Delay. ASSUME NEW w \in Worker, Delay(w) PROVE ExhaustInv'
  <2>1. /\ UNCHANGED <<dead, msg>>
        /\ pc'[w] \notin Failing \union {"booked"}
    BY <1>Delay, Leads, Zenon DEF Delay, broker, Failing
  <2> QED
    BY <1>Delay, <2>1, ExhaustMoves, Zenon DEF Process
<1>Settle. ASSUME NEW w \in Worker, Settle(w) PROVE ExhaustInv'
  <2>1. /\ UNCHANGED <<dead, msg>>
        /\ pc'[w] \notin Failing \union {"booked"}
    BY <1>Settle, Leads, Zenon DEF Settle, broker, Raise, Failing
  <2> QED
    BY <1>Settle, <2>1, ExhaustMoves, Zenon DEF Process
<1>Requeue. ASSUME NEW w \in Worker, Requeue(w) PROVE ExhaustInv'
  <2>1. /\ UNCHANGED <<dead, msg>>
        /\ pc'[w] \notin Failing \union {"booked"}
    BY <1>Requeue, Leads, Zenon DEF Requeue, broker, Raise, Failing
  <2> QED
    BY <1>Requeue, <2>1, ExhaustMoves, Zenon DEF Process
<1>GetJobStatus. ASSUME NEW w \in Worker, GetJobStatus(w) PROVE ExhaustInv'
  <2>1. /\ UNCHANGED <<dead, msg>>
        /\ pc'[w] \in {"ack", "set_failed", "lock", "unwind"}
        /\ pc'[w] = "set_failed" => Kind[JobOf(w)] = "invalid"
    BY <1>GetJobStatus, Leads, Zenon DEF GetJobStatus, StatusTarget, broker
  <2>2. Exhausted(w)'
    BY <2>1, Zenon DEF Exhausted, Failing, JobOf
  <2> QED
    BY <1>GetJobStatus, <2>1, <2>2, OneMoves, OneCounts, ExhaustStep, Zenon
    DEF Process
<1>NoPendingInput. ASSUME NEW w \in Worker, NoPendingInput(w) PROVE ExhaustInv'
  <2>1. /\ UNCHANGED <<dead, msg>> /\ pc'[w] = "set_failed"
        /\ Kind[JobOf(w)] # "message"
    BY <1>NoPendingInput, Leads, Zenon DEF NoPendingInput, broker
  <2>2. Exhausted(w)'
    BY <2>1, Zenon DEF Exhausted, JobOf
  <2> QED
    BY <1>NoPendingInput, <2>1, <2>2, OneMoves, OneCounts, ExhaustStep, Zenon
    DEF Process
<1>EndFailed. ASSUME NEW w \in Worker, EndFailed(w) PROVE ExhaustInv'
  <2>1. /\ UNCHANGED <<dead, msg>> /\ pc'[w] = "set_failed"
        /\ Kind[JobOf(w)] # "message"
    BY <1>EndFailed, Leads, Zenon DEF EndFailed, broker, ExhaustInv, Exhausted
  <2>2. Exhausted(w)'
    BY <2>1, Zenon DEF Exhausted, JobOf
  <2> QED
    BY <1>EndFailed, <2>1, <2>2, OneMoves, OneCounts, ExhaustStep, Zenon
    DEF Process
<1>Book. ASSUME NEW w \in Worker, Book(w) PROVE ExhaustInv'
  <2>1. /\ UNCHANGED <<dead, msg>> /\ pc'[w] = "booked"
        /\ Kind[JobOf(w)] # "message"
    BY <1>Book, Leads, Zenon DEF Book, broker
  <2>2. Exhausted(w)'
    BY <2>1, Zenon DEF Exhausted, Failing, JobOf
  <2> QED
    BY <1>Book, <2>1, <2>2, OneMoves, OneCounts, ExhaustStep, Zenon DEF Process
<1>FailRun. ASSUME NEW w \in Worker, FailRun(w) PROVE ExhaustInv'
  <2>1. retry(w) /\ UNCHANGED <<dead, msg>>
    BY <1>FailRun, Zenon DEF FailRun, broker
  <2> QED
    BY <1>FailRun, <2>1, ExhaustRetry, Zenon DEF Process
<1>Unwind. ASSUME NEW w \in Worker, Unwind(w) PROVE ExhaustInv'
  <2>1. retry(w) /\ UNCHANGED <<dead, msg>>
    BY <1>Unwind, Zenon DEF Unwind, broker
  <2> QED
    BY <1>Unwind, <2>1, ExhaustRetry, Zenon
<1>DeadLetterSteps. ASSUME NEW w \in Worker, SetFailed(w) \/ MarkFailed(w)
                    PROVE  ExhaustInv'
  <2>1. /\ UNCHANGED <<dead, msg, att>> /\ pc[w] \in Failing
        /\ pc'[w] \in Failing
    BY <1>DeadLetterSteps, Leads, Zenon
       DEF SetFailed, MarkFailed, broker, Failing
  <2>2. Exhausted(w)'
    BY <2>1, Zenon DEF ExhaustInv, Exhausted, JobOf, Failing
  <2> QED
    BY <1>DeadLetterSteps, <2>1, <2>2, OneMoves, OneCounts, ExhaustStep, Zenon
       DEF Process
<1>DeadLetter. ASSUME NEW w \in Worker, DeadLetter(w) PROVE ExhaustInv'
  <2>1. /\ UNCHANGED <<msg, att>> /\ pc[w] = "dead_letter"
        /\ pc'[w] \in {"ack", "drop"}
        /\ UNCHANGED dead \/ dead' = Put(dead, Copy(w))
    BY <1>DeadLetter, Leads, Zenon DEF DeadLetter, Refused
  <2>2. AtWork(w) /\ \A v \in Worker : v # w => pc'[v] = pc[v]
    BY <1>DeadLetter, OneMoves, Zenon DEF Process
  <2>3. /\ Copy(w) \in Envelope /\ Copy(w).id = JobOf(w)
        /\ Copy(w).attempt = att[w]
    BY <2>2, EnvelopeFacts, Zenon DEF Copy, AtWork
  <2>4. Kind[JobOf(w)] = "message" => att[w] = MaxAttempts
    BY <2>1, Zenon DEF ExhaustInv, Exhausted, Failing
  <2>5. \A m \in Envelope : m # Copy(w) => dead'[m] = dead[m]
    BY <2>1, <2>3, PutFacts, ZenonT(30) DEF TypeInv, TypeBroker
  <2>6. DeadOnlyWhenExhausted'
    BY <2>3, <2>4, <2>5, Zenon DEF ExhaustInv, DeadOnlyWhenExhausted
  <2>7. \A v \in Worker : Exhausted(v)'
    BY <2>1, <2>2, Zenon DEF ExhaustInv, Exhausted, JobOf, Failing
  <2> QED
    BY <2>6, <2>7, Zenon DEF ExhaustInv
<1>Leaves. ASSUME NEW w \in Worker, ReleaseConversationLock(w) \/ Crash(w)
           PROVE  ExhaustInv'
  <2>1. /\ UNCHANGED dead /\ pc'[w] \in Resting
        /\ \A v \in Worker : v # w => /\ pc'[v] = pc[v] /\ msg'[v] = msg[v]
                                      /\ att'[v] = att[v]
    BY <1>Leaves, Zenon
    DEF ReleaseConversationLock, Crash, Forget, Goto, broker, Resting, TypeInv,
       TypeWorker
  <2>2. Exhausted(w)'
    BY <2>1, Zenon DEF Exhausted, Failing, Resting
  <2> QED
    BY <2>1, <2>2, ExhaustStep, Zenon
<1>Begins. ASSUME NEW w \in Worker,
                  Restart(w) \/ \E m \in Envelope : Deliver(w, m)
           PROVE  ExhaustInv'
  <2>1. /\ UNCHANGED dead /\ pc'[w] \in {"idle", "get_status"}
        /\ \A v \in Worker : v # w => /\ pc'[v] = pc[v] /\ msg'[v] = msg[v]
                                      /\ att'[v] = att[v]
    BY <1>Begins, ZenonT(30)
    DEF Restart, Deliver, Goto, broker, TypeInv, TypeWorker
  <2>2. Exhausted(w)'
    BY <2>1, Zenon DEF Exhausted, Failing
  <2> QED
    BY <2>1, <2>2, ExhaustStep, Zenon
<1>Others. CASE \/ UNCHANGED vars
                \/ \E j \in Job : Publish(j)
                \/ \E l \in Level, m \in Envelope : DelayExpires(l, m)
                \/ \E c \in Conversation : Expire(c)
                \/ \E w \in Worker : Disconnect(w) \/ Reconnect(w)
  <2>1. UNCHANGED <<dead, msg, pc, att>>
    BY <1>Others, Zenon DEF vars, Publish, DelayExpires, Expire, Disconnect,
       Reconnect, broker
  <2> QED
    BY <2>1, Zenon DEF ExhaustInv, DeadOnlyWhenExhausted, Exhausted, JobOf
<1> QED
  BY <1>GetJobStatus, <1>AcquireConversationLock, <1>SetProcessing,
     <1>MarkStarted, <1>StartRun, <1>NoPendingInput, <1>Pause, <1>Book,
     <1>Complete, <1>EndFailed, <1>FailRun, <1>SetMetadata, <1>MarkFinished,
     <1>SetFinal, <1>SetRetrying, <1>Delay, <1>DeadLetterSteps,
     <1>DeadLetter, <1>Settle, <1>Requeue, <1>Unwind, <1>Leaves, <1>Begins,
     <1>Others, Zenon DEF Next, Step, Process

\* A start message reaches the dead queue only after its last attempt, never
\* for a busy conversation or an early error.
THEOREM DeadIsExhausted == Spec => []DeadOnlyWhenExhausted
<1>1. Init => ExhaustInv
  <2> SUFFICES ASSUME Init PROVE ExhaustInv
    BY Zenon
  <2>1. \A m \in Envelope : dead[m] = 0
    BY Zenon DEF Init
  <2>2. \A w \in Worker : Exhausted(w)
    BY Zenon DEF Init, Exhausted, Failing
  <2> QED
    BY <2>1, <2>2 DEF ExhaustInv, DeadOnlyWhenExhausted
<1>2. ExhaustInv => DeadOnlyWhenExhausted
  BY Zenon DEF ExhaustInv
<1>3. TypeInv /\ ExhaustInv /\ [Next]_vars => ExhaustInv'
  BY NextExhaustInv, Zenon
<1> QED
  BY <1>1, <1>2, <1>3, InitTypeInv, NextTypeInv, PTL DEF Spec

-----------------------------------------------------------------------------
(* Mutual exclusion.                                                       *)

\* A worker with an armed unlock really owns the lock, and every label
\* between the lock and the final status has it armed.
LockInv ==
    \A w \in Worker :
        /\ held[w] => /\ pc[w] \notin Resting
                      /\ lock[Conv(w)] = JobOf(w)
                      /\ owner[Conv(w)] = w
        /\ pc[w] \in InJob => held[w]

\* A step that leaves the locks, the deliveries and the armed unlocks alone.
LEMMA LockFrame ==
    ASSUME TypeInv, LockInv, UNCHANGED locks, UNCHANGED msg, UNCHANGED held,
           \A w \in Worker : /\ held[w] => pc'[w] \notin Resting
                             /\ pc'[w] \in InJob => pc[w] \in InJob
    PROVE  LockInv'
BY Zenon DEF LockInv, locks, Conv, JobOf

\* A step of process() other than the lock is such a step.
LEMMA LockMoves ==
    ASSUME TypeInv, LockInv, NEW w \in Worker, Process(w), pc[w] # "lock",
           UNCHANGED locks, UNCHANGED msg, UNCHANGED held
    PROVE  LockInv'
<1>1. AtWork(w) /\ Moves(w)
  BY ProcessMoves, Zenon
<1>2. ASSUME NEW v \in Worker
      PROVE  /\ held[v] => pc'[v] \notin Resting
             /\ pc'[v] \in InJob => pc[v] \in InJob
  BY <1>1, ZenonT(30) DEF Moves, LockInv, TypeInv, TypeWorker, InJob
<1> QED
  BY <1>2, LockFrame, Zenon

\* Every step preserves LockInv when locks do not expire under their holder.
LEMMA NextLockInv ==
    ASSUME ~SlowRuns, TypeInv, LockInv, [Next]_vars
    PROVE  LockInv'
<1>GetJobStatus. ASSUME NEW w \in Worker, GetJobStatus(w) PROVE LockInv'
  BY <1>GetJobStatus, LockMoves, Zenon DEF Process, GetJobStatus, locals
<1>SetProcessing. ASSUME NEW w \in Worker, SetProcessing(w) PROVE LockInv'
  BY <1>SetProcessing, LockMoves, Zenon DEF Process, SetProcessing, locals
<1>MarkStarted. ASSUME NEW w \in Worker, MarkStarted(w) PROVE LockInv'
  BY <1>MarkStarted, LockMoves, Zenon DEF Process, MarkStarted, locals
<1>StartRun. ASSUME NEW w \in Worker, StartRun(w) PROVE LockInv'
  BY <1>StartRun, LockMoves, Zenon DEF Process, StartRun, locals
<1>Pause. ASSUME NEW w \in Worker, Pause(w) PROVE LockInv'
  BY <1>Pause, LockMoves, Zenon DEF Process, Pause, locals
<1>Book. ASSUME NEW w \in Worker, Book(w) PROVE LockInv'
  BY <1>Book, LockMoves, Zenon DEF Process, Book, locals
<1>Complete. ASSUME NEW w \in Worker, Complete(w) PROVE LockInv'
  BY <1>Complete, LockMoves, Zenon DEF Process, Complete, locals
<1>NoPendingInput. ASSUME NEW w \in Worker, NoPendingInput(w) PROVE LockInv'
  BY <1>NoPendingInput, LockMoves, Zenon DEF Process, NoPendingInput, locals
<1>EndFailed. ASSUME NEW w \in Worker, EndFailed(w) PROVE LockInv'
  BY <1>EndFailed, LockMoves, Zenon DEF Process, EndFailed, locals
<1>FailRun. ASSUME NEW w \in Worker, FailRun(w) PROVE LockInv'
  BY <1>FailRun, LockMoves, Zenon DEF Process, FailRun, locals
<1>SetMetadata. ASSUME NEW w \in Worker, SetMetadata(w) PROVE LockInv'
  BY <1>SetMetadata, LockMoves, Zenon DEF Process, SetMetadata, locals
<1>MarkFinished. ASSUME NEW w \in Worker, MarkFinished(w) PROVE LockInv'
  BY <1>MarkFinished, LockMoves, Zenon DEF Process, MarkFinished, locals
<1>SetFinal. ASSUME NEW w \in Worker, SetFinal(w) PROVE LockInv'
  BY <1>SetFinal, LockMoves, Zenon DEF Process, SetFinal, locals
<1>SetRetrying. ASSUME NEW w \in Worker, SetRetrying(w) PROVE LockInv'
  BY <1>SetRetrying, LockMoves, Zenon DEF Process, SetRetrying, locals
<1>Delay. ASSUME NEW w \in Worker, Delay(w) PROVE LockInv'
  BY <1>Delay, LockMoves, Zenon DEF Process, Delay, locals
<1>SetFailed. ASSUME NEW w \in Worker, SetFailed(w) PROVE LockInv'
  BY <1>SetFailed, LockMoves, Zenon DEF Process, SetFailed, locals
<1>MarkFailed. ASSUME NEW w \in Worker, MarkFailed(w) PROVE LockInv'
  BY <1>MarkFailed, LockMoves, ZenonT(30) DEF Process, MarkFailed, locals
<1>DeadLetter. ASSUME NEW w \in Worker, DeadLetter(w) PROVE LockInv'
  BY <1>DeadLetter, LockMoves, Zenon DEF Process, DeadLetter, locals
<1>Settle. ASSUME NEW w \in Worker, Settle(w) PROVE LockInv'
  BY <1>Settle, LockMoves, Zenon DEF Process, Settle, locals
<1>Requeue. ASSUME NEW w \in Worker, Requeue(w) PROVE LockInv'
  BY <1>Requeue, LockMoves, Zenon DEF Process, Requeue, locals
<1>AcquireConversationLock. ASSUME NEW w \in Worker, AcquireConversationLock(w)
  PROVE LockInv'
  <2>1. AtWork(w) /\ Moves(w)
    BY <1>AcquireConversationLock, ProcessMoves, Zenon DEF Process
  <2>2. \A v \in Worker : held[v] => Conv(v) \in Conversation /\ JobOf(v) \in Job
    BY Working, ZenonT(30) DEF LockInv, AtWork
  <2>3. CASE LockFree(w) /\ TakeLock(w) /\ held' = [held EXCEPT ![w] = TRUE]
    <3>1. \A v \in Worker : held[v] => Conv(v) # Conv(w)
      BY <2>2, <2>3, JobWorkersAssumption, Zenon DEF LockFree, LockInv
    <3>2. /\ lock' = [lock EXCEPT ![Conv(w)] = JobOf(w)]
          /\ owner' = [owner EXCEPT ![Conv(w)] = w]
          /\ UNCHANGED msg
      BY <1>AcquireConversationLock, <2>3, Zenon
      DEF TakeLock, AcquireConversationLock
    <3>3. ASSUME NEW v \in Worker, v # w
          PROVE  /\ held'[v] => /\ pc'[v] \notin Resting
                                /\ lock'[Conv(v)] = JobOf(v)
                                /\ owner'[Conv(v)] = v
                 /\ pc'[v] \in InJob => held'[v]
      BY <2>1, <2>2, <2>3, <3>1, <3>2, <3>3, Zenon
         DEF LockInv, Moves, TypeInv, TypeWorker, TypeLocks
    <3>4. /\ held'[w] /\ pc'[w] \notin Resting
          /\ lock'[Conv(w)] = JobOf(w) /\ owner'[Conv(w)] = w
      BY <2>1, <2>3, <3>2, ZenonT(30)
      DEF Moves, AtWork, TypeInv, TypeWorker, TypeLocks
    <3> QED
      BY <3>2, <3>3, <3>4, ZenonT(30) DEF LockInv, Conv, JobOf
  <2>4. CASE UNCHANGED held /\ pc'[w] \notin InJob
    <3>1. CASE UNCHANGED locks
      <4>1. ASSUME NEW v \in Worker
            PROVE  /\ held[v] => pc'[v] \notin Resting
                   /\ pc'[v] \in InJob => pc[v] \in InJob
        <5>1. /\ pc'[w] \notin Resting
              /\ v # w => pc'[v] = pc[v]
          BY <2>1, Zenon DEF Moves, AtWork, TypeInv, TypeWorker
        <5>2. held[v] => pc[v] \notin Resting
          BY Zenon DEF LockInv
        <5> QED
          BY <2>4, <5>1, <5>2, Zenon
      <4> QED
        BY <1>AcquireConversationLock, <2>4, <3>1, <4>1, LockFrame, Zenon
           DEF AcquireConversationLock
    <3>2. CASE LockFree(w) /\ TakeLock(w)
      <4>1. \A v \in Worker : held[v] => Conv(v) # Conv(w)
        BY <2>2, <3>2, JobWorkersAssumption, Zenon DEF LockFree, LockInv
      <4>2. /\ lock' = [lock EXCEPT ![Conv(w)] = JobOf(w)]
            /\ owner' = [owner EXCEPT ![Conv(w)] = w]
            /\ UNCHANGED msg
        BY <1>AcquireConversationLock, <3>2, Zenon DEF TakeLock,
           AcquireConversationLock
      <4>3. ASSUME NEW v \in Worker
            PROVE  /\ held'[v] => /\ pc'[v] \notin Resting
                                  /\ lock'[Conv(v)] = JobOf(v)
                                  /\ owner'[Conv(v)] = v
                   /\ pc'[v] \in InJob => held'[v]
        BY <2>1, <2>2, <2>4, <4>1, <4>2, ZenonT(30)
           DEF LockInv, Moves, TypeInv, TypeWorker, TypeLocks
      <4> QED
        BY <4>2, <4>3, Zenon DEF LockInv, Conv, JobOf
    <3> QED
      BY <1>AcquireConversationLock, <3>1, <3>2, Zenon
      DEF AcquireConversationLock
  <2>5. Goto(w, "busy") \/ Goto(w, "unwind") => pc'[w] \notin InJob
    BY ZenonT(30) DEF Goto, InJob, TypeInv, TypeWorker
  <2> QED
    BY <1>AcquireConversationLock, <2>3, <2>4, <2>5, Zenon
       DEF AcquireConversationLock
<1>Leaves. ASSUME NEW w \in Worker,
                  ReleaseConversationLock(w) \/ Unwind(w)
           PROVE  LockInv'
  <2>1. AtWork(w) /\ Unlock(w)
    BY <1>Leaves, Working, Zenon DEF ReleaseConversationLock, Unwind, Resting
  <2>2. held' = [held EXCEPT ![w] = FALSE]
    BY <1>Leaves, Zenon DEF ReleaseConversationLock, Unwind, Forget
  <2>3. /\ pc'[w] \notin InJob
        /\ \A v \in Worker : v # w => pc'[v] = pc[v] /\ msg'[v] = msg[v]
    BY <1>Leaves, Zenon
    DEF ReleaseConversationLock, Unwind, Forget, retry, Goto, RetryTarget,
       InJob, TypeInv, TypeWorker
  <2>4. ASSUME NEW v \in Worker, v # w, held[v]
        PROVE  lock'[Conv(v)] = lock[Conv(v)] /\ owner'[Conv(v)] = owner[Conv(v)]
    <3>1. Conv(v) \in Conversation
      BY <2>4, Working, ZenonT(30) DEF LockInv, AtWork
    <3>2. held[w] => Conv(v) # Conv(w)
      BY <2>4, Zenon DEF LockInv
    <3> QED
      BY <2>1, <3>1, <3>2, Zenon
         DEF Unlock, DropLock, locks, AtWork, TypeInv, TypeLocks
  <2>5. ~held'[w] /\ \A v \in Worker : v # w => held'[v] = held[v]
    BY <2>2, Zenon DEF TypeInv, TypeWorker
  <2>6. ASSUME NEW v \in Worker, v # w
        PROVE  /\ held'[v] => /\ pc'[v] \notin Resting
                              /\ lock'[Conv(v)'] = JobOf(v)'
                              /\ owner'[Conv(v)'] = v
               /\ pc'[v] \in InJob => held'[v]
    <3>1. Conv(v)' = Conv(v) /\ JobOf(v)' = JobOf(v)
      BY <2>3, <2>6, Zenon DEF Conv, JobOf
    <3>2. /\ held[v] => /\ pc[v] \notin Resting
                        /\ lock[Conv(v)] = JobOf(v) /\ owner[Conv(v)] = v
          /\ pc[v] \in InJob => held[v]
      BY Zenon DEF LockInv
    <3> QED
      BY <2>3, <2>4, <2>5, <2>6, <3>1, <3>2, Zenon
  <2> QED
    BY <2>3, <2>5, <2>6, Zenon DEF LockInv
<1>Publish. ASSUME NEW j \in Job, Publish(j) PROVE LockInv'
  BY <1>Publish, LockFrame, ZenonT(30) DEF Publish, locals, LockInv
<1>Deliver. ASSUME NEW w \in Worker, NEW m \in Envelope, Deliver(w, m)
  PROVE LockInv'
  <2>1. pc[w] = "idle" /\ ~held[w]
    BY <1>Deliver, Zenon DEF Deliver, LockInv, Resting
  <2>2. /\ pc' = [pc EXCEPT ![w] = "get_status"]
        /\ msg' = [msg EXCEPT ![w] = m]
        /\ UNCHANGED <<held, lock, owner>>
    BY <1>Deliver, Zenon DEF Deliver, Goto, locks
  <2>3. pc'[w] \notin InJob
    BY <2>2, Zenon DEF InJob, TypeInv, TypeWorker
  <2>4. ASSUME NEW v \in Worker, v # w PROVE pc'[v] = pc[v] /\ msg'[v] = msg[v]
    BY <2>2, <2>4, Zenon DEF TypeInv, TypeWorker
  <2> QED
    <3>1. ASSUME NEW v \in Worker, v # w
          PROVE  /\ held'[v] => /\ pc'[v] \notin Resting
                                /\ lock'[Conv(v)'] = JobOf(v)'
                                /\ owner'[Conv(v)'] = v
                 /\ pc'[v] \in InJob => held'[v]
      <4>1. Conv(v)' = Conv(v) /\ JobOf(v)' = JobOf(v)
        BY <2>4, <3>1, Zenon DEF Conv, JobOf
      <4>2. /\ held[v] => /\ pc[v] \notin Resting
                          /\ lock[Conv(v)] = JobOf(v) /\ owner[Conv(v)] = v
            /\ pc[v] \in InJob => held[v]
        BY Zenon DEF LockInv
      <4> QED
        BY <2>2, <2>4, <3>1, <4>1, <4>2, Zenon
    <3>2. ~held'[w]
      BY <2>1, <2>2, Zenon
    <3> QED
      BY <2>3, <3>1, <3>2, Zenon DEF LockInv
<1>DelayExpires. ASSUME NEW l \in Level, NEW m \in Envelope, DelayExpires(l, m)
  PROVE LockInv'
  BY <1>DelayExpires, LockFrame, ZenonT(30) DEF DelayExpires, locals, LockInv
<1>Expire. ASSUME NEW c \in Conversation, Expire(c) PROVE LockInv'
  <2>1. /\ UNCHANGED <<pc, msg, held>>
        /\ \A v \in Worker : held[v] => Conv(v) # c
        /\ lock' = [lock EXCEPT ![c] = None]
        /\ owner' = [owner EXCEPT ![c] = None]
    BY <1>Expire, Zenon DEF Expire, locals
  <2>2. \A v \in Worker : held[v] => Conv(v) \in Conversation
    BY Working, ZenonT(30) DEF LockInv, AtWork
  <2>3. \A v \in Worker : held[v] => /\ lock'[Conv(v)] = lock[Conv(v)]
                                     /\ owner'[Conv(v)] = owner[Conv(v)]
    BY <2>1, <2>2, ZenonT(30) DEF TypeInv, TypeLocks
  <2> QED
    BY <2>1, <2>3, ZenonT(30) DEF LockInv, Conv, JobOf
<1>Disconnect. ASSUME NEW w \in Worker, Disconnect(w) PROVE LockInv'
  BY <1>Disconnect, LockFrame, Zenon DEF Disconnect, LockInv
<1>Reconnect. ASSUME NEW w \in Worker, Reconnect(w) PROVE LockInv'
  BY <1>Reconnect, LockFrame, Zenon DEF Reconnect, LockInv
<1>Crash. ASSUME NEW w \in Worker, Crash(w) PROVE LockInv'
  <2>1. /\ msg' = [msg EXCEPT ![w] = None]
        /\ held' = [held EXCEPT ![w] = FALSE]
        /\ pc' = [pc EXCEPT ![w] = "down"]
        /\ UNCHANGED <<lock, owner>>
    BY <1>Crash, Zenon DEF Crash, Forget, Goto, locks
  <2>2. ASSUME NEW v \in Worker, v # w
        PROVE  held'[v] = held[v] /\ pc'[v] = pc[v] /\ msg'[v] = msg[v]
    BY <2>1, <2>2, Zenon DEF TypeInv, TypeWorker
  <2>3. ~held'[w] /\ pc'[w] = "down"
    BY <2>1, Zenon DEF TypeInv, TypeWorker
  <2> QED
    BY <2>1, <2>2, <2>3 DEF LockInv, Conv, JobOf, InJob
<1>Restart. ASSUME NEW w \in Worker, Restart(w) PROVE LockInv'
  <2>1. /\ pc[w] = "down" /\ pc' = [pc EXCEPT ![w] = "idle"]
        /\ UNCHANGED <<msg, held, lock, owner>>
    BY <1>Restart, Zenon DEF Restart, Goto, locks
  <2>2. ASSUME NEW v \in Worker
        PROVE  /\ held[v] => pc'[v] \notin Resting
               /\ pc'[v] \in InJob => pc[v] \in InJob
    BY <2>1, ZenonT(30) DEF LockInv, InJob, Resting, TypeInv, TypeWorker
  <2> QED
    BY <2>1, <2>2, LockFrame, Zenon DEF locks
<1>Stutter. CASE UNCHANGED vars
  BY <1>Stutter, LockFrame, Zenon DEF vars, locals, LockInv
<1> QED
  BY <1>GetJobStatus, <1>SetProcessing, <1>MarkStarted, <1>StartRun,
     <1>NoPendingInput, <1>Pause, <1>Book, <1>Complete, <1>EndFailed,
     <1>FailRun, <1>SetMetadata, <1>MarkFinished, <1>SetFinal, <1>SetRetrying,
     <1>Delay, <1>SetFailed, <1>MarkFailed, <1>DeadLetter, <1>Settle,
     <1>Requeue, <1>AcquireConversationLock, <1>Leaves, <1>Publish, <1>Deliver,
     <1>DelayExpires, <1>Expire, <1>Disconnect, <1>Crash, <1>Reconnect,
     <1>Restart, <1>Stutter, Zenon DEF Next, Step, Process

\* No conversation has two jobs in _process() at once, whatever crashes, lost
\* connections and failed Redis calls occur, as long as no lock expires under
\* the worker that holds it.
THEOREM MutualExclusion ==
    ASSUME ~SlowRuns
    PROVE  Spec => []OneJobPerConversation
<1>1. Init => LockInv
  BY Zenon DEF Init, LockInv, InJob
<1>2. TypeInv /\ LockInv => OneJobPerConversation
  BY Zenon DEF LockInv, OneJobPerConversation
<1>3. TypeInv /\ LockInv /\ [Next]_vars => LockInv'
  BY NextLockInv, ZenonT(30)
<1> QED
  BY <1>1, <1>2, <1>3, InitTypeInv, NextTypeInv, PTL DEF Spec

-----------------------------------------------------------------------------
(* One booking per confirmation.                                           *)

\* No process died and no store call failed.
Quiet == crashes = 0 /\ storeFaults = 0

\* The rows of a conversation rest on different questions that were asked and
\* are no longer open.
AskThread(c) ==
    /\ open[c] \in 0..asked[c]
    /\ \A i \in DOMAIN changes[c] :
           /\ changes[c][i].ask \in 1..asked[c] \ {open[c]}
           /\ \A k \in DOMAIN changes[c] :
                  changes[c][i].ask = changes[c][k].ask => i = k

\* While a run goes on its thread waits on nothing, and no row rests on the
\* question a resumed run answers.
AskWorker(w) ==
    pc[w] = "running" =>
        /\ open[Conv(w)] = 0
        /\ Kind[JobOf(w)] # "message" =>
               /\ answering[w] \in 1..asked[Conv(w)]
               /\ \A i \in DOMAIN changes[Conv(w)] :
                      changes[Conv(w)][i].ask # answering[w]

AskInv == /\ \A c \in Conversation : AskThread(c)
          /\ \A w \in Worker : AskWorker(w)

\* A step counts the store call that fails in it, and the process that dies.
Counts == /\ storeFaults' = storeFaults \/ StoreFault
          /\ crashes' = crashes \/ crashes' = crashes + 1

\* Every step counts so.
LEMMA NextCounts == ASSUME [Next]_vars PROVE Counts
<1> USE DEF Counts
<1>GetJobStatus. ASSUME NEW w \in Worker, GetJobStatus(w) PROVE Counts
  BY <1>GetJobStatus, Zenon DEF GetJobStatus, deaths
<1>AcquireConversationLock. ASSUME NEW w \in Worker, AcquireConversationLock(w) PROVE Counts
  BY <1>AcquireConversationLock, Zenon DEF AcquireConversationLock, deaths
<1>SetProcessing. ASSUME NEW w \in Worker, SetProcessing(w) PROVE Counts
  BY <1>SetProcessing, Zenon DEF SetProcessing, FailJobStatus, deaths
<1>MarkStarted. ASSUME NEW w \in Worker, MarkStarted(w) PROVE Counts
  BY <1>MarkStarted, Zenon DEF MarkStarted, deaths
<1>StartRun. ASSUME NEW w \in Worker, StartRun(w) PROVE Counts
  BY <1>StartRun, Zenon DEF StartRun, deaths
<1>NoPendingInput. ASSUME NEW w \in Worker, NoPendingInput(w) PROVE Counts
  BY <1>NoPendingInput, Zenon DEF NoPendingInput, deaths
<1>Pause. ASSUME NEW w \in Worker, Pause(w) PROVE Counts
  BY <1>Pause, Zenon DEF Pause, deaths
<1>Book. ASSUME NEW w \in Worker, Book(w) PROVE Counts
  BY <1>Book, Zenon DEF Book, deaths
<1>Complete. ASSUME NEW w \in Worker, Complete(w) PROVE Counts
  BY <1>Complete, Zenon DEF Complete, deaths
<1>EndFailed. ASSUME NEW w \in Worker, EndFailed(w) PROVE Counts
  BY <1>EndFailed, Zenon DEF EndFailed, deaths
<1>FailRun. ASSUME NEW w \in Worker, FailRun(w) PROVE Counts
  BY <1>FailRun, Zenon DEF FailRun, deaths
<1>SetMetadata. ASSUME NEW w \in Worker, SetMetadata(w) PROVE Counts
  BY <1>SetMetadata, Zenon DEF SetMetadata, deaths
<1>MarkFinished. ASSUME NEW w \in Worker, MarkFinished(w) PROVE Counts
  BY <1>MarkFinished, Zenon DEF MarkFinished, deaths
<1>SetFinal. ASSUME NEW w \in Worker, SetFinal(w) PROVE Counts
  BY <1>SetFinal, Zenon DEF SetFinal, FailJobStatus, deaths
<1>SetRetrying. ASSUME NEW w \in Worker, SetRetrying(w) PROVE Counts
  BY <1>SetRetrying, Zenon DEF SetRetrying, FailJobStatus, deaths
<1>Delay. ASSUME NEW w \in Worker, Delay(w) PROVE Counts
  BY <1>Delay, Zenon DEF Delay, deaths
<1>SetFailed. ASSUME NEW w \in Worker, SetFailed(w) PROVE Counts
  BY <1>SetFailed, Zenon DEF SetFailed, FailJobStatus, deaths
<1>MarkFailed. ASSUME NEW w \in Worker, MarkFailed(w) PROVE Counts
  BY <1>MarkFailed, Zenon DEF MarkFailed, deaths
<1>DeadLetter. ASSUME NEW w \in Worker, DeadLetter(w) PROVE Counts
  BY <1>DeadLetter, Zenon DEF DeadLetter, deaths
<1>Settle. ASSUME NEW w \in Worker, Settle(w) PROVE Counts
  BY <1>Settle, Zenon DEF Settle, deaths
<1>Requeue. ASSUME NEW w \in Worker, Requeue(w) PROVE Counts
  BY <1>Requeue, Zenon DEF Requeue, deaths
<1>Leaves. ASSUME NEW w \in Worker, Unwind(w) \/ ReleaseConversationLock(w)
           PROVE  Counts
  BY <1>Leaves, Zenon DEF Unwind, ReleaseConversationLock, Unlock, deaths
<1>Publish. ASSUME NEW j \in Job, Publish(j) PROVE Counts
  BY <1>Publish, Zenon DEF Publish, deaths
<1>Deliver. ASSUME NEW w \in Worker, NEW m \in Envelope, Deliver(w, m)
            PROVE  Counts
  BY <1>Deliver, Zenon DEF Deliver, deaths
<1>DelayExpires. ASSUME NEW l \in Level, NEW m \in Envelope, DelayExpires(l, m)
                 PROVE  Counts
  BY <1>DelayExpires, Zenon DEF DelayExpires, deaths
<1>Expire. ASSUME NEW c \in Conversation, Expire(c) PROVE Counts
  BY <1>Expire, Zenon DEF Expire, deaths
<1>Faults. ASSUME NEW w \in Worker,
                  Disconnect(w) \/ Reconnect(w) \/ Crash(w) \/ Restart(w)
           PROVE  Counts
  BY <1>Faults, Zenon DEF Disconnect, Reconnect, Crash, Restart, deaths
<1>Stutter. CASE UNCHANGED vars
  BY <1>Stutter, Zenon DEF vars, deaths
<1> QED
  BY <1>GetJobStatus, <1>SetProcessing, <1>MarkStarted, <1>StartRun,
     <1>NoPendingInput, <1>Pause, <1>Book, <1>Complete, <1>EndFailed,
     <1>FailRun, <1>SetMetadata, <1>MarkFinished, <1>SetFinal, <1>SetRetrying,
     <1>Delay, <1>SetFailed, <1>MarkFailed, <1>DeadLetter, <1>Settle,
     <1>Requeue, <1>AcquireConversationLock, <1>Leaves, <1>Publish, <1>Deliver,
     <1>DelayExpires, <1>Expire, <1>Faults, <1>Stutter, Zenon
  DEF Next, Step, Process

\* So a step into a quiet state starts in one and is itself quiet.
LEMMA QuietSteps ==
    ASSUME TypeInv, [Next]_vars, Quiet'
    PROVE  Quiet /\ ~StoreFault /\ crashes' = crashes
BY NextCounts, SMTT(30) DEF Counts, Quiet, StoreFault, TypeInv, TypeFaults

\* A step that leaves the thread and every run alone.
LEMMA AskFrame ==
    ASSUME AskInv, UNCHANGED <<asked, open, changes>>,
           \A w \in Worker : pc'[w] = "running" =>
               /\ pc'[w] = pc[w] /\ msg'[w] = msg[w]
               /\ answering'[w] = answering[w]
    PROVE  AskInv'
<1>1. (\A c \in Conversation : AskThread(c))'
  BY Zenon DEF AskInv, AskThread
<1>2. ASSUME NEW w \in Worker PROVE AskWorker(w)'
  BY SMTT(30) DEF AskInv, AskWorker, Conv, JobOf
<1> QED
  BY <1>1, <1>2, Zenon DEF AskInv

\* A step of _process() away from the start of the run is such a step.
LEMMA AskMoves ==
    ASSUME TypeInv, AskInv, NEW w \in Worker, Process(w),
           pc[w] # "run" \/ pc'[w] # "running",
           UNCHANGED <<asked, open, changes, msg, answering>>
    PROVE  AskInv'
<1>1. Moves(w)
  BY ProcessMoves, ZenonT(30)
<1>2. ASSUME NEW v \in Worker, pc'[v] = "running"
      PROVE  pc'[v] = pc[v]
  BY <1>1, <1>2, Zenon DEF Moves, TypeInv, TypeWorker
<1> QED
  BY <1>2, AskFrame, ZenonT(30)

\* A step of one run that changes only the thread of its own conversation:
\* the lock keeps the other runs out of it.
LEMMA AskOthers ==
    ASSUME TypeInv, LockInv, AskInv, NEW w \in Worker, Process(w),
           pc[w] \in InJob, UNCHANGED msg,
           \A c \in Conversation : c # Conv(w) =>
               /\ asked'[c] = asked[c] /\ open'[c] = open[c]
               /\ changes'[c] = changes[c],
           \A v \in Worker : v # w => answering'[v] = answering[v]
    PROVE  /\ \A v \in Worker \ {w} : AskWorker(v)'
           /\ \A c \in Conversation \ {Conv(w)} : AskThread(c)'
<1>1. Moves(w)
  BY ProcessMoves, Zenon
<1>2. ASSUME NEW v \in Worker \ {w}
      PROVE  AskWorker(v)'
  <2>1. pc'[v] = pc[v]
    BY <1>1, Zenon DEF Moves, TypeInv, TypeWorker
  <2>2. CASE pc[v] = "running"
    <3>1. Conv(v) \in Conversation
      <4>1. pc[v] \notin Resting
        BY <2>2, Zenon DEF Resting
      <4> QED
        BY <4>1, Working, Zenon DEF AtWork
    <3>2. Conv(v) # Conv(w)
      <4>1. pc[v] \in InJob
        BY <2>2, Zenon DEF InJob
      <4>2. owner[Conv(v)] = v /\ owner[Conv(w)] = w
        BY <4>1, Zenon DEF LockInv
      <4> QED
        BY <4>2, Zenon
    <3>3. Conv(v)' = Conv(v) /\ JobOf(v)' = JobOf(v)
      BY Zenon DEF Conv, JobOf
    <3>4. /\ asked'[Conv(v)] = asked[Conv(v)] /\ open'[Conv(v)] = open[Conv(v)]
          /\ changes'[Conv(v)] = changes[Conv(v)]
          /\ answering'[v] = answering[v]
      BY <3>1, <3>2, Zenon
    <3>5. /\ open'[Conv(v)] = 0
          /\ Kind[JobOf(v)] # "message" =>
                 /\ answering'[v] \in 1..asked'[Conv(v)]
                 /\ \A i \in DOMAIN changes'[Conv(v)] :
                        changes'[Conv(v)][i].ask # answering'[v]
      BY <2>2, <3>4, ZenonT(30) DEF AskInv, AskWorker
    <3> QED
      BY <3>3, <3>5, Zenon DEF AskWorker
  <2> QED
    BY <2>1, <2>2, Zenon DEF AskWorker
<1>3. ASSUME NEW c \in Conversation \ {Conv(w)}
      PROVE  AskThread(c)'
  BY Zenon DEF AskInv, AskThread
<1> QED
  BY <1>2, <1>3, Zenon

\* What remains is the run's own conversation and the run itself.
LEMMA AskOwn ==
    ASSUME TypeInv, LockInv, AskInv, NEW w \in Worker, Process(w),
           pc[w] \in InJob, UNCHANGED msg,
           \A c \in Conversation : c # Conv(w) =>
               /\ asked'[c] = asked[c] /\ open'[c] = open[c]
               /\ changes'[c] = changes[c],
           \A v \in Worker : v # w => answering'[v] = answering[v],
           \A c \in Conversation : c = Conv(w) => AskThread(c)',
           AskWorker(w)'
    PROVE  AskInv'
<1>1. /\ \A v \in Worker \ {w} : AskWorker(v)'
      /\ \A c \in Conversation \ {Conv(w)} : AskThread(c)'
  BY AskOthers, Zenon
<1>2. \A v \in Worker : AskWorker(v)'
  BY <1>1, Zenon
<1>3. \A c \in Conversation : AskThread(c)'
  BY <1>1, Zenon
<1> QED
  BY <1>2, <1>3, Zenon DEF AskInv

\* StartRun answers the open question, if there is one.
LEMMA AskStartRun ==
    ASSUME TypeInv, LockInv, AskInv, NEW w \in Worker, StartRun(w)
    PROVE  AskInv'
<1> DEFINE c == Conv(w)
<1>1. /\ UNCHANGED <<asked, changes, msg>> /\ pc[w] = "run"
      /\ Kind[JobOf(w)] # "message" => open[c] # 0
      /\ answering' = [answering EXCEPT ![w] = open[c]]
      /\ open' = [open EXCEPT ![c] = 0]
  BY Zenon DEF StartRun, Answered
<1>2. c \in Conversation /\ asked[c] \in Nat /\ open[c] \in 0..asked[c]
  BY <1>1, Working, Zenon
  DEF Resting, AtWork, TypeInv, TypeAgent, AskInv, AskThread
<1>3. /\ \A d \in Conversation : d # c => open'[d] = open[d]
      /\ open'[c] = 0 /\ answering'[w] = open[c]
      /\ \A v \in Worker : v # w => answering'[v] = answering[v]
  BY <1>1, <1>2, Zenon DEF TypeInv, TypeAgent, TypeWorker
<1>4. \A i \in DOMAIN changes[c] :
          /\ changes[c][i].ask \in 1..asked[c]
          /\ changes[c][i].ask # open[c]
          /\ \A k \in DOMAIN changes[c] :
                 changes[c][i].ask = changes[c][k].ask => i = k
  BY <1>2, Zenon DEF AskInv, AskThread
<1>5. \A d \in Conversation : d = c => AskThread(d)'
  <2>1. /\ 0 \in 0..asked[c]
        /\ \A n \in 1..asked[c] : n \in 1..asked[c] \ {0}
    BY <1>2
  <2>2. /\ open'[c] \in 0..asked'[c]
        /\ \A i \in DOMAIN changes'[c] :
               changes'[c][i].ask \in 1..asked'[c] \ {open'[c]}
    BY <1>1, <1>3, <1>4, <2>1, Zenon
  <2>3. \A i, k \in DOMAIN changes'[c] :
            changes'[c][i].ask = changes'[c][k].ask => i = k
    BY <1>1, <1>4, Zenon
  <2> HIDE DEF c
  <2> QED
    BY <2>2, <2>3, ZenonT(30) DEF AskThread
<1>6. AskWorker(w)'
  <2>1. Conv(w)' = c /\ JobOf(w)' = JobOf(w)
    BY <1>1, Zenon DEF Conv, JobOf
  <2>2. open[c] # 0 => open[c] \in 1..asked[c]
    BY <1>2
  <2> HIDE DEF c
  <2> QED
    BY <1>1, <1>3, <1>4, <2>1, <2>2, Zenon DEF AskWorker
<1>7. pc[w] \in InJob /\ Process(w)
  BY <1>1, Zenon DEF InJob, Process
<1> QED
  BY <1>1, <1>3, <1>5, <1>6, <1>7, AskOwn, Zenon

\* Pause puts a new question.
LEMMA AskPause ==
    ASSUME TypeInv, LockInv, AskInv, NEW w \in Worker, Pause(w)
    PROVE  AskInv'
<1> DEFINE c == Conv(w)
           n == asked[c] + 1
<1>1. /\ UNCHANGED <<changes, msg, answering>> /\ pc[w] = "running"
      /\ pc' = [pc EXCEPT ![w] = "set_metadata"]
      /\ asked' = [asked EXCEPT ![c] = n]
      /\ open' = [open EXCEPT ![c] = n]
  BY Zenon DEF Pause, Goto
<1>2. c \in Conversation /\ asked[c] \in Nat
  BY <1>1, Working, Zenon DEF Resting, AtWork, TypeInv, TypeAgent
<1>3. /\ \A d \in Conversation : d # c =>
             asked'[d] = asked[d] /\ open'[d] = open[d]
      /\ asked'[c] = n /\ open'[c] = n /\ pc'[w] = "set_metadata"
  BY <1>1, <1>2, Zenon DEF TypeInv, TypeAgent, TypeWorker
<1>4. \A i \in DOMAIN changes[c] :
          /\ changes[c][i].ask \in 1..asked[c]
          /\ \A k \in DOMAIN changes[c] :
                 changes[c][i].ask = changes[c][k].ask => i = k
  BY <1>2, Zenon DEF AskInv, AskThread
<1>5. \A d \in Conversation : d = c => AskThread(d)'
  <2>1. n \in 0..n /\ \A k \in 1..asked[c] : k \in 1..n \ {n}
    BY <1>2
  <2>2. /\ open'[c] \in 0..asked'[c]
        /\ \A i \in DOMAIN changes'[c] :
               changes'[c][i].ask \in 1..asked'[c] \ {open'[c]}
    BY <1>1, <1>3, <1>4, <2>1, Zenon
  <2>3. \A i, k \in DOMAIN changes'[c] :
            changes'[c][i].ask = changes'[c][k].ask => i = k
    BY <1>1, <1>4, ZenonT(30)
  <2> HIDE DEF c, n
  <2> QED
    BY <2>2, <2>3, Zenon DEF AskThread
<1>6. AskWorker(w)'
  BY <1>3, Zenon DEF AskWorker
<1>7. pc[w] \in InJob /\ Process(w)
  BY <1>1, Zenon DEF InJob, Process
<1> QED
  BY <1>1, <1>3, <1>5, <1>6, <1>7, AskOwn, Zenon

\* A run that raises may leave its question open again, which no row rests on.
LEMMA AskFailRun ==
    ASSUME TypeInv, LockInv, AskInv, NEW w \in Worker, FailRun(w), ~StoreFault
    PROVE  AskInv'
<1> DEFINE c == Conv(w)
           q == answering[w]
<1>1. UNCHANGED <<asked, changes, msg, answering>> /\ Process(w)
  BY Zenon DEF FailRun, locals, Process
<1>2. pc'[w] # "running"
  BY Zenon DEF FailRun, retry, Goto, RetryTarget, TypeInv, TypeWorker
<1>3. CASE UNCHANGED open
  BY <1>1, <1>2, <1>3, AskMoves, ZenonT(30)
<1>4. CASE /\ pc[w] = "running" /\ Kind[JobOf(w)] # "message"
           /\ open' = [open EXCEPT ![c] = q]
  <2>1. c \in Conversation /\ asked[c] \in Nat
    BY <1>4, Working, Zenon DEF Resting, AtWork, TypeInv, TypeAgent
  <2>2. open'[c] = q /\ \A d \in Conversation : d # c => open'[d] = open[d]
    BY <1>4, <2>1, ZenonT(30) DEF TypeInv, TypeAgent
  <2>3. q \in 1..asked[c] /\ \A i \in DOMAIN changes[c] : changes[c][i].ask # q
    BY <1>4, Zenon DEF AskInv, AskWorker
  <2>4. \A i \in DOMAIN changes[c] :
            /\ changes[c][i].ask \in 1..asked[c]
            /\ \A k \in DOMAIN changes[c] :
                   changes[c][i].ask = changes[c][k].ask => i = k
    BY <2>1, Zenon DEF AskInv, AskThread
  <2>5. \A d \in Conversation : d = c => AskThread(d)'
    <3>1. q \in 0..asked[c]
      BY <2>1, <2>3, SMTT(30)
    <3> HIDE DEF c, q
    <3> QED
      BY <1>1, <2>2, <2>3, <2>4, <3>1, ZenonT(30) DEF AskThread
  <2>6. AskWorker(w)'
    BY <1>2, Zenon DEF AskWorker
  <2>7. pc[w] \in InJob
    BY <1>4, Zenon DEF InJob
  <2> QED
    BY <1>1, <2>2, <2>5, <2>6, <2>7, AskOwn, Zenon
<1> QED
  BY <1>3, <1>4, ZenonT(30) DEF FailRun, Restore

\* Book adds a row for the question the run answers.
LEMMA AskBook ==
    ASSUME TypeInv, LockInv, AskInv, NEW w \in Worker, Book(w)
    PROVE  AskInv'
<1> DEFINE c == Conv(w)
           r == [job |-> JobOf(w), ask |-> answering[w]]
           n == Len(changes[c]) + 1
<1>1. /\ UNCHANGED <<asked, open, msg, answering>> /\ pc[w] = "running"
      /\ pc' = [pc EXCEPT ![w] = "booked"]
      /\ Kind[JobOf(w)] # "message"
      /\ changes' = [changes EXCEPT ![c] = Append(changes[c], r)]
  BY Zenon DEF Book, Goto, locals
<1>2. AtWork(w)
  BY <1>1, Working, Zenon DEF Resting
<1>3. c \in Conversation /\ changes[c] \in Seq(Row)
  BY <1>2, Zenon DEF AtWork, TypeInv, TypeAgent
<1>4. r \in Row /\ r.ask = answering[w]
  BY <1>2, Zenon DEF AtWork, Row, TypeInv, TypeWorker
<1>5. /\ \A d \in Conversation : d # c => changes'[d] = changes[d]
      /\ changes'[c] = Append(changes[c], r) /\ pc'[w] = "booked"
  BY <1>1, <1>3, ZenonT(30) DEF TypeInv, TypeAgent, TypeWorker
<1>6. /\ DOMAIN changes'[c] = 1..n /\ DOMAIN changes[c] = 1..Len(changes[c])
      /\ Len(changes[c]) \in Nat /\ changes'[c][n] = r
      /\ \A k \in 1..Len(changes[c]) : changes'[c][k] = changes[c][k]
  BY <1>3, <1>4, <1>5, SMTT(30)
<1>7. /\ answering[w] \in 1..asked[c] /\ open[c] = 0
      /\ \A k \in DOMAIN changes[c] : changes[c][k].ask # answering[w]
  BY <1>1, Zenon DEF AskInv, AskWorker
<1>8. \A i \in DOMAIN changes[c] :
          /\ changes[c][i].ask \in 1..asked[c] \ {open[c]}
          /\ \A k \in DOMAIN changes[c] :
                 changes[c][i].ask = changes[c][k].ask => i = k
  BY <1>3, Zenon DEF AskInv, AskThread
<1>9. \A d \in Conversation : d = c => AskThread(d)'
  <2>1. answering[w] \in 1..asked[c] \ {open[c]}
    BY <1>7, SMTT(30)
  <2>2. \A i \in DOMAIN changes'[c] : i = n \/ i \in DOMAIN changes[c]
    BY <1>6, SMTT(30)
  <2>3. ASSUME NEW i \in DOMAIN changes'[c]
        PROVE  changes'[c][i].ask \in 1..asked'[c] \ {open'[c]}
    BY <1>1, <1>4, <1>6, <1>8, <2>1, <2>2, Zenon
  <2>4. ASSUME NEW i \in DOMAIN changes'[c], NEW k \in DOMAIN changes'[c],
               changes'[c][i].ask = changes'[c][k].ask
        PROVE  i = k
    <3>1. /\ i # n => i \in DOMAIN changes[c] /\ changes'[c][i] = changes[c][i]
          /\ k # n => k \in DOMAIN changes[c] /\ changes'[c][k] = changes[c][k]
      BY <1>6, <2>2, ZenonT(30)
    <3>2. changes'[c][n].ask = answering[w]
      BY <1>4, <1>6, Zenon
    <3> HIDE DEF n, r
    <3>3. CASE i # n /\ k # n
      BY <1>8, <2>4, <3>1, <3>3, Zenon
    <3>4. CASE i # n /\ k = n
      BY <1>7, <2>4, <3>1, <3>2, <3>4, Zenon
    <3>5. CASE i = n /\ k # n
      BY <1>7, <2>4, <3>1, <3>2, <3>5, Zenon
    <3> QED
      BY <3>3, <3>4, <3>5, Zenon
  <2>5. open'[c] \in 0..asked'[c]
    BY <1>1, <1>3, ZenonT(30) DEF AskInv, AskThread
  <2> HIDE DEF c
  <2> QED
    BY <2>3, <2>4, <2>5, Zenon DEF AskThread
<1>10. AskWorker(w)'
  BY <1>5, Zenon DEF AskWorker
<1>11. pc[w] \in InJob /\ Process(w)
  BY <1>1, Zenon DEF InJob, Process
<1> QED
  BY <1>1, <1>5, <1>9, <1>10, <1>11, AskOwn, Zenon

\* Every step of a quiet system preserves AskInv.
LEMMA NextAskInv ==
    ASSUME TypeInv, LockInv, AskInv, [Next]_vars, ~StoreFault,
           crashes' = crashes
    PROVE  AskInv'
<1>GetJobStatus. ASSUME NEW w \in Worker, GetJobStatus(w) PROVE AskInv'
  <2>1. pc[w] # "run" /\ UNCHANGED <<asked, open, changes, msg, answering>>
    BY <1>GetJobStatus, Zenon DEF GetJobStatus, agent, locals
  <2> QED
    BY <1>GetJobStatus, <2>1, AskMoves, Zenon DEF Process
<1>AcquireConversationLock. ASSUME NEW w \in Worker, AcquireConversationLock(w) PROVE AskInv'
  <2>1. pc[w] # "run" /\ UNCHANGED <<asked, open, changes, msg, answering>>
    BY <1>AcquireConversationLock, Zenon
    DEF AcquireConversationLock, agent, locals
  <2> QED
    BY <1>AcquireConversationLock, <2>1, AskMoves, Zenon DEF Process
<1>SetProcessing. ASSUME NEW w \in Worker, SetProcessing(w) PROVE AskInv'
  <2>1. pc[w] # "run" /\ UNCHANGED <<asked, open, changes, msg, answering>>
    BY <1>SetProcessing, Zenon DEF SetProcessing, agent, locals
  <2> QED
    BY <1>SetProcessing, <2>1, AskMoves, Zenon DEF Process
<1>MarkStarted. ASSUME NEW w \in Worker, MarkStarted(w) PROVE AskInv'
  <2>1. pc[w] # "run" /\ UNCHANGED <<asked, open, changes, msg, answering>>
    BY <1>MarkStarted, Zenon DEF MarkStarted, agent, locals
  <2> QED
    BY <1>MarkStarted, <2>1, AskMoves, Zenon DEF Process
<1>Complete. ASSUME NEW w \in Worker, Complete(w) PROVE AskInv'
  <2>1. pc[w] # "run" /\ UNCHANGED <<asked, open, changes, msg, answering>>
    BY <1>Complete, Zenon DEF Complete, agent, locals
  <2> QED
    BY <1>Complete, <2>1, AskMoves, Zenon DEF Process
<1>EndFailed. ASSUME NEW w \in Worker, EndFailed(w) PROVE AskInv'
  <2>1. pc[w] # "run" /\ UNCHANGED <<asked, open, changes, msg, answering>>
    BY <1>EndFailed, Zenon DEF EndFailed, agent, locals
  <2> QED
    BY <1>EndFailed, <2>1, AskMoves, Zenon DEF Process
<1>SetMetadata. ASSUME NEW w \in Worker, SetMetadata(w) PROVE AskInv'
  <2>1. pc[w] # "run" /\ UNCHANGED <<asked, open, changes, msg, answering>>
    BY <1>SetMetadata, Zenon DEF SetMetadata, agent, locals
  <2> QED
    BY <1>SetMetadata, <2>1, AskMoves, Zenon DEF Process
<1>MarkFinished. ASSUME NEW w \in Worker, MarkFinished(w) PROVE AskInv'
  <2>1. pc[w] # "run" /\ UNCHANGED <<asked, open, changes, msg, answering>>
    BY <1>MarkFinished, Zenon DEF MarkFinished, agent, locals
  <2> QED
    BY <1>MarkFinished, <2>1, AskMoves, Zenon DEF Process
<1>SetFinal. ASSUME NEW w \in Worker, SetFinal(w) PROVE AskInv'
  <2>1. pc[w] # "run" /\ UNCHANGED <<asked, open, changes, msg, answering>>
    BY <1>SetFinal, Zenon DEF SetFinal, agent, locals
  <2> QED
    BY <1>SetFinal, <2>1, AskMoves, Zenon DEF Process
<1>SetRetrying. ASSUME NEW w \in Worker, SetRetrying(w) PROVE AskInv'
  <2>1. pc[w] # "run" /\ UNCHANGED <<asked, open, changes, msg, answering>>
    BY <1>SetRetrying, Zenon DEF SetRetrying, agent, locals
  <2> QED
    BY <1>SetRetrying, <2>1, AskMoves, Zenon DEF Process
<1>Delay. ASSUME NEW w \in Worker, Delay(w) PROVE AskInv'
  <2>1. pc[w] # "run" /\ UNCHANGED <<asked, open, changes, msg, answering>>
    BY <1>Delay, Zenon DEF Delay, agent, locals
  <2> QED
    BY <1>Delay, <2>1, AskMoves, Zenon DEF Process
<1>SetFailed. ASSUME NEW w \in Worker, SetFailed(w) PROVE AskInv'
  <2>1. pc[w] # "run" /\ UNCHANGED <<asked, open, changes, msg, answering>>
    BY <1>SetFailed, Zenon DEF SetFailed, agent, locals
  <2> QED
    BY <1>SetFailed, <2>1, AskMoves, Zenon DEF Process
<1>MarkFailed. ASSUME NEW w \in Worker, MarkFailed(w) PROVE AskInv'
  <2>1. pc[w] # "run" /\ UNCHANGED <<asked, open, changes, msg, answering>>
    BY <1>MarkFailed, Zenon DEF MarkFailed, agent, locals
  <2> QED
    BY <1>MarkFailed, <2>1, AskMoves, Zenon DEF Process
<1>DeadLetter. ASSUME NEW w \in Worker, DeadLetter(w) PROVE AskInv'
  <2>1. pc[w] # "run" /\ UNCHANGED <<asked, open, changes, msg, answering>>
    BY <1>DeadLetter, Zenon DEF DeadLetter, agent, locals
  <2> QED
    BY <1>DeadLetter, <2>1, AskMoves, Zenon DEF Process
<1>Settle. ASSUME NEW w \in Worker, Settle(w) PROVE AskInv'
  <2>1. pc[w] # "run" /\ UNCHANGED <<asked, open, changes, msg, answering>>
    BY <1>Settle, Zenon DEF Settle, agent, locals
  <2> QED
    BY <1>Settle, <2>1, AskMoves, Zenon DEF Process
<1>Requeue. ASSUME NEW w \in Worker, Requeue(w) PROVE AskInv'
  <2>1. pc[w] # "run" /\ UNCHANGED <<asked, open, changes, msg, answering>>
    BY <1>Requeue, Zenon DEF Requeue, agent, locals
  <2> QED
    BY <1>Requeue, <2>1, AskMoves, Zenon DEF Process
<1>NoPendingInput. ASSUME NEW w \in Worker, NoPendingInput(w) PROVE AskInv'
  <2>1. UNCHANGED <<asked, open, changes, msg, answering>>
    BY <1>NoPendingInput, Zenon DEF NoPendingInput, agent, locals
  <2>2. pc'[w] # "running"
    BY <1>NoPendingInput, Zenon DEF NoPendingInput, Goto, TypeInv, TypeWorker
  <2> QED
    BY <1>NoPendingInput, <2>1, <2>2, AskMoves, Zenon DEF Process
<1>Leaves. ASSUME NEW w \in Worker, Unwind(w) \/ ReleaseConversationLock(w)
           PROVE  AskInv'
  <2>1. /\ UNCHANGED <<asked, open, changes>>
        /\ \A v \in Worker : v # w => /\ msg'[v] = msg[v] /\ pc'[v] = pc[v]
                                      /\ answering'[v] = answering[v]
    BY <1>Leaves, Zenon
    DEF Unwind, ReleaseConversationLock, Forget, retry, Goto, agent, TypeInv,
       TypeWorker
  <2>2. pc'[w] # "running"
    BY <1>Leaves, Zenon
    DEF Unwind, ReleaseConversationLock, Forget, retry, Goto, RetryTarget,
       TypeInv, TypeWorker
  <2> QED
    BY <2>1, <2>2, AskFrame, Zenon
<1>Publish. ASSUME NEW j \in Job, Publish(j) PROVE AskInv'
  BY <1>Publish, AskFrame, Zenon DEF Publish, locals, agent
<1>Deliver. ASSUME NEW w \in Worker, NEW m \in Envelope, Deliver(w, m)
            PROVE  AskInv'
  <2>1. /\ pc' = [pc EXCEPT ![w] = "get_status"]
        /\ msg' = [msg EXCEPT ![w] = m]
        /\ UNCHANGED <<asked, open, changes, answering>>
    BY <1>Deliver, Zenon DEF Deliver, Goto, agent
  <2> QED
    BY <2>1, AskFrame, Zenon DEF TypeInv, TypeWorker
<1>DelayExpires. ASSUME NEW l \in Level, NEW m \in Envelope, DelayExpires(l, m)
                 PROVE  AskInv'
  BY <1>DelayExpires, AskFrame, Zenon DEF DelayExpires, locals, agent
<1>Expire. ASSUME NEW c \in Conversation, Expire(c) PROVE AskInv'
  BY <1>Expire, AskFrame, Zenon DEF Expire, locals, agent
<1>Disconnect. ASSUME NEW w \in Worker, Disconnect(w) PROVE AskInv'
  BY <1>Disconnect, AskFrame, Zenon DEF Disconnect, agent
<1>Reconnect. ASSUME NEW w \in Worker, Reconnect(w) PROVE AskInv'
  BY <1>Reconnect, AskFrame, Zenon DEF Reconnect, agent
<1>Crash. ASSUME NEW w \in Worker, Crash(w) PROVE AskInv'
  BY <1>Crash DEF Crash, TypeInv, TypeFaults
<1>Restart. ASSUME NEW w \in Worker, Restart(w) PROVE AskInv'
  <2>1. /\ UNCHANGED <<asked, open, changes, msg, answering>>
        /\ pc' = [pc EXCEPT ![w] = "idle"]
    BY <1>Restart, Zenon DEF Restart, Goto, agent
  <2> QED
    BY <2>1, AskFrame, Zenon DEF TypeInv, TypeWorker
<1>Stutter. CASE UNCHANGED vars
  BY <1>Stutter, AskFrame, Zenon DEF vars, locals, agent
<1> QED
  BY <1>GetJobStatus, <1>AcquireConversationLock, <1>SetProcessing,
     <1>MarkStarted, <1>Complete, <1>EndFailed, <1>SetMetadata,
     <1>MarkFinished, <1>SetFinal, <1>SetRetrying, <1>Delay, <1>SetFailed,
     <1>MarkFailed, <1>DeadLetter, <1>Settle, <1>Requeue, <1>NoPendingInput,
     <1>Leaves, <1>Publish, <1>Deliver, <1>DelayExpires, <1>Expire,
     <1>Disconnect, <1>Reconnect, <1>Crash, <1>Restart, <1>Stutter,
     AskStartRun, AskPause, AskBook, AskFailRun, Zenon DEF Next, Step, Process

\* While no process died and no store call failed, a confirmation books at
\* most once, whatever lost connections, refused publishes, errors of the
\* agent and redeliveries occur, as long as no lock expires under the worker
\* that holds it.
THEOREM ConfirmationSpentOnce ==
    ASSUME ~SlowRuns
    PROVE  Spec => []OneBookingPerConfirmation
<1>1. Init => LockInv
  BY Zenon DEF Init, LockInv, InJob
<1>2. Init => AskInv
  <2>1. ASSUME Init
        PROVE  /\ \A c \in Conversation :
                      open[c] = 0 /\ asked[c] = 0 /\ changes[c] = <<>>
               /\ \A w \in Worker : pc[w] = "idle"
    BY <2>1, Zenon DEF Init
  <2> QED
    BY <2>1, SMTT(30) DEF AskInv, AskThread, AskWorker
<1>3. (Quiet => AskInv) => OneBookingPerConfirmation
  BY Zenon DEF Quiet, AskInv, AskThread, OneBookingPerConfirmation
<1>4. TypeInv /\ LockInv /\ [Next]_vars => LockInv'
  BY NextLockInv, Zenon
<1>5. TypeInv /\ LockInv /\ (Quiet => AskInv) /\ [Next]_vars
        => (Quiet => AskInv)'
  BY NextAskInv, QuietSteps, Zenon
<1> QED
  BY <1>1, <1>2, <1>3, <1>4, <1>5, InitTypeInv, NextTypeInv, PTL DEF Spec

=============================================================================
