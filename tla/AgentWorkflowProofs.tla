------------------------- MODULE AgentWorkflowProofs -------------------------
(***************************************************************************)
(* Proofs about the rebooking agent, for any reservations, options, jobs,   *)
(* retries and faults: what is booked was offered and confirmed, once per   *)
(* answer, a completed job is its own, and questions are repeated at most   *)
(* max_retries times.                                                       *)
(***************************************************************************)
EXTENDS AgentWorkflow, TLAPS

Checkpoint == [channels : Channels, asking : BOOLEAN]
BookingRow == [by : Job \union {Other}, segment : Segment, option : Option]
Validation == [valid : BOOLEAN, selection : Selection \union {None}]

TypeInv ==
    /\ channels \in Channels
    /\ tasks \in SUBSET Node
    /\ found \in Found \union {None}
    /\ answer \in Answer \union {None}
    /\ saved \in Seq(Checkpoint) /\ saved # <<>>
    /\ run \in Job \union {0}
    /\ jobs \in [Job -> Answer \union {None, Message}]
    /\ outcome \in [Job -> Outcome \union {None}]
    /\ runs \in [Job -> 0..MaxRuns]
    /\ avail \in SUBSET Option
    /\ seat \in [Segment -> Option \union {None}]
    /\ rows \in Seq(BookingRow)
    /\ question \in Found \union {None}
    /\ reasks \in Nat

-----------------------------------------------------------------------------
(* The channels a node relies on.                                          *)

Located(ch) == ch.request \in Request /\ ch.context = ch.request

Searched(ch) == /\ Located(ch)
                /\ ch.search_result \in Found
                /\ ch.search_result.segment \in SegmentsFor(ch.request)

Evaluated(ch) == /\ Searched(ch)
                 /\ ch.evaluation = [request |-> ch.request,
                                     options |-> ch.search_result.options]

\* The channels behind the last question.
Asked(ch) == Evaluated(ch) /\ ch.search_result = question

Answering == run \in Job /\ jobs[run] \in Answer /\ jobs[run] # Message

\* One superstep at a time, and none between two runs.
Shape == /\ run = 0 => tasks = {}
         /\ tasks \in SUBSET Loading \/ \E n \in Node \ Loading : tasks = {n}

BeforeQuestion ==
    /\ tasks = {"understand_request"} => jobs[run] = Message
    /\ tasks = {"get_reservation"} =>
           jobs[run] = Message /\ channels.request \in Request
    /\ (\E n \in Loading \union {"refresh_context"} : n \in tasks) =>
           Located(channels)
    /\ tasks = {"get_travel_credits"} =>
           found \in Found /\ found.segment \in SegmentsFor(channels.request)
    /\ tasks = {"evaluate_options"} => Searched(channels)
    /\ tasks = {"ask_confirmation"} => Evaluated(channels)

\* The answer is the running job's and is about the last question.
AfterAnswer ==
    /\ answer # None => /\ tasks = {"ask_confirmation"} /\ Asked(channels)
                        /\ Answering /\ answer = jobs[run]
    /\ tasks = {"validate_change"} =>
           /\ Answering /\ Asked(channels)
           /\ channels.confirmation = [answer |-> jobs[run],
                                       evaluation |-> channels.evaluation]
    /\ tasks = {"explain_invalid_change"} => Answering /\ Located(channels)
    /\ tasks = {"execute_rebooking"} =>
           /\ Answering /\ jobs[run].confirmed
           /\ jobs[run].selection \in Selection
           /\ channels.validation.selection = jobs[run].selection
           /\ jobs[run].selection.segment = question.segment
           /\ jobs[run].selection.option \in question.options
    /\ tasks = {"verify_rebooking"} =>
           /\ Answering /\ jobs[run].confirmed
           /\ \E n \in DOMAIN rows : rows[n].by = run
    /\ tasks = {"finalize_declined"} => Answering /\ ~jobs[run].confirmed
    /\ tasks = {"finalize_failed"} => channels.final = "failed"

-----------------------------------------------------------------------------
(* What lasts from run to run.                                             *)

\* A checkpoint with an open question belongs to the last question, and every
\* checkpoint has counted the repeated questions.
SavedInv ==
    /\ run = 0 => saved[1].channels = channels
    /\ \A n \in DOMAIN saved :
           /\ saved[n].asking => Asked(saved[n].channels)
           /\ reasks <= saved[n].channels.retry_count

\* Nodes on the way to a question.
Asking == Loading \union {"refresh_context", "evaluate_options",
                          "ask_confirmation"}

\* Before a question is repeated, explain_invalid_change has counted it.
CountInv ==
    /\ reasks <= MaxRetries /\ reasks <= channels.retry_count
    /\ (/\ run # 0 /\ jobs[run] # Message /\ answer = None
        /\ \E n \in Asking : n \in tasks) =>
           reasks + 1 <= channels.retry_count /\ channels.retry_count <= MaxRetries

RunInv == run # 0 => outcome[run] = None /\ runs[run] > 0

\* A row of the conversation is what its job confirmed.
RowsInv ==
    \A n \in DOMAIN rows : rows[n].by # Other =>
        /\ runs[rows[n].by] > 0
        /\ jobs[rows[n].by] \in Answer /\ jobs[rows[n].by] # Message
        /\ jobs[rows[n].by].confirmed
        /\ jobs[rows[n].by].selection = [segment |-> rows[n].segment,
                                         option |-> rows[n].option]

\* The segment has what a row gave it, until another job's row.
SeatInv ==
    \A n \in DOMAIN rows : rows[n].by # Other =>
        \/ seat[rows[n].segment] = rows[n].option
        \/ \E k \in DOMAIN rows : /\ n < k /\ rows[k].by # rows[n].by
                                  /\ rows[k].segment = rows[n].segment

FlowInv == TypeInv /\ Shape /\ BeforeQuestion /\ AfterAnswer
LastInv == SavedInv /\ CountInv /\ RunInv
BookInv == RowsInv /\ SeatInv /\ CompletedIsOwn /\ BookedOncePerAnswer
Inv == FlowInv /\ LastInv /\ BookInv

-----------------------------------------------------------------------------
(* Constants and records.                                                  *)

LEMMA Bounds ==
    /\ MaxRetries \in Nat /\ MaxRuns \in Nat /\ MaxJobs \in Nat
    /\ 0 \notin Job /\ Other \notin Job
    /\ None \notin Answer /\ None \notin Evaluation /\ None \notin Outcome
BY AgentWorkflowAssumption, NoneAssumption DEF Job, Other

LEMMA SegmentFacts ==
    ASSUME NEW r \in Request
    PROVE  /\ SegmentsOf[r.booking] \in Seq(Segment)
           /\ SegmentsFor(r) \in SUBSET Segment
           /\ r.segment # None => SegmentsFor(r) \in SUBSET {r.segment}
           /\ r.segment = None => SegmentsFor(r) \in SUBSET {SegmentsOf[r.booking][1]}
<1>1. SegmentsOf[r.booking] \in Seq(Segment)
  BY AgentWorkflowAssumption DEF Request
<1>2. \A i \in DOMAIN SegmentsOf[r.booking] : SegmentsOf[r.booking][i] \in Segment
  BY <1>1
<1>3. Len(SegmentsOf[r.booking]) = 1 => SegmentsOf[r.booking][1] \in Segment
  BY <1>1, <1>2
<1> QED
  BY <1>1, <1>2, <1>3 DEF SegmentsFor

\* One channel written.
LEMMA ChannelTypes ==
    ASSUME NEW ch \in Channels
    PROVE  /\ ch.request \in Request \union {None}
           /\ ch.context \in Request \union {None}
           /\ ch.search_result \in Found \union {None}
           /\ ch.evaluation \in Evaluation \union {None}
           /\ ch.retry_count \in Nat
BY DEF Channels

LEMMA SetRequest ==
    ASSUME NEW ch \in Channels, NEW r \in Request
    PROVE  \E new \in Channels : /\ new = [ch EXCEPT !.request = r]
                                 /\ new.request = r
                                 /\ new.retry_count = ch.retry_count
<1> DEFINE new == [ch EXCEPT !.request = r]
<1>1. new \in Channels
  BY DEF Channels, Route
<1>2. /\ new.request = r
      /\ new.retry_count = ch.retry_count
  BY DEF Channels
<1> QED
  BY <1>1, <1>2, Zenon

LEMMA SetContext ==
    ASSUME NEW ch \in Channels
    PROVE  \E new \in Channels : /\ new = [ch EXCEPT !.context = ch.request]
                                 /\ new.request = ch.request
                                 /\ new.context = ch.request
                                 /\ new.retry_count = ch.retry_count
<1> DEFINE new == [ch EXCEPT !.context = ch.request]
<1>1. new \in Channels
  BY DEF Channels, Route
<1>2. /\ new.request = ch.request
      /\ new.context = ch.request
      /\ new.retry_count = ch.retry_count
  BY DEF Channels
<1> QED
  BY <1>1, <1>2, Zenon

LEMMA SetSearchResult ==
    ASSUME NEW ch \in Channels, NEW r \in Found
    PROVE  \E new \in Channels : /\ new = [ch EXCEPT !.search_result = r]
                                 /\ new.search_result = r
                                 /\ new.request = ch.request
                                 /\ new.context = ch.context
                                 /\ new.retry_count = ch.retry_count
<1> DEFINE new == [ch EXCEPT !.search_result = r]
<1>1. new \in Channels
  BY DEF Channels, Route
<1>2. /\ new.search_result = r
      /\ new.request = ch.request
      /\ new.context = ch.context
      /\ new.retry_count = ch.retry_count
  BY DEF Channels
<1> QED
  BY <1>1, <1>2, Zenon

LEMMA SetEvaluation ==
    ASSUME NEW ch \in Channels, NEW e \in Evaluation
    PROVE  \E new \in Channels : /\ new = [ch EXCEPT !.evaluation = e]
                                 /\ new.evaluation = e
                                 /\ new.request = ch.request
                                 /\ new.context = ch.context
                                 /\ new.search_result = ch.search_result
                                 /\ new.retry_count = ch.retry_count
<1> DEFINE new == [ch EXCEPT !.evaluation = e]
<1>1. new \in Channels
  BY DEF Channels, Route
<1>2. /\ new.evaluation = e
      /\ new.request = ch.request
      /\ new.context = ch.context
      /\ new.search_result = ch.search_result
      /\ new.retry_count = ch.retry_count
  BY DEF Channels
<1> QED
  BY <1>1, <1>2, Zenon

LEMMA SetConfirmation ==
    ASSUME NEW ch \in Channels, NEW c \in [answer : Answer, evaluation : Evaluation]
    PROVE  \E new \in Channels : /\ new = [ch EXCEPT !.confirmation = c]
                                 /\ new.confirmation = c
                                 /\ new.request = ch.request
                                 /\ new.context = ch.context
                                 /\ new.search_result = ch.search_result
                                 /\ new.evaluation = ch.evaluation
                                 /\ new.retry_count = ch.retry_count
<1> DEFINE new == [ch EXCEPT !.confirmation = c]
<1>1. new \in Channels
  BY DEF Channels, Route
<1>2. /\ new.confirmation = c
      /\ new.request = ch.request
      /\ new.context = ch.context
      /\ new.search_result = ch.search_result
      /\ new.evaluation = ch.evaluation
      /\ new.retry_count = ch.retry_count
  BY DEF Channels
<1> QED
  BY <1>1, <1>2, Zenon

LEMMA SetRoute ==
    ASSUME NEW ch \in Channels, NEW r \in Route
    PROVE  \E new \in Channels : /\ new = [ch EXCEPT !.route = r]
                                 /\ new.request = ch.request
                                 /\ new.context = ch.context
                                 /\ new.final = ch.final
                                 /\ new.validation = ch.validation
                                 /\ new.retry_count = ch.retry_count
<1> DEFINE new == [ch EXCEPT !.route = r]
<1>1. new \in Channels
  BY DEF Channels, Route
<1>2. /\ new.request = ch.request
      /\ new.context = ch.context
      /\ new.final = ch.final
      /\ new.validation = ch.validation
      /\ new.retry_count = ch.retry_count
  BY DEF Channels
<1> QED
  BY <1>1, <1>2, Zenon

LEMMA SetCount ==
    ASSUME NEW ch \in Channels, NEW k \in Nat
    PROVE  \E new \in Channels : /\ new = [ch EXCEPT !.retry_count = k]
                                 /\ new.retry_count = k
                                 /\ new.request = ch.request
                                 /\ new.context = ch.context
<1> DEFINE new == [ch EXCEPT !.retry_count = k]
<1>1. new \in Channels
  BY DEF Channels, Route
<1>2. /\ new.retry_count = k
      /\ new.request = ch.request
      /\ new.context = ch.context
  BY DEF Channels
<1> QED
  BY <1>1, <1>2, Zenon

LEMMA SingletonFacts ==
    ASSUME NEW S, NEW e \in S
    PROVE  /\ <<e>> \in Seq(S) /\ <<e>> # <<>>
           /\ DOMAIN <<e>> = {1} /\ <<e>>[1] = e
OBVIOUS

LEMMA FirstSaved ==
    ASSUME TypeInv
    PROVE  /\ 1 \in DOMAIN saved
           /\ \A n \in DOMAIN saved : saved[n] \in Checkpoint
<1>1. saved \in Seq(Checkpoint) /\ saved # <<>>
  BY Zenon DEF TypeInv
<1> QED
  BY <1>1

-----------------------------------------------------------------------------
(* Frames: what the end of a superstep and the end of a run preserve.      *)

\* The tables keep their rows and the jobs theirs.
LEMMA BookFrame ==
    ASSUME BookInv, UNCHANGED <<jobs, runs, outcome, seat, rows>>
    PROVE  BookInv'
<1>1. jobs' = jobs /\ runs' = runs /\ outcome' = outcome /\ seat' = seat /\ rows' = rows
  OBVIOUS
<1>2. RowsInv'
  BY <1>1, Zenon DEF BookInv, RowsInv
<1>3. SeatInv'
  BY <1>1, Zenon DEF BookInv, SeatInv
<1>4. CompletedIsOwn'
  BY <1>1 DEF BookInv, CompletedIsOwn, RowsOf
<1>5. BookedOncePerAnswer'
  BY <1>1 DEF BookInv, BookedOncePerAnswer, RowsOf
<1> QED
  BY <1>2, <1>3, <1>4, <1>5, Zenon DEF BookInv

\* An outcome other than completed.
LEMMA OutcomeFrame ==
    ASSUME TypeInv, BookInv, UNCHANGED <<jobs, runs, tables>>, NEW j \in Job,
           NEW status \in {"waiting_for_confirmation", "failed"},
           outcome' = [outcome EXCEPT ![j] = status]
    PROVE  BookInv'
<1>1. jobs' = jobs /\ runs' = runs /\ seat' = seat /\ rows' = rows
  BY DEF tables
<1>2. RowsInv'
  BY <1>1, Zenon DEF BookInv, RowsInv
<1>3. SeatInv'
  BY <1>1, Zenon DEF BookInv, SeatInv
<1>4. CompletedIsOwn'
  <2>1. \A i \in Job : outcome'[i] = "completed" => outcome[i] = "completed"
    BY DEF TypeInv
  <2> QED
    BY <1>1, <2>1 DEF BookInv, CompletedIsOwn, RowsOf
<1>5. BookedOncePerAnswer'
  BY <1>1 DEF BookInv, BookedOncePerAnswer, RowsOf
<1> QED
  BY <1>2, <1>3, <1>4, <1>5, Zenon DEF BookInv

LEMMA SavedFrame ==
    ASSUME SavedInv, UNCHANGED <<saved, run, channels, question, reasks>>
    PROVE  SavedInv'
<1>1. /\ saved' = saved /\ run' = run /\ channels' = channels
      /\ question' = question /\ reasks' = reasks
  OBVIOUS
<1>2. ASSUME NEW i \in DOMAIN saved
      PROVE  Asked(saved[i].channels) => Asked(saved[i].channels)'
  BY <1>1 DEF Asked, Evaluated, Searched, Located
<1> QED
  BY <1>1, <1>2, Zenon DEF SavedInv

LEMMA StepFrame ==
    ASSUME FlowInv, LastInv, NEW n, NEW new \in Channels,
           NEW next \in SUBSET Node, NextStep(n, new, next), UNCHANGED asked,
           avail' \in SUBSET Option, seat' \in [Segment -> Option \union {None}],
           rows' \in Seq(BookingRow),
           next = Loading \/ (\E m \in Node \ Loading : next = {m}),
           reasks <= new.retry_count
    PROVE  /\ TypeInv' /\ Shape' /\ SavedInv' /\ RunInv'
           /\ run \in Job /\ n \in Node
           /\ run' = run /\ jobs' = jobs /\ question' = question
           /\ reasks' = reasks /\ outcome' = outcome /\ runs' = runs
           /\ answer' = None /\ channels' = new /\ tasks' = next
           /\ reasks' <= MaxRetries /\ reasks' <= channels'.retry_count
<1> DEFINE c == [channels |-> new, asking |-> FALSE]
<1>1. /\ channels' = new /\ tasks' = next /\ saved' = Append(saved, c)
      /\ found' = None /\ answer' = None /\ run' = run
      /\ jobs' = jobs /\ outcome' = outcome /\ runs' = runs
      /\ question' = question /\ reasks' = reasks /\ tasks = {n}
  BY DEF NextStep, calls, asked
<1>2. c \in Checkpoint
  BY DEF Checkpoint
<1>3. saved \in Seq(Checkpoint)
  BY Zenon DEF FlowInv, TypeInv
<1>4. /\ saved' \in Seq(Checkpoint) /\ saved' # <<>>
      /\ DOMAIN saved' = DOMAIN saved \union {Len(saved) + 1}
      /\ saved'[Len(saved) + 1] = c
      /\ \A i \in DOMAIN saved : saved'[i] = saved[i]
  <2>1. saved' = Append(saved, c)
    BY <1>1
  <2> QED
    BY <1>2, <1>3, <2>1, SMTT(30)
<1>5. TypeInv'
  BY <1>1, <1>4, Zenon DEF FlowInv, TypeInv
<1>6. run # 0 /\ run \in Job /\ n \in Node
  BY <1>1, Zenon DEF FlowInv, TypeInv, Shape
<1>7. Shape'
  BY <1>1, <1>6, Zenon DEF Shape
<1>8. RunInv'
  BY <1>1, Zenon DEF LastInv, RunInv
<1>9. SavedInv'
  <2>1. c.asking = FALSE /\ c.channels = new
    OBVIOUS
  <2>2. ASSUME NEW i \in DOMAIN saved'
        PROVE  /\ saved'[i].asking => Asked(saved[i].channels)'
               /\ reasks' <= saved'[i].channels.retry_count
    <3>1. CASE i \in DOMAIN saved
      <4>1. saved'[i] = saved[i]
        BY <1>4, <3>1, Zenon
      <4>2. Asked(saved[i].channels) => Asked(saved[i].channels)'
        BY <4>1, <1>1 DEF Asked, Evaluated, Searched, Located
      <4> QED
        BY <4>1, <4>2, <3>1, <1>1, Zenon DEF LastInv, SavedInv
    <3>2. CASE i = Len(saved) + 1
      <4>1. saved'[i] = c
        BY <1>4, <3>2, Zenon
      <4> QED
        BY <4>1, <2>1, <1>1, Zenon
    <3> QED
      BY <1>4, <2>2, <3>1, <3>2, Zenon
  <2>3. run' # 0
    BY <1>1, <1>6
  <2> QED
    BY <2>2, <2>3, Zenon DEF SavedInv
<1>10. reasks' <= MaxRetries
  BY <1>1, Zenon DEF LastInv, CountInv
<1> QED
  BY <1>1, <1>5, <1>6, <1>7, <1>8, <1>9, <1>10, Zenon

LEMMA ReturnFrame ==
    ASSUME TypeInv, NEW c \in Checkpoint, channels' = c.channels,
           saved' = <<c>>, tasks' = {}, found' = None, answer' = None, run' = 0,
           UNCHANGED <<jobs, runs, tables>>,
           outcome' \in [Job -> Outcome \union {None}],
           question' \in Found \union {None}, reasks' \in Nat,
           reasks' <= MaxRetries, reasks' <= c.channels.retry_count,
           c.asking => Asked(c.channels)'
    PROVE  FlowInv' /\ LastInv'
<1>1. /\ jobs' = jobs /\ runs' = runs /\ avail' = avail
      /\ seat' = seat /\ rows' = rows
  BY DEF tables
<1>2. c.channels \in Channels
  BY DEF Checkpoint
<1>3. TypeInv'
  BY <1>1, <1>2, SingletonFacts DEF TypeInv
<1>4. Shape'
  BY Zenon DEF Shape
<1>5. BeforeQuestion'
  BY DEF BeforeQuestion
<1>6. AfterAnswer'
  BY DEF AfterAnswer
<1>7. SavedInv'
  <2>1. DOMAIN saved' = {1} /\ saved'[1] = c
    BY SingletonFacts
  <2>2. Asked(c.channels)' => Asked(saved[1].channels)'
    BY <2>1 DEF Asked, Evaluated, Searched, Located
  <2> QED
    BY <2>1, <2>2 DEF SavedInv
<1>8. CountInv'
  BY DEF CountInv
<1>9. RunInv'
  BY Zenon DEF RunInv
<1> QED
  BY <1>3, <1>4, <1>5, <1>6, <1>7, <1>8, <1>9, Zenon DEF FlowInv, LastInv

\* A node that leaves the tables alone.
LEMMA NodeFrame ==
    ASSUME Inv, NEW n, NEW new \in Channels, NEW next,
           NextStep(n, new, next), UNCHANGED <<tables, asked>>,
           next = Loading \/ (\E m \in Node \ Loading : next = {m}),
           channels.retry_count <= new.retry_count
    PROVE  /\ TypeInv' /\ Shape' /\ SavedInv' /\ RunInv' /\ BookInv'
           /\ run \in Job /\ run' = run /\ jobs' = jobs
           /\ question' = question /\ reasks' = reasks
           /\ answer' = None /\ channels' = new /\ tasks' = next
           /\ reasks' <= MaxRetries /\ reasks' <= channels'.retry_count
<1>1. FlowInv /\ LastInv /\ BookInv /\ channels \in Channels
  BY Zenon DEF Inv, FlowInv, TypeInv
<1>2. /\ avail' \in SUBSET Option /\ rows' \in Seq(BookingRow)
      /\ seat' \in [Segment -> Option \union {None}]
      /\ UNCHANGED asked /\ seat' = seat /\ rows' = rows
  BY <1>1 DEF FlowInv, TypeInv, tables
<1>3. next \in SUBSET Node
  BY DEF Node, Loading
<1>4. reasks <= new.retry_count
  <2>1. /\ reasks \in Nat /\ reasks <= channels.retry_count
        /\ channels.retry_count \in Nat /\ new.retry_count \in Nat
    BY <1>1, ChannelTypes, Zenon DEF FlowInv, TypeInv, LastInv, CountInv
  <2> QED
    BY <2>1
<1>5. /\ TypeInv' /\ Shape' /\ SavedInv' /\ RunInv'
      /\ run \in Job /\ run' = run /\ jobs' = jobs
      /\ outcome' = outcome /\ runs' = runs
      /\ question' = question /\ reasks' = reasks
      /\ answer' = None /\ channels' = new /\ tasks' = next
      /\ reasks' <= MaxRetries /\ reasks' <= channels'.retry_count
  BY <1>1, <1>2, <1>3, <1>4, StepFrame, Zenon
<1>6. BookInv'
  BY <1>1, <1>2, <1>5, BookFrame, Zenon
<1> QED
  BY <1>5, <1>6, Zenon

-----------------------------------------------------------------------------
(* The nodes up to the question.                                           *)

LEMMA UnderstandRequestInv ==
    ASSUME Inv, UnderstandRequest
    PROVE  Inv'
<1>1. channels \in Channels /\ channels.retry_count \in Nat /\ BeforeQuestion
  BY ChannelTypes, Zenon DEF Inv, FlowInv, TypeInv
<1>2. PICK r \in Request :
        NextStep("understand_request", [channels EXCEPT !.request = r],
                 {"get_reservation"})
  BY Zenon DEF UnderstandRequest
<1>3. PICK new \in Channels : /\ new = [channels EXCEPT !.request = r]
                              /\ new.request = r
                              /\ new.retry_count = channels.retry_count
  BY <1>1, SetRequest, Zenon
<1>4. /\ NextStep("understand_request", new, {"get_reservation"})
      /\ UNCHANGED <<tables, asked>> /\ tasks = {"understand_request"}
  BY <1>2, <1>3, Zenon DEF UnderstandRequest, NextStep
<1>5. /\ TypeInv' /\ Shape' /\ SavedInv' /\ RunInv' /\ BookInv'
      /\ run' = run /\ jobs' = jobs
      /\ answer' = None /\ channels' = new /\ tasks' = {"get_reservation"}
      /\ reasks' <= MaxRetries /\ reasks' <= channels'.retry_count
  <2>1. \E m \in Node \ Loading : {"get_reservation"} = {m}
    BY DEF Node, Loading
  <2>2. channels.retry_count <= new.retry_count
    BY <1>1, <1>3
  <2> QED
    BY <1>4, <2>1, <2>2, NodeFrame, Zenon
<1>6. BeforeQuestion'
  <2>1. jobs[run] = Message
    BY <1>1, <1>4, Zenon DEF BeforeQuestion
  <2> QED
    BY <1>3, <1>5, <2>1 DEF BeforeQuestion, Loading
<1>7. AfterAnswer'
  BY <1>5 DEF AfterAnswer
<1>8. CountInv'
  BY <1>5 DEF CountInv, Asking, Loading
<1> QED
  BY <1>5, <1>6, <1>7, <1>8, Zenon DEF Inv, FlowInv, LastInv

LEMMA GetReservationInv ==
    ASSUME Inv, GetReservation
    PROVE  Inv'
<1>1. channels \in Channels /\ channels.retry_count \in Nat /\ BeforeQuestion
  BY ChannelTypes, Zenon DEF Inv, FlowInv, TypeInv
<1>2. PICK new \in Channels : /\ new = [channels EXCEPT !.context = channels.request]
                              /\ new.request = channels.request
                              /\ new.context = channels.request
                              /\ new.retry_count = channels.retry_count
  BY <1>1, SetContext, Zenon
<1>3. /\ NextStep("get_reservation", new, Loading)
      /\ UNCHANGED <<tables, asked>> /\ tasks = {"get_reservation"}
  BY <1>2, Zenon DEF GetReservation, NextStep
<1>4. /\ TypeInv' /\ Shape' /\ SavedInv' /\ RunInv' /\ BookInv'
      /\ run' = run /\ jobs' = jobs
      /\ answer' = None /\ channels' = new /\ tasks' = Loading
      /\ reasks' <= MaxRetries /\ reasks' <= channels'.retry_count
  <2>1. channels.retry_count <= new.retry_count
    BY <1>1, <1>2
  <2> QED
    BY <1>3, <2>1, NodeFrame, Zenon
<1>5. jobs[run] = Message /\ Located(new)
  BY <1>1, <1>2, <1>3, Zenon DEF BeforeQuestion, Located
<1>6. BeforeQuestion'
  BY <1>4, <1>5 DEF BeforeQuestion, Loading
<1>7. AfterAnswer'
  BY <1>4 DEF AfterAnswer, Loading
<1>8. CountInv'
  BY <1>4, <1>5 DEF CountInv
<1> QED
  BY <1>4, <1>6, <1>7, <1>8, Zenon DEF Inv, FlowInv, LastInv

\* One of the two loading nodes finishes, first or last.
LEMMA LoadedInv ==
    ASSUME Inv, NEW n \in Loading, NEW result \in Found \union {None},
           Loaded(n, result),
           n = "search_alternatives" \/ tasks = {n} =>
               result \in Found /\ result.segment \in SegmentsFor(channels.request)
    PROVE  Inv'
<1>1. /\ channels \in Channels /\ channels.retry_count \in Nat
      /\ Shape /\ BeforeQuestion /\ AfterAnswer /\ CountInv
      /\ n \in tasks /\ UNCHANGED <<tables, asked>>
  BY ChannelTypes, Zenon DEF Inv, FlowInv, TypeInv, LastInv, Loaded
<1>2. Located(channels) /\ n \in Asking /\ answer = None /\ run # 0
  <2>1. Located(channels) /\ n \in Asking /\ run # 0
    BY <1>1, Zenon DEF BeforeQuestion, Asking, Shape
  <2>2. answer = None
    BY <1>1 DEF AfterAnswer, Loading
  <2> QED
    BY <2>1, <2>2
<1>3. CASE tasks = {n}
  <2>1. result \in Found /\ result.segment \in SegmentsFor(channels.request)
    BY <1>3
  <2>2. PICK new \in Channels :
          /\ new = [channels EXCEPT !.search_result = result]
          /\ new.search_result = result /\ new.request = channels.request
          /\ new.context = channels.context
          /\ new.retry_count = channels.retry_count
    BY <1>1, <2>1, SetSearchResult, Zenon
  <2>3. NextStep(n, new, {"evaluate_options"})
    BY <1>3, <2>2, Zenon DEF Loaded, NextStep
  <2>4. /\ TypeInv' /\ Shape' /\ SavedInv' /\ RunInv' /\ BookInv'
        /\ run' = run /\ jobs' = jobs /\ reasks' = reasks
        /\ answer' = None /\ channels' = new /\ tasks' = {"evaluate_options"}
        /\ reasks' <= MaxRetries /\ reasks' <= channels'.retry_count
    <3>1. \E m \in Node \ Loading : {"evaluate_options"} = {m}
      BY DEF Node, Loading
    <3>2. channels.retry_count <= new.retry_count
      BY <1>1, <2>2
    <3> QED
      BY <1>1, <2>3, <3>1, <3>2, NodeFrame, Zenon
  <2>5. Searched(new)
    BY <1>2, <2>1, <2>2, Zenon DEF Searched, Located
  <2>6. BeforeQuestion'
    BY <2>4, <2>5 DEF BeforeQuestion, Loading
  <2>7. AfterAnswer'
    BY <2>4 DEF AfterAnswer
  <2>8. CountInv'
    BY <1>1, <1>2, <2>2, <2>4, Zenon DEF CountInv
  <2> QED
    BY <2>4, <2>6, <2>7, <2>8, Zenon DEF Inv, FlowInv, LastInv
<1>4. CASE tasks # {n}
  <2>1. /\ tasks' = tasks \ {n} /\ found' = result /\ channels' = channels
        /\ answer' = answer /\ saved' = saved /\ run' = run /\ jobs' = jobs
        /\ outcome' = outcome /\ runs' = runs /\ avail' = avail /\ seat' = seat
        /\ rows' = rows /\ question' = question /\ reasks' = reasks
    BY <1>1, <1>4 DEF Loaded, calls, tables, asked
  <2>2. tasks = Loading
    BY <1>1, <1>4, Zenon DEF Shape, Loading
  <2>3. TypeInv'
    BY <2>1 DEF Inv, FlowInv, TypeInv
  <2>4. Shape'
    BY <1>2, <2>1, <2>2 DEF Shape
  <2>5. BeforeQuestion'
    <3>1. \A m : Located(channels) => Located(channels)'
      BY <2>1 DEF Located
    <3>2. tasks' = {"get_travel_credits"} => n = "search_alternatives"
      BY <2>1, <2>2 DEF Loading
    <3>3. SegmentsFor(channels.request)' = SegmentsFor(channels.request)
      BY <2>1 DEF SegmentsFor
    <3> QED
      BY <1>2, <2>1, <2>2, <3>1, <3>2, <3>3 DEF BeforeQuestion, Loading
  <2>6. AfterAnswer'
    BY <1>2, <2>1, <2>2 DEF AfterAnswer, Loading
  <2>7. SavedInv' /\ RunInv'
    <3>1. SavedInv'
      BY <2>1, SavedFrame, Zenon DEF Inv, LastInv
    <3>2. RunInv'
      BY <2>1, Zenon DEF Inv, LastInv, RunInv
    <3> QED
      BY <3>1, <3>2
  <2>8. CountInv'
    BY <1>1, <1>2, <2>1, Zenon DEF CountInv
  <2>9. BookInv'
    BY <2>1, BookFrame, Zenon DEF Inv
  <2> QED
    BY <2>3, <2>4, <2>5, <2>6, <2>7, <2>8, <2>9, Zenon
    DEF Inv, FlowInv, LastInv
<1> QED
  BY <1>3, <1>4

LEMMA SearchAlternativesInv ==
    ASSUME Inv, SearchAlternatives
    PROVE  Inv'
<1>1. /\ "search_alternatives" \in tasks /\ "search_alternatives" \in Loading
      /\ BeforeQuestion /\ avail \in SUBSET Option
  BY DEF Inv, FlowInv, TypeInv, SearchAlternatives, Loading
<1>2. Located(channels)
  BY <1>1, Zenon DEF BeforeQuestion
<1>3. PICK s \in SegmentsFor(channels.context) :
        Loaded("search_alternatives", [segment |-> s, options |-> OptionsFor(s)])
  BY Zenon DEF SearchAlternatives
<1>4. s \in Segment /\ s \in SegmentsFor(channels.request)
  BY <1>2, <1>3, SegmentFacts, Zenon DEF Located
<1>5. PICK result \in Found :
        result = [segment |-> s, options |-> OptionsFor(s)] /\ result.segment = s
  <2>1. OptionsFor(s) \in SUBSET Option
    BY <1>1 DEF OptionsFor
  <2>2. [segment |-> s, options |-> OptionsFor(s)] \in Found
    BY <1>4, <2>1 DEF Found
  <2>3. [segment |-> s, options |-> OptionsFor(s)].segment = s
    OBVIOUS
  <2> QED
    BY <2>2, <2>3, Zenon
<1>6. Loaded("search_alternatives", result)
  BY <1>3, <1>5, Zenon DEF Loaded, NextStep
<1> QED
  BY <1>1, <1>4, <1>5, <1>6, LoadedInv, Zenon

LEMMA GetTravelCreditsInv ==
    ASSUME Inv, GetTravelCredits
    PROVE  Inv'
<1>1. /\ "get_travel_credits" \in Loading /\ BeforeQuestion
      /\ found \in Found \union {None}
  BY DEF Inv, FlowInv, TypeInv, Loading
<1>2. PICK result \in Found \union {None} : result = found
  BY <1>1
<1>3. Loaded("get_travel_credits", result)
  BY <1>2, Zenon DEF GetTravelCredits, Loaded, NextStep
<1>4. tasks = {"get_travel_credits"} =>
          result \in Found /\ result.segment \in SegmentsFor(channels.request)
  BY <1>1, <1>2, Zenon DEF BeforeQuestion
<1> QED
  BY <1>1, <1>3, <1>4, LoadedInv

LEMMA EvaluateOptionsInv ==
    ASSUME Inv, EvaluateOptions
    PROVE  Inv'
<1> DEFINE e == [request |-> channels.request,
                 options |-> channels.search_result.options]
<1>1. /\ channels \in Channels /\ channels.retry_count \in Nat
      /\ Shape /\ BeforeQuestion /\ CountInv /\ answer \in Answer \union {None}
      /\ tasks = {"evaluate_options"} /\ UNCHANGED <<tables, asked>>
  BY ChannelTypes, Zenon
  DEF Inv, FlowInv, TypeInv, LastInv, EvaluateOptions, NextStep
<1>2. Searched(channels) /\ answer = None /\ run # 0 /\ "evaluate_options" \in Asking
  BY <1>1 DEF BeforeQuestion, Inv, FlowInv, AfterAnswer, Shape, Asking
<1>3. e \in Evaluation
  BY <1>2 DEF Searched, Located, Found, Evaluation
<1>4. PICK new \in Channels :
        /\ new = [channels EXCEPT !.evaluation = e]
        /\ new.evaluation = e /\ new.request = channels.request
        /\ new.context = channels.context
        /\ new.search_result = channels.search_result
        /\ new.retry_count = channels.retry_count
  BY <1>1, <1>3, SetEvaluation, Zenon
<1>5. NextStep("evaluate_options", new, {"ask_confirmation"})
  BY <1>4, Zenon DEF EvaluateOptions, NextStep
<1>6. /\ TypeInv' /\ Shape' /\ SavedInv' /\ RunInv' /\ BookInv'
      /\ run' = run /\ jobs' = jobs /\ reasks' = reasks
      /\ answer' = None /\ channels' = new /\ tasks' = {"ask_confirmation"}
      /\ reasks' <= MaxRetries /\ reasks' <= channels'.retry_count
  <2>1. \E m \in Node \ Loading : {"ask_confirmation"} = {m}
    BY DEF Node, Loading
  <2>2. channels.retry_count <= new.retry_count
    BY <1>1, <1>4
  <2> QED
    BY <1>1, <1>5, <2>1, <2>2, NodeFrame, Zenon
<1>7. Evaluated(new)
  BY <1>2, <1>4, Zenon DEF Evaluated, Searched, Located
<1>8. BeforeQuestion'
  BY <1>6, <1>7 DEF BeforeQuestion, Loading
<1>9. AfterAnswer'
  BY <1>6 DEF AfterAnswer
<1>10. CountInv'
  BY <1>1, <1>2, <1>4, <1>6, Zenon DEF CountInv
<1> QED
  BY <1>6, <1>8, <1>9, <1>10, Zenon DEF Inv, FlowInv, LastInv

\* A question is asked: it becomes the last one, and a repeated one is counted.
LEMMA AskConfirmationInv ==
    ASSUME Inv, AskConfirmation
    PROVE  Inv'
<1>1. /\ TypeInv /\ channels \in Channels /\ channels.retry_count \in Nat
      /\ Shape /\ BeforeQuestion /\ CountInv /\ RunInv /\ BookInv
      /\ reasks \in Nat /\ run \in Job /\ run # 0
  BY ChannelTypes, Zenon
  DEF Inv, FlowInv, TypeInv, LastInv, AskConfirmation, Shape
<1>2. PICK c \in Checkpoint : c = [channels |-> channels, asking |-> TRUE]
  BY <1>1, Zenon DEF Checkpoint
<1>3. /\ channels' = c.channels /\ c.channels = channels /\ saved' = <<c>>
      /\ tasks' = {} /\ found' = None /\ answer' = None /\ run' = 0
      /\ outcome' = [outcome EXCEPT ![run] = "waiting_for_confirmation"]
      /\ jobs' = jobs /\ runs' = runs /\ UNCHANGED tables
      /\ question' = channels.search_result
      /\ reasks' = IF jobs[run] = Message THEN reasks ELSE reasks + 1
      /\ tasks = {"ask_confirmation"} /\ answer = None
  BY <1>2 DEF AskConfirmation, Return
<1>4. Evaluated(channels)
  BY <1>1, <1>3, Zenon DEF BeforeQuestion
<1>5. Asked(c.channels)' /\ question' \in Found \union {None}
  BY <1>3, <1>4 DEF Asked, Evaluated, Searched, Located
<1>6. reasks' \in Nat /\ reasks' <= MaxRetries /\ reasks' <= c.channels.retry_count
  <2>1. /\ reasks <= MaxRetries /\ reasks <= channels.retry_count
        /\ jobs[run] # Message => /\ reasks + 1 <= channels.retry_count
                                  /\ channels.retry_count <= MaxRetries
    BY <1>1, <1>3 DEF CountInv, Asking
  <2> QED
    BY <1>1, <1>3, <2>1, Bounds
<1>7. outcome' \in [Job -> Outcome \union {None}]
  BY <1>1, <1>3 DEF TypeInv, Outcome
<1>8. FlowInv' /\ LastInv'
  BY <1>1, <1>3, <1>5, <1>6, <1>7, ReturnFrame, Zenon
<1>9. BookInv'
  BY <1>1, <1>3, OutcomeFrame, Zenon
<1> QED
  BY <1>8, <1>9, Zenon DEF Inv

-----------------------------------------------------------------------------
(* The nodes after the answer.                                             *)

LEMMA AnswerFacts ==
    ASSUME NEW a \in Answer
    PROVE  /\ a.confirmed \in BOOLEAN
           /\ a.selection \in Selection \union {None}
           /\ a.confirmed => a.selection \in Selection
<1>1. CASE a \in [confirmed : {TRUE}, selection : Selection]
  BY <1>1, Zenon
<1>2. CASE a = [confirmed |-> FALSE, selection |-> None]
  BY <1>2
<1> QED
  BY <1>1, <1>2, Zenon DEF Answer

LEMMA TakeAnswerInv ==
    ASSUME Inv, TakeAnswer
    PROVE  Inv'
<1> DEFINE c == [answer |-> answer, evaluation |-> channels.evaluation]
<1>1. /\ channels \in Channels /\ channels.retry_count \in Nat
      /\ answer \in Answer \union {None} /\ answer # None
      /\ AfterAnswer /\ UNCHANGED <<tables, asked>>
  BY ChannelTypes, Zenon DEF Inv, FlowInv, TypeInv, TakeAnswer
<1>2. Asked(channels) /\ Answering /\ answer = jobs[run] /\ answer \in Answer
  BY <1>1, Zenon DEF AfterAnswer
<1>3. c \in [answer : Answer, evaluation : Evaluation]
  <2>1. channels.evaluation \in Evaluation
    BY <1>2 DEF Asked, Evaluated, Searched, Located, Found, Evaluation
  <2> QED
    BY <1>2, <2>1
<1>4. PICK new \in Channels :
        /\ new = [channels EXCEPT !.confirmation = c]
        /\ new.confirmation = c /\ new.request = channels.request
        /\ new.context = channels.context
        /\ new.search_result = channels.search_result
        /\ new.evaluation = channels.evaluation
        /\ new.retry_count = channels.retry_count
  BY <1>1, <1>3, SetConfirmation, ZenonT(30)
<1>5. NextStep("ask_confirmation", new, {"validate_change"})
  BY <1>4, Zenon DEF TakeAnswer, NextStep
<1>6. /\ TypeInv' /\ Shape' /\ SavedInv' /\ RunInv' /\ BookInv'
      /\ run' = run /\ jobs' = jobs /\ question' = question
      /\ answer' = None /\ channels' = new /\ tasks' = {"validate_change"}
      /\ reasks' <= MaxRetries /\ reasks' <= channels'.retry_count
  <2>1. \E m \in Node \ Loading : {"validate_change"} = {m}
    BY DEF Node, Loading
  <2>2. channels.retry_count <= new.retry_count
    BY <1>1, <1>4
  <2> QED
    BY <1>1, <1>5, <2>1, <2>2, NodeFrame, Zenon
<1>7. BeforeQuestion'
  BY <1>6 DEF BeforeQuestion, Loading
<1>8. AfterAnswer'
  <2>1. Answering' /\ Asked(channels)'
    BY <1>2, <1>4, <1>6 DEF Answering, Asked, Evaluated, Searched, Located
  <2>2. new.confirmation = [answer |-> jobs[run], evaluation |-> new.evaluation]
    BY <1>2, <1>4, Zenon
  <2> QED
    BY <1>6, <2>1, <2>2 DEF AfterAnswer
<1>9. CountInv'
  BY <1>6 DEF CountInv, Asking, Loading
<1> QED
  BY <1>6, <1>7, <1>8, <1>9, Zenon DEF Inv, FlowInv, LastInv

\* The segment the answer has to name is the one that was searched for, and its
\* option is one of the last question.
LEMMA FitsLastQuestion ==
    ASSUME Asked(channels), NEW sel,
           channels.confirmation.evaluation = channels.evaluation,
           FitsQuestion(sel)
    PROVE  sel.segment = question.segment /\ sel.option \in question.options
<1>1. /\ channels.request \in Request /\ channels.context = channels.request
      /\ question.segment \in SegmentsFor(channels.request)
      /\ channels.evaluation.request = channels.request
      /\ channels.evaluation.options = question.options
  BY DEF Asked, Evaluated, Searched, Located
<1>2. question.segment = ExpectedSegment
  BY <1>1, SegmentFacts DEF ExpectedSegment
<1> QED
  BY <1>1, <1>2 DEF FitsQuestion

LEMMA ValidateChangeInv ==
    ASSUME Inv, ValidateChange
    PROVE  Inv'
<1> DEFINE sel == channels.confirmation.answer.selection
<1>1. /\ channels \in Channels /\ channels.retry_count \in Nat
      /\ tasks = {"validate_change"} /\ AfterAnswer /\ UNCHANGED <<tables, asked>>
  BY ChannelTypes, Zenon DEF Inv, FlowInv, TypeInv, ValidateChange
<1>2. /\ Asked(channels) /\ Answering /\ jobs[run] \in Answer
      /\ channels.confirmation.answer = jobs[run]
      /\ channels.confirmation.evaluation = channels.evaluation
  BY <1>1 DEF AfterAnswer, Answering
<1>3. /\ sel = jobs[run].selection /\ sel \in Selection \union {None}
      /\ jobs[run].confirmed => sel \in Selection
  BY <1>2, AnswerFacts, Zenon
<1>4. SUFFICES ASSUME NEW ok \in BOOLEAN, NEW route \in Route, NEW next,
                      NextStep("validate_change", Validated(ok, sel, route), {next}),
                      \/ /\ ~jobs[run].confirmed /\ next = "finalize_declined"
                      \/ /\ jobs[run].confirmed /\ next = "explain_invalid_change"
                      \/ /\ jobs[run].confirmed /\ next = "execute_rebooking"
                         /\ FitsQuestion(sel)
               PROVE  Inv'
  <2>1. "declined" \in Route /\ "invalid" \in Route /\ "valid" \in Route
    BY DEF Route
  <2> QED
    BY <1>2, <2>1, Zenon DEF ValidateChange
<1>a. PICK v \in Validation : v = [valid |-> ok, selection |-> sel] /\ v.selection = sel
  <2>1. /\ [valid |-> ok, selection |-> sel] \in Validation
        /\ [valid |-> ok, selection |-> sel].selection = sel
    BY <1>3 DEF Validation
  <2> QED
    BY <2>1, Zenon
<1>b. PICK new : new = [channels EXCEPT !.validation = v, !.route = route]
  OBVIOUS
<1>5. /\ new \in Channels /\ new.validation = v
      /\ new.request = channels.request /\ new.context = channels.context
      /\ new.retry_count = channels.retry_count
  <2>1. route \in Route /\ v \in Validation /\ channels \in Channels
    BY <1>1, <1>4, <1>a
  <2> QED
    BY <2>1, <1>b, Zenon DEF Channels, Validation, Route
<1>6. NextStep("validate_change", new, {next})
  BY <1>4, <1>b, <1>a, Zenon DEF Validated, NextStep
<1>7. /\ TypeInv' /\ Shape' /\ SavedInv' /\ RunInv' /\ BookInv'
      /\ run' = run /\ jobs' = jobs /\ question' = question
      /\ answer' = None /\ channels' = new /\ tasks' = {next}
      /\ reasks' <= MaxRetries /\ reasks' <= channels'.retry_count
  <2>1. \E m \in Node \ Loading : {next} = {m}
    BY <1>4 DEF Node, Loading
  <2>2. channels.retry_count <= new.retry_count
    BY <1>1, <1>5
  <2> QED
    BY <1>1, <1>5, <1>6, <2>1, <2>2, NodeFrame, Zenon
<1>8. BeforeQuestion'
  BY <1>4, <1>7, SMTT(30) DEF BeforeQuestion, Loading
<1>9. AfterAnswer'
  <2>1. Answering' /\ Located(channels)'
    BY <1>2, <1>5, <1>7 DEF Answering, Asked, Evaluated, Searched, Located
  <2>2. ASSUME next = "execute_rebooking"
        PROVE  /\ jobs[run].confirmed /\ sel \in Selection
               /\ new.validation.selection = jobs[run].selection
               /\ jobs[run].selection.segment = question.segment
               /\ jobs[run].selection.option \in question.options
    <3>1. jobs[run].confirmed /\ FitsQuestion(sel)
      BY <1>4, <2>2
    <3>2. sel.segment = question.segment /\ sel.option \in question.options
      BY <1>2, <3>1, FitsLastQuestion, Zenon
    <3>3. new.validation.selection = sel
      BY <1>5, <1>a
    <3> QED
      BY <1>3, <3>1, <3>2, <3>3, Zenon
  <2>3. next = "finalize_declined" => ~jobs[run].confirmed
    BY <1>4
  <2> QED
    BY <1>3, <1>4, <1>7, <2>1, <2>2, <2>3, ZenonT(30) DEF AfterAnswer
<1>10. CountInv'
  BY <1>4, <1>7 DEF CountInv, Asking, Loading
<1> QED
  BY <1>7, <1>8, <1>9, <1>10, Zenon DEF Inv, FlowInv, LastInv

\* The run ends; if not with failure then the job did what its answer says.
LEMMA EndInv ==
    ASSUME Inv, NEW n, NEW new \in Channels, End(n, new),
           UNCHANGED <<tables, asked>>,
           channels.retry_count <= new.retry_count,
           new.final = "failed" \/ (/\ jobs[run] # Message
                                    /\ jobs[run].confirmed <=> RowsOf(run) # {})
    PROVE  Inv'
<1>1. /\ TypeInv /\ CountInv /\ BookInv /\ channels.retry_count \in Nat
      /\ reasks \in Nat /\ new.retry_count \in Nat
      /\ question \in Found \union {None}
  BY ChannelTypes, Zenon DEF Inv, FlowInv, LastInv, TypeInv
<1>2. PICK c \in Checkpoint : c = [channels |-> new, asking |-> FALSE]
  BY Zenon DEF Checkpoint
<1>3. PICK status \in {"failed", "completed"} :
        status = IF new.final = "failed" THEN "failed" ELSE "completed"
  OBVIOUS
<1>4. /\ channels' = c.channels /\ c.channels = new /\ c.asking = FALSE
      /\ saved' = <<c>> /\ tasks' = {} /\ found' = None /\ answer' = None
      /\ run' = 0 /\ outcome' = [outcome EXCEPT ![run] = status]
      /\ jobs' = jobs /\ runs' = runs /\ UNCHANGED tables
      /\ question' = question /\ reasks' = reasks /\ tasks = {n}
  BY <1>2, <1>3 DEF End, Return, Finished, asked
<1>5. run \in Job
  BY <1>1, <1>4, Zenon DEF Inv, FlowInv, Shape, TypeInv
<1>6. reasks' <= MaxRetries /\ reasks' <= c.channels.retry_count
  <2>1. reasks <= MaxRetries /\ reasks <= channels.retry_count
    BY <1>1, Zenon DEF CountInv
  <2> QED
    BY <1>1, <1>4, <2>1, Bounds
<1>7. outcome' \in [Job -> Outcome \union {None}]
  BY <1>1, <1>3, <1>4, Zenon DEF TypeInv, Outcome
<1>8. FlowInv' /\ LastInv'
  BY <1>1, <1>4, <1>6, <1>7, ReturnFrame, Zenon
<1>9. BookInv'
  <2>1. CASE status = "failed"
    BY <1>1, <1>4, <1>5, <2>1, OutcomeFrame, Zenon
  <2>2. CASE status = "completed"
    <3>1. jobs' = jobs /\ runs' = runs /\ seat' = seat /\ rows' = rows
      BY <1>4 DEF tables
    <3>2. RowsInv'
      BY <1>1, <3>1, Zenon DEF BookInv, RowsInv
    <3>3. SeatInv'
      BY <1>1, <3>1, Zenon DEF BookInv, SeatInv
    <3>4. BookedOncePerAnswer'
      BY <1>1, <3>1 DEF BookInv, BookedOncePerAnswer, RowsOf
    <3>5. jobs[run] # Message /\ (jobs[run].confirmed <=> RowsOf(run) # {})
      BY <1>3, <2>2, ZenonT(30)
    <3>6. \A j \in Job : j # run => outcome'[j] = outcome[j]
      BY <1>1, <1>4 DEF TypeInv
    <3>7. ASSUME NEW j \in Job, outcome'[j] = "completed"
          PROVE  jobs[j] # Message /\ (jobs[j].confirmed <=> RowsOf(j) # {})
      BY <1>1, <3>5, <3>6, <3>7, Zenon DEF BookInv, CompletedIsOwn
    <3>8. \A j \in Job : RowsOf(j)' = RowsOf(j)
      BY <3>1 DEF RowsOf
    <3>9. CompletedIsOwn'
      BY <3>1, <3>7, <3>8, Zenon DEF CompletedIsOwn
    <3> QED
      BY <3>2, <3>3, <3>4, <3>9, ZenonT(30) DEF BookInv
  <2> QED
    BY <1>3, <2>1, <2>2
<1> QED
  BY <1>8, <1>9, Zenon DEF Inv

LEMMA ExplainInvalidChangeInv ==
    ASSUME Inv, ExplainInvalidChange
    PROVE  Inv'
<1>1. /\ channels \in Channels /\ channels.retry_count \in Nat
      /\ AfterAnswer /\ UNCHANGED <<tables, asked>>
  BY ChannelTypes, Zenon DEF Inv, FlowInv, TypeInv, ExplainInvalidChange
<1>2. PICK counted \in Channels :
        /\ counted = [channels EXCEPT !.retry_count = channels.retry_count + 1]
        /\ counted.retry_count = channels.retry_count + 1
        /\ counted.request = channels.request
        /\ counted.context = channels.context
  BY <1>1, SetCount
<1>3. CASE GivesUp(channels.retry_count + 1)
  <2>1. PICK new : new = [counted EXCEPT !.final = "failed", !.route = "invalid"]
    OBVIOUS
  <2>2. /\ new \in Channels /\ new.final = "failed"
        /\ new.retry_count = channels.retry_count + 1
    BY <1>2, <2>1, Zenon DEF Channels, Route
  <2>3. End("explain_invalid_change", new)
    BY <1>2, <1>3, <2>1, Zenon DEF ExplainInvalidChange, End
  <2>4. channels.retry_count <= new.retry_count
    BY <1>1, <2>2
  <2> QED
    BY <1>1, <2>2, <2>3, <2>4, EndInv, Zenon
<1>4. CASE ~GivesUp(channels.retry_count + 1)
  <2>1. PICK new \in Channels :
          /\ new = [counted EXCEPT !.route = "retry"]
          /\ new.request = counted.request /\ new.context = counted.context
          /\ new.retry_count = counted.retry_count
    <3>1. "retry" \in Route
      BY DEF Route
    <3> QED
      BY <1>2, <3>1, SetRoute, ZenonT(30)
  <2>2. NextStep("explain_invalid_change", new, {"refresh_context"})
    BY <1>2, <1>4, <2>1, Zenon DEF ExplainInvalidChange, NextStep
  <2>3. /\ TypeInv' /\ Shape' /\ SavedInv' /\ RunInv' /\ BookInv'
        /\ run' = run /\ jobs' = jobs /\ reasks' = reasks
        /\ answer' = None /\ channels' = new /\ tasks' = {"refresh_context"}
        /\ reasks' <= MaxRetries /\ reasks' <= channels'.retry_count
    <3>1. \E m \in Node \ Loading : {"refresh_context"} = {m}
      BY DEF Node, Loading
    <3>2. channels.retry_count <= new.retry_count
      BY <1>1, <1>2, <2>1
    <3> QED
      BY <1>1, <2>2, <3>1, <3>2, NodeFrame, Zenon
  <2>4. Located(new)
    <3>1. Located(channels)
      BY <1>1, <2>2, Zenon DEF AfterAnswer, NextStep
    <3> QED
      BY <1>2, <2>1, <3>1, Zenon DEF Located
  <2>5. BeforeQuestion'
    BY <2>3, <2>4 DEF BeforeQuestion, Loading
  <2>6. AfterAnswer'
    BY <2>3 DEF AfterAnswer
  <2>7. CountInv'
    <3>1. reasks \in Nat /\ reasks <= channels.retry_count
      BY Zenon DEF Inv, FlowInv, TypeInv, LastInv, CountInv
    <3>2. reasks' + 1 <= channels'.retry_count /\ channels'.retry_count <= MaxRetries
      BY <1>1, <1>2, <1>4, <2>1, <2>3, <3>1, Bounds DEF GivesUp
    <3> QED
      BY <2>3, <3>2, Zenon DEF CountInv
  <2> QED
    BY <2>3, <2>5, <2>6, <2>7, Zenon DEF Inv, FlowInv, LastInv
<1> QED
  BY <1>3, <1>4

\* finalize_failed is next, with the failure written.
LEMMA FailedNext ==
    ASSUME TypeInv', Shape', SavedInv', RunInv', BookInv', answer' = None,
           tasks' = {"finalize_failed"}, channels'.final = "failed",
           reasks' <= MaxRetries, reasks' <= channels'.retry_count
    PROVE  Inv'
<1>1. BeforeQuestion'
  BY ZenonT(30) DEF BeforeQuestion, Loading
<1>2. AfterAnswer'
  BY DEF AfterAnswer
<1>3. CountInv'
  BY DEF CountInv, Asking, Loading
<1> QED
  BY <1>1, <1>2, <1>3, Zenon DEF Inv, FlowInv, LastInv

LEMMA RefreshContextInv ==
    ASSUME Inv, RefreshContext
    PROVE  Inv'
<1>1. /\ channels \in Channels /\ channels.retry_count \in Nat
      /\ BeforeQuestion /\ AfterAnswer /\ CountInv /\ Shape
      /\ tasks = {"refresh_context"} /\ UNCHANGED <<tables, asked>>
  BY ChannelTypes, Zenon
  DEF Inv, FlowInv, TypeInv, LastInv, RefreshContext, NextStep
<1>2. Located(channels) /\ answer = None /\ run # 0 /\ "refresh_context" \in Asking
  BY <1>1 DEF BeforeQuestion, AfterAnswer, Shape, Asking
<1>3. PICK new \in Channels :
        /\ new = [channels EXCEPT !.route = "retry"]
        /\ new.request = channels.request /\ new.context = channels.context
        /\ new.retry_count = channels.retry_count
  <2>1. "retry" \in Route
    BY DEF Route
  <2> QED
    BY <1>1, <2>1, SetRoute, Zenon
<1>4. NextStep("refresh_context", new, Loading)
  BY <1>3, Zenon DEF RefreshContext, NextStep
<1>5. /\ TypeInv' /\ Shape' /\ SavedInv' /\ RunInv' /\ BookInv'
      /\ run' = run /\ jobs' = jobs /\ reasks' = reasks
      /\ answer' = None /\ channels' = new /\ tasks' = Loading
      /\ reasks' <= MaxRetries /\ reasks' <= channels'.retry_count
  <2>1. channels.retry_count <= new.retry_count
    BY <1>1, <1>3
  <2> QED
    BY <1>1, <1>4, <2>1, NodeFrame, Zenon
<1>6. Located(new)
  BY <1>2, <1>3, Zenon DEF Located
<1>7. BeforeQuestion'
  BY <1>5, <1>6 DEF BeforeQuestion, Loading
<1>8. AfterAnswer'
  BY <1>5 DEF AfterAnswer, Loading
<1>9. CountInv'
  BY <1>1, <1>2, <1>3, <1>5, Zenon DEF CountInv
<1> QED
  BY <1>5, <1>7, <1>8, <1>9, Zenon DEF Inv, FlowInv, LastInv

LEMMA FinalizeDeclinedInv ==
    ASSUME Inv, FinalizeDeclined
    PROVE  Inv'
<1>1. /\ channels \in Channels /\ channels.retry_count \in Nat
      /\ AfterAnswer /\ RowsInv /\ UNCHANGED <<tables, asked>>
      /\ tasks = {"finalize_declined"}
  BY ChannelTypes, Zenon
  DEF Inv, FlowInv, TypeInv, BookInv, FinalizeDeclined, End
<1>2. PICK new : new = [channels EXCEPT !.final = "declined", !.route = "declined"]
  OBVIOUS
<1>3. new \in Channels /\ new.retry_count = channels.retry_count
  BY <1>1, <1>2, Zenon DEF Channels, Route
<1>4. End("finalize_declined", new)
  BY <1>2, Zenon DEF FinalizeDeclined, End
<1>5. jobs[run] # Message /\ ~jobs[run].confirmed /\ RowsOf(run) = {}
  <2>1. jobs[run] # Message /\ ~jobs[run].confirmed /\ run \in Job
    BY <1>1, Zenon DEF AfterAnswer, Answering
  <2>2. run # Other
    BY <2>1, Bounds
  <2> QED
    BY <1>1, <2>1, <2>2, Zenon DEF RowsInv, RowsOf
<1>6. channels.retry_count <= new.retry_count
  BY <1>1, <1>3
<1> QED
  BY <1>1, <1>3, <1>4, <1>5, <1>6, EndInv, Zenon

LEMMA FinalizeFailedInv ==
    ASSUME Inv, FinalizeFailed
    PROVE  Inv'
<1>1. /\ channels \in Channels /\ channels.retry_count \in Nat
      /\ AfterAnswer /\ UNCHANGED <<tables, asked>> /\ tasks = {"finalize_failed"}
  BY ChannelTypes, Zenon DEF Inv, FlowInv, TypeInv, FinalizeFailed, End
<1>2. PICK new \in Channels : /\ new = [channels EXCEPT !.route = "failed"]
                              /\ new.final = channels.final
                              /\ new.retry_count = channels.retry_count
  <2>1. "failed" \in Route
    BY DEF Route
  <2> QED
    BY <1>1, <2>1, SetRoute, Zenon
<1>3. End("finalize_failed", new)
  BY <1>2, Zenon DEF FinalizeFailed, End
<1>4. new.final = "failed"
  BY <1>1, <1>2, Zenon DEF AfterAnswer
<1>5. channels.retry_count <= new.retry_count
  BY <1>1, <1>2
<1> QED
  BY <1>1, <1>3, <1>4, <1>5, EndInv, Zenon

LEMMA VerifyRebookingInv ==
    ASSUME Inv, VerifyRebooking
    PROVE  Inv'
<1>1. /\ channels \in Channels /\ channels.retry_count \in Nat
      /\ AfterAnswer /\ UNCHANGED <<tables, asked>>
      /\ tasks = {"verify_rebooking"}
  BY ChannelTypes, ZenonT(30) DEF Inv, FlowInv, TypeInv, VerifyRebooking
<1>2. jobs[run] # Message /\ jobs[run].confirmed /\ RowsOf(run) # {}
  BY <1>1 DEF AfterAnswer, Answering, RowsOf
<1>3. ASSUME NEW new, End("verify_rebooking", new),
             new = [channels EXCEPT !.final = "completed", !.route = "completed"]
      PROVE  Inv'
  <2>1. new \in Channels /\ new.retry_count = channels.retry_count
    BY <1>1, <1>3, Zenon DEF Channels, Route
  <2>2. channels.retry_count <= new.retry_count
    BY <1>1, <2>1
  <2> QED
    BY <1>1, <1>2, <1>3, <2>1, <2>2, EndInv, Zenon
<1>4. ASSUME NEW new, NextStep("verify_rebooking", new, {"finalize_failed"}),
             new = [channels EXCEPT !.final = "failed", !.route = "failed"]
      PROVE  Inv'
  <2>1. /\ new \in Channels /\ new.final = "failed"
        /\ new.retry_count = channels.retry_count
    BY <1>1, <1>4, Zenon DEF Channels, Route
  <2>2. /\ TypeInv' /\ Shape' /\ SavedInv' /\ RunInv' /\ BookInv'
        /\ run' = run /\ jobs' = jobs
        /\ answer' = None /\ channels' = new /\ tasks' = {"finalize_failed"}
        /\ reasks' <= MaxRetries /\ reasks' <= channels'.retry_count
    <3>1. \E m \in Node \ Loading : {"finalize_failed"} = {m}
      BY DEF Node, Loading
    <3>2. channels.retry_count <= new.retry_count
      BY <1>1, <2>1
    <3> QED
      BY <1>1, <1>4, <2>1, <3>1, <3>2, NodeFrame, Zenon
  <2> QED
    BY <2>1, <2>2, FailedNext, Zenon
<1>5. VerifyRebooking =>
        \/ End("verify_rebooking",
               [channels EXCEPT !.final = "completed", !.route = "completed"])
        \/ NextStep("verify_rebooking",
                    [channels EXCEPT !.final = "failed", !.route = "failed"],
                    {"finalize_failed"})
  BY Zenon DEF VerifyRebooking
<1> QED
  BY <1>3, <1>4, <1>5, Zenon

-----------------------------------------------------------------------------
(* The rebooking transaction.                                              *)

LEMMA BookInvStep ==
    ASSUME TypeInv, BookInv, NEW sel \in Selection, NEW by \in Job \union {Other},
           PassesRules(sel), Book(sel, by), UNCHANGED calls,
           by # Other => /\ runs[by] > 0 /\ outcome[by] = None
                         /\ jobs[by] \in Answer /\ jobs[by] # Message
                         /\ jobs[by].confirmed /\ jobs[by].selection = sel
    PROVE  /\ BookInv' /\ avail' \in SUBSET Option
           /\ seat' \in [Segment -> Option \union {None}]
           /\ rows' \in Seq(BookingRow)
           /\ Len(rows') \in DOMAIN rows' /\ Len(rows') = Len(rows) + 1
           /\ rows'[Len(rows')] = [by |-> by, segment |-> sel.segment,
                                   option |-> sel.option]
<1> DEFINE row == [by |-> by, segment |-> sel.segment, option |-> sel.option]
           last == Len(rows) + 1
<1>1. /\ sel.segment \in Segment /\ sel.option \in Option
      /\ sel = [segment |-> sel.segment, option |-> sel.option]
  BY DEF Selection
<1>2. rows \in Seq(BookingRow) /\ row \in BookingRow
  BY <1>1 DEF TypeInv, BookingRow
<1>3. /\ rows' = Append(rows, row) /\ jobs' = jobs /\ runs' = runs
      /\ outcome' = outcome /\ seat' = [seat EXCEPT ![sel.segment] = sel.option]
  BY Zenon DEF Book, calls
<1>4. /\ rows' \in Seq(BookingRow) /\ Len(rows) \in Nat
      /\ DOMAIN rows = 1..Len(rows) /\ Len(rows') = last
      /\ DOMAIN rows' = DOMAIN rows \union {last} /\ rows'[last] = row
      /\ \A i \in DOMAIN rows : rows'[i] = rows[i]
  <2>1. rows' = Append(rows, row)
    BY <1>3
  <2> QED
    BY <1>2, <2>1, SMTT(30)
<1>5. avail' \in SUBSET Option /\ seat' \in [Segment -> Option \union {None}]
  <2>1. /\ avail \in SUBSET Option /\ seat \in [Segment -> Option \union {None}]
    BY Zenon DEF TypeInv
  <2>2. seat' \in [Segment -> Option \union {None}]
    BY <1>1, <1>3, <2>1
  <2>3. (avail \union ({seat[sel.segment]} \ {None})) \in SUBSET Option
    BY <1>1, <2>1
  <2> QED
    BY <2>2, <2>3 DEF Book
<1>6. /\ row.by = by /\ row.segment = sel.segment /\ row.option = sel.option
  OBVIOUS
<1>7. RowsInv'
  <2>1. ASSUME NEW n \in DOMAIN rows', rows'[n].by # Other
        PROVE  /\ runs[rows'[n].by] > 0
               /\ jobs[rows'[n].by] \in Answer /\ jobs[rows'[n].by] # Message
               /\ jobs[rows'[n].by].confirmed
               /\ jobs[rows'[n].by].selection = [segment |-> rows'[n].segment,
                                                 option |-> rows'[n].option]
    <3>1. CASE n \in DOMAIN rows
      BY <1>4, <2>1, <3>1, Zenon DEF BookInv, RowsInv
    <3>2. CASE n = last
      BY <1>1, <1>4, <1>6, <2>1, <3>2, Zenon
    <3> QED
      BY <1>4, <2>1, <3>1, <3>2, Zenon
  <2> QED
    BY <1>3, <2>1, Zenon DEF RowsInv
<1>8. ASSUME NEW n \in DOMAIN rows, rows[n].by = by, by # Other
      PROVE  rows[n].segment = sel.segment /\ rows[n].option = sel.option
  <2>1. jobs[by].selection = [segment |-> rows[n].segment, option |-> rows[n].option]
    BY <1>8, Zenon DEF BookInv, RowsInv
  <2> QED
    BY <1>8, <2>1
<1>9. SeatInv'
  <2>1. ASSUME NEW n \in DOMAIN rows', rows'[n].by # Other
        PROVE  \/ seat'[rows'[n].segment] = rows'[n].option
               \/ \E k \in DOMAIN rows' : /\ n < k /\ rows'[k].by # rows'[n].by
                                          /\ rows'[k].segment = rows'[n].segment
    <3>0. seat'[sel.segment] = sel.option
      BY <1>1, <1>3 DEF TypeInv
    <3>1. CASE n = last
      BY <1>4, <1>6, <3>0, <3>1, Zenon
    <3>2. CASE n \in DOMAIN rows /\ rows[n].segment = sel.segment /\ rows[n].by # by
      <4>1. n < last /\ last \in DOMAIN rows'
        BY <1>4, <3>2
      <4> QED
        BY <1>4, <1>6, <3>2, <4>1, ZenonT(30)
    <3>3. CASE n \in DOMAIN rows /\ rows[n].by = by
      BY <1>4, <1>8, <2>1, <3>0, <3>3, Zenon
    <3>4. CASE n \in DOMAIN rows /\ rows[n].segment # sel.segment
      <4>0. rows[n] \in BookingRow
        BY <1>2, <3>4
      <4>1. rows[n].segment \in Segment
        BY <4>0 DEF BookingRow
      <4>2. seat'[rows[n].segment] = seat[rows[n].segment]
        BY <1>3, <3>4, <4>1 DEF TypeInv
      <4>3. rows'[n] = rows[n] /\ rows[n].by # Other
        BY <1>4, <2>1, <3>4, Zenon
      <4>4. \/ seat[rows[n].segment] = rows[n].option
            \/ \E k \in DOMAIN rows : /\ n < k /\ rows[k].by # rows[n].by
                                      /\ rows[k].segment = rows[n].segment
        BY <3>4, <4>3, Zenon DEF BookInv, SeatInv
      <4>5. CASE seat[rows[n].segment] = rows[n].option
        BY <4>2, <4>3, <4>5, Zenon
      <4>6. ASSUME NEW k \in DOMAIN rows, n < k, rows[k].by # rows[n].by,
                   rows[k].segment = rows[n].segment
            PROVE  \E i \in DOMAIN rows' : /\ n < i /\ rows'[i].by # rows'[n].by
                                           /\ rows'[i].segment = rows'[n].segment
        <5>1. k \in DOMAIN rows' /\ rows'[k] = rows[k]
          BY <1>4, <4>6
        <5> QED
          BY <4>3, <4>6, <5>1, ZenonT(30)
      <4> QED
        BY <4>4, <4>5, <4>6, Zenon
    <3> QED
      BY <1>4, <2>1, <3>1, <3>2, <3>3, <3>4, Zenon
  <2> QED
    BY <2>1, Zenon DEF SeatInv
<1>10. CompletedIsOwn'
  <2>1. ASSUME NEW j \in Job, outcome[j] = "completed"
        PROVE  jobs[j] # Message /\ (jobs[j].confirmed <=> RowsOf(j)' # {})
    <3>1. "completed" # None
      BY Bounds DEF Outcome
    <3>2. j # by
      BY <2>1, <3>1, Bounds
    <3>3. RowsOf(j)' = RowsOf(j)
      BY <1>4, <1>6, <3>2 DEF RowsOf
    <3> QED
      BY <2>1, <3>3, ZenonT(30) DEF BookInv, CompletedIsOwn
  <2> QED
    BY <1>3, <2>1, Zenon DEF CompletedIsOwn
<1>11. BookedOncePerAnswer'
  <2>1. ASSUME NEW j \in Job, NEW m \in RowsOf(j)', NEW n \in RowsOf(j)', m < n
        PROVE  \E k \in (m + 1)..(n - 1) :
                   rows'[k].by # j /\ rows'[k].segment = rows'[n].segment
    <3>1. m \in DOMAIN rows /\ rows[m].by = j
      BY <1>4, <2>1 DEF RowsOf
    <3>2. CASE n \in DOMAIN rows
      <4>1. m \in RowsOf(j) /\ n \in RowsOf(j)
        BY <1>4, <2>1, <3>1, <3>2 DEF RowsOf
      <4>2. PICK k \in (m + 1)..(n - 1) :
              rows[k].by # j /\ rows[k].segment = rows[n].segment
        BY <2>1, <4>1, SMTT(30) DEF BookInv, BookedOncePerAnswer
      <4>3. k \in DOMAIN rows
        BY <1>4, <3>1, <3>2, <4>2
      <4> QED
        BY <1>4, <3>2, <4>2, <4>3, Zenon
    <3>3. CASE n = last
      <4>1. by = j /\ by # Other /\ rows'[n].segment = sel.segment
        BY <1>4, <1>6, <2>1, <3>3, Bounds DEF RowsOf
      <4>2. rows[m].segment = sel.segment /\ rows[m].option = sel.option
        BY <1>8, <3>1, <4>1, Zenon
      <4>3. seat[rows[m].segment] # rows[m].option
        BY <4>2, Zenon DEF PassesRules
      <4>4. PICK k \in DOMAIN rows : /\ m < k /\ rows[k].by # rows[m].by
                                     /\ rows[k].segment = rows[m].segment
        BY <3>1, <4>1, <4>3, ZenonT(30) DEF BookInv, SeatInv
      <4>5. k \in (m + 1)..(n - 1)
        BY <1>4, <3>1, <3>3, <4>4
      <4> QED
        BY <1>4, <3>1, <4>1, <4>2, <4>4, <4>5, ZenonT(30)
    <3> QED
      BY <1>4, <2>1, <3>2, <3>3, Zenon DEF RowsOf
  <2> QED
    BY <2>1, Zenon DEF BookedOncePerAnswer
<1>12. BookInv'
  BY <1>7, <1>9, <1>10, <1>11, Zenon DEF BookInv
<1> QED
  BY <1>4, <1>5, <1>12, Zenon

\* What execute_rebooking is about to book.
LEMMA ExecuteFacts ==
    ASSUME Inv, tasks = {"execute_rebooking"}
    PROVE  /\ run \in Job /\ run # Other
           /\ jobs[run] \in Answer /\ jobs[run] # Message /\ jobs[run].confirmed
           /\ jobs[run].selection \in Selection
           /\ channels.validation.selection = jobs[run].selection
           /\ jobs[run].selection.segment = question.segment
           /\ jobs[run].selection.option \in question.options
           /\ runs[run] > 0 /\ outcome[run] = None
<1>1. AfterAnswer /\ RunInv
  BY Zenon DEF Inv, FlowInv, LastInv
<1>2. Answering
  BY <1>1, Zenon DEF AfterAnswer
<1>3. run \in Job /\ run # Other /\ run # 0
  BY <1>2, Bounds DEF Answering
<1> QED
  BY <1>1, <1>2, <1>3, Zenon DEF AfterAnswer, Answering, RunInv

LEMMA ExecuteRebookingInv ==
    ASSUME Inv, ExecuteRebooking
    PROVE  Inv'
<1>1. /\ FlowInv /\ LastInv /\ BookInv /\ TypeInv /\ CountInv
      /\ channels \in Channels /\ channels.retry_count \in Nat
      /\ tasks = {"execute_rebooking"} /\ UNCHANGED asked
  BY ChannelTypes, Zenon DEF Inv, FlowInv, LastInv, TypeInv, ExecuteRebooking
<1>2. PICK sel \in Selection :
        /\ sel = channels.validation.selection /\ jobs[run].selection = sel
  BY <1>1, ExecuteFacts, Zenon
<1>3. reasks <= channels.retry_count
  BY <1>1, Zenon DEF CountInv
<1>4. ASSUME PassesRules(sel), Book(sel, run), UNCHANGED calls
      PROVE  /\ BookInv' /\ avail' \in SUBSET Option
             /\ seat' \in [Segment -> Option \union {None}]
             /\ rows' \in Seq(BookingRow)
             /\ \E i \in DOMAIN rows' : rows'[i].by = run
  <2>1. /\ BookInv' /\ avail' \in SUBSET Option
        /\ seat' \in [Segment -> Option \union {None}]
        /\ rows' \in Seq(BookingRow) /\ Len(rows') \in DOMAIN rows'
        /\ rows'[Len(rows')] = [by |-> run, segment |-> sel.segment,
                                option |-> sel.option]
    BY <1>1, <1>2, <1>4, ExecuteFacts, BookInvStep, Zenon
  <2>2. rows'[Len(rows')].by = run
    BY <2>1
  <2> QED
    BY <2>1, <2>2, Zenon
<1>5. ASSUME NEW new,
             NextStep("execute_rebooking", new, {"verify_rebooking"}),
             new = [channels EXCEPT !.route = "completed"],
             PassesRules(sel), Book(sel, run)
      PROVE  Inv'
  <2>1. new \in Channels /\ new.retry_count = channels.retry_count
    BY <1>1, <1>5 DEF Channels, Route
  <2>2. UNCHANGED calls
    BY <1>5 DEF NextStep
  <2>3. /\ BookInv' /\ avail' \in SUBSET Option
        /\ seat' \in [Segment -> Option \union {None}]
        /\ rows' \in Seq(BookingRow)
        /\ \E i \in DOMAIN rows' : rows'[i].by = run
    BY <1>4, <1>5, <2>2
  <2>4. /\ {"verify_rebooking"} \in SUBSET Node
        /\ \E m \in Node \ Loading : {"verify_rebooking"} = {m}
    BY DEF Node, Loading
  <2>5. /\ TypeInv' /\ Shape' /\ SavedInv' /\ RunInv'
        /\ run' = run /\ jobs' = jobs
        /\ answer' = None /\ tasks' = {"verify_rebooking"}
        /\ reasks' <= MaxRetries /\ reasks' <= channels'.retry_count
    BY <1>1, <1>3, <1>5, <2>1, <2>3, <2>4, StepFrame, Zenon
  <2>6. BeforeQuestion'
    BY <2>5, Zenon DEF BeforeQuestion, Loading
  <2>7. AfterAnswer'
    <3>1. Answering' /\ jobs'[run'].confirmed
      BY <1>1, <2>5, ExecuteFacts, Zenon DEF Answering
    <3> QED
      BY <2>3, <2>5, <3>1, Zenon DEF AfterAnswer
  <2>8. CountInv'
    BY <2>5 DEF CountInv, Asking, Loading
  <2> QED
    BY <2>3, <2>5, <2>6, <2>7, <2>8, Zenon DEF Inv, FlowInv, LastInv
<1>6. ASSUME NEW new,
             NextStep("execute_rebooking", new, {"finalize_failed"}),
             new = NotExecuted,
             (PassesRules(sel) /\ Book(sel, run)) \/ UNCHANGED tables
      PROVE  Inv'
  <2>1. /\ new \in Channels /\ new.retry_count = channels.retry_count
        /\ new.final = "failed"
    BY <1>1, <1>6, Zenon DEF Channels, Route, NotExecuted
  <2>2. UNCHANGED calls
    BY <1>6 DEF NextStep
  <2>3. /\ BookInv' /\ avail' \in SUBSET Option
        /\ seat' \in [Segment -> Option \union {None}]
        /\ rows' \in Seq(BookingRow)
    <3>1. CASE PassesRules(sel) /\ Book(sel, run)
      BY <1>4, <2>2, <3>1, Zenon
    <3>2. CASE UNCHANGED tables
      <4>1. /\ avail' = avail /\ seat' = seat /\ rows' = rows
            /\ jobs' = jobs /\ outcome' = outcome /\ runs' = runs
        BY <2>2, <3>2 DEF tables, calls
      <4>2. BookInv'
        BY <1>1, <4>1, BookFrame, Zenon
      <4> QED
        BY <1>1, <4>1, <4>2, Zenon DEF TypeInv
    <3> QED
      BY <1>6, <3>1, <3>2, Zenon
  <2>4. /\ {"finalize_failed"} \in SUBSET Node
        /\ \E m \in Node \ Loading : {"finalize_failed"} = {m}
    BY DEF Node, Loading
  <2>5. /\ TypeInv' /\ Shape' /\ SavedInv' /\ RunInv'
        /\ answer' = None /\ tasks' = {"finalize_failed"} /\ channels' = new
        /\ reasks' <= MaxRetries /\ reasks' <= channels'.retry_count
    BY <1>1, <1>3, <1>6, <2>1, <2>3, <2>4, StepFrame, Zenon
  <2> QED
    BY <2>1, <2>3, <2>5, FailedNext, Zenon
<1>7. \/ /\ PassesRules(sel) /\ Book(sel, run)
         /\ NextStep("execute_rebooking", [channels EXCEPT !.route = "completed"],
                     {"verify_rebooking"})
      \/ /\ (PassesRules(sel) /\ Book(sel, run)) \/ UNCHANGED tables
         /\ NextStep("execute_rebooking", NotExecuted, {"finalize_failed"})
  BY <1>2, Zenon DEF ExecuteRebooking, PassesRules, Book
<1> QED
  BY <1>5, <1>6, <1>7, Zenon

-----------------------------------------------------------------------------
(* Errors, crashes, other sessions and the start of a run.                 *)

LEMMA AbandonInv ==
    ASSUME Inv, NEW c \in Checkpoint, Abandon(c), UNCHANGED <<tables, asked>>,
           c.asking => Asked(c.channels), reasks <= c.channels.retry_count
    PROVE  Inv'
<1>1. /\ TypeInv /\ CountInv /\ BookInv /\ reasks \in Nat
      /\ question \in Found \union {None}
      /\ outcome \in [Job -> Outcome \union {None}]
  BY Zenon DEF Inv, FlowInv, LastInv, TypeInv
<1>2. /\ channels' = c.channels /\ saved' = <<c>> /\ tasks' = {}
      /\ found' = None /\ answer' = None /\ run' = 0
      /\ jobs' = jobs /\ runs' = runs /\ outcome' = outcome /\ UNCHANGED tables
      /\ seat' = seat /\ rows' = rows
      /\ question' = question /\ reasks' = reasks
  BY SMTT(30) DEF Abandon, calls, asked, tables
<1>3. c.asking => Asked(c.channels)'
  BY <1>2 DEF Asked, Evaluated, Searched, Located
<1>4. reasks' <= MaxRetries /\ reasks' <= c.channels.retry_count
  BY <1>1, <1>2, Zenon DEF CountInv
<1>5. FlowInv' /\ LastInv'
  BY <1>1, <1>2, <1>3, <1>4, ReturnFrame, Zenon
<1>6. BookInv'
  BY <1>1, <1>2, BookFrame, Zenon
<1> QED
  BY <1>5, <1>6, Zenon DEF Inv

LEMMA NodeRaisesInv ==
    ASSUME Inv, NodeRaises
    PROVE  Inv'
<1>1. /\ channels \in Channels /\ AfterAnswer /\ CountInv
      /\ UNCHANGED <<tables, asked>>
  BY Zenon DEF Inv, FlowInv, TypeInv, LastInv, NodeRaises
<1>2. PICK c \in Checkpoint : c = [channels |-> channels, asking |-> answer # None]
  <2>1. (answer # None) \in BOOLEAN
    OBVIOUS
  <2>2. \A b \in BOOLEAN : [channels |-> channels, asking |-> b] \in Checkpoint
    BY <1>1 DEF Checkpoint
  <2>3. [channels |-> channels, asking |-> answer # None] \in Checkpoint
    BY <2>1, <2>2, Zenon
  <2> QED
    BY <2>3, Zenon
<1>3. c.channels = channels /\ (c.asking => answer # None)
  BY <1>2, Zenon
<1>4. Abandon(c)
  BY <1>2, Zenon DEF NodeRaises, Abandon
<1>5. c.asking => Asked(c.channels)
  BY <1>1, <1>3, Zenon DEF AfterAnswer
<1>6. reasks <= c.channels.retry_count
  BY <1>1, <1>3, Zenon DEF CountInv
<1> QED
  BY <1>1, <1>4, <1>5, <1>6, AbandonInv, Zenon

LEMMA CrashInv ==
    ASSUME Inv, Crash
    PROVE  Inv'
<1>1. TypeInv /\ SavedInv /\ UNCHANGED <<tables, asked>>
  BY Zenon DEF Inv, FlowInv, LastInv, Crash
<1>2. PICK n \in DOMAIN saved : Abandon(saved[n])
  BY Zenon DEF Crash
<1>3. PICK c \in Checkpoint : c = saved[n]
  BY <1>1, <1>2, FirstSaved, Zenon
<1>4. Abandon(c) /\ (c.asking => Asked(c.channels))
      /\ reasks <= c.channels.retry_count
  BY <1>1, <1>2, <1>3, Zenon DEF SavedInv, Abandon
<1> QED
  BY <1>1, <1>4, AbandonInv, Zenon

LEMMA TradeInv ==
    ASSUME Inv, Trade
    PROVE  Inv'
<1>1. /\ FlowInv /\ LastInv /\ BookInv /\ TypeInv /\ rows \in Seq(BookingRow)
  BY Zenon DEF Inv, FlowInv, TypeInv
<1>2. /\ channels' = channels /\ tasks' = tasks /\ found' = found
      /\ answer' = answer /\ saved' = saved /\ run' = run /\ jobs' = jobs
      /\ outcome' = outcome /\ runs' = runs /\ question' = question
      /\ reasks' = reasks /\ UNCHANGED calls
  BY DEF Trade, thread, calls, asked
<1>3. /\ BookInv' /\ avail' \in SUBSET Option /\ rows' \in Seq(BookingRow)
      /\ seat' \in [Segment -> Option \union {None}]
      /\ \A n \in DOMAIN rows : n \in DOMAIN rows' /\ rows'[n] = rows[n]
  <2>1. ASSUME NEW sel \in Selection, PassesRules(sel), Book(sel, Other)
        PROVE  /\ BookInv' /\ avail' \in SUBSET Option /\ rows' \in Seq(BookingRow)
               /\ seat' \in [Segment -> Option \union {None}]
               /\ \A n \in DOMAIN rows : n \in DOMAIN rows' /\ rows'[n] = rows[n]
    <3>1. /\ BookInv' /\ avail' \in SUBSET Option /\ rows' \in Seq(BookingRow)
          /\ seat' \in [Segment -> Option \union {None}]
      BY <1>1, <1>2, <2>1, BookInvStep, Zenon
    <3>2. [by |-> Other, segment |-> sel.segment, option |-> sel.option]
            \in BookingRow
      BY <2>1 DEF BookingRow, Selection
    <3>3. \A n \in DOMAIN rows : n \in DOMAIN rows' /\ rows'[n] = rows[n]
      <4>1. rows \in Seq(BookingRow)
        BY <1>1
      <4>2. PICK row \in BookingRow : rows' = Append(rows, row)
        BY <2>1, <3>2, Zenon DEF Book
      <4> QED
        BY <4>1, <4>2, SMTT(30)
    <3> QED
      BY <3>1, <3>3
  <2>2. CASE avail' \in SUBSET Option /\ UNCHANGED <<seat, rows>>
    <3>1. seat' = seat /\ rows' = rows
      BY <2>2
    <3>2. BookInv'
      BY <1>1, <1>2, <3>1, BookFrame, Zenon
    <3> QED
      BY <1>1, <2>2, <3>1, <3>2 DEF TypeInv
  <2> QED
    BY <2>1, <2>2, Zenon DEF Trade
<1>4. TypeInv'
  BY <1>1, <1>2, <1>3, Zenon DEF TypeInv
<1>5. Shape'
  BY <1>1, <1>2, Zenon DEF FlowInv, Shape
<1>6. BeforeQuestion'
  BY <1>1, <1>2 DEF FlowInv, BeforeQuestion, Evaluated, Searched, Located
<1>7. AfterAnswer'
  BY <1>1, <1>2, <1>3, Zenon
     DEF FlowInv, AfterAnswer, Answering, Asked, Evaluated, Searched, Located
<1>8. SavedInv'
  BY <1>1, <1>2, SavedFrame, Zenon DEF LastInv
<1>9. CountInv' /\ RunInv'
  BY <1>1, <1>2, Zenon DEF LastInv, CountInv, RunInv
<1> QED
  BY <1>3, <1>4, <1>5, <1>6, <1>7, <1>8, <1>9, Zenon DEF Inv, FlowInv, LastInv

\* A job's request is fixed once it has run.
LEMMA StartBookInv ==
    ASSUME TypeInv, BookInv, NEW j \in Job, NEW job \in Answer \union {Message},
           Start(j, job)
    PROVE  BookInv'
<1>1. /\ outcome[j] = None /\ jobs' = [jobs EXCEPT ![j] = job]
      /\ runs' = [runs EXCEPT ![j] = @ + 1] /\ seat' = seat /\ rows' = rows
      /\ runs[j] # 0 => job = jobs[j]
  BY DEF Start, tables
<1>2. /\ jobs \in [Job -> Answer \union {None, Message}]
      /\ runs \in [Job -> 0..MaxRuns]
      /\ outcome \in [Job -> Outcome \union {None}]
  BY Zenon DEF TypeInv
<1>3. \A i \in Job : runs[i] > 0 => jobs'[i] = jobs[i] /\ runs'[i] > 0
  BY <1>1, <1>2, Bounds
<1>4. RowsInv'
  <2>1. ASSUME NEW n \in DOMAIN rows', rows'[n].by # Other
        PROVE  /\ runs'[rows'[n].by] > 0
               /\ jobs'[rows'[n].by] \in Answer /\ jobs'[rows'[n].by] # Message
               /\ jobs'[rows'[n].by].confirmed
               /\ jobs'[rows'[n].by].selection = [segment |-> rows'[n].segment,
                                                  option |-> rows'[n].option]
    <3>1. rows[n] \in BookingRow /\ n \in DOMAIN rows
      BY <1>1, <2>1 DEF TypeInv
    <3>2. rows[n].by \in Job
      BY <1>1, <2>1, <3>1, Zenon DEF BookingRow
    <3>3. runs[rows[n].by] > 0
      BY <1>1, <2>1, <3>1, Zenon DEF BookInv, RowsInv
    <3>4. jobs'[rows[n].by] = jobs[rows[n].by] /\ runs'[rows[n].by] > 0
      BY <1>3, <3>2, <3>3, Zenon
    <3> QED
      BY <1>1, <2>1, <3>1, <3>4, Zenon DEF BookInv, RowsInv
  <2> QED
    BY <2>1, Zenon DEF RowsInv
<1>5. SeatInv'
  BY <1>1, Zenon DEF BookInv, SeatInv
<1>6. \A i \in Job : RowsOf(i)' = RowsOf(i)
  BY <1>1, Zenon DEF RowsOf
<1>7. CompletedIsOwn'
  <2>1. "completed" # None /\ "completed" # "no_pending_input"
    BY Bounds DEF Outcome
  <2>2. \/ outcome' = outcome
        \/ outcome' = [outcome EXCEPT ![j] = "no_pending_input"]
    BY DEF Start, RunMessage, ResumeJob, ResumeAlways
  <2>3. \A i \in Job : outcome'[i] = "completed" =>
            i # j /\ outcome[i] = "completed" /\ jobs'[i] = jobs[i]
    BY <1>1, <1>2, <2>1, <2>2, SMTT(30)
  <2> QED
    BY <1>6, <2>3, Zenon DEF BookInv, CompletedIsOwn
<1>8. BookedOncePerAnswer'
  BY <1>1 DEF BookInv, BookedOncePerAnswer, RowsOf
<1> QED
  BY <1>4, <1>5, <1>7, <1>8, Zenon DEF BookInv

LEMMA StartInv ==
    ASSUME Inv, NEW j \in Job, NEW job \in Answer \union {Message}, Start(j, job)
    PROVE  Inv'
<1>1. /\ TypeInv /\ Shape /\ AfterAnswer /\ SavedInv /\ CountInv /\ BookInv
      /\ channels \in Channels /\ saved \in Seq(Checkpoint) /\ reasks \in Nat
      /\ jobs \in [Job -> Answer \union {None, Message}]
      /\ runs \in [Job -> 0..MaxRuns]
      /\ outcome \in [Job -> Outcome \union {None}]
  BY Zenon DEF Inv, FlowInv, LastInv, TypeInv
<1>2. /\ run = 0 /\ outcome[j] = None /\ runs[j] < MaxRuns
      /\ jobs' = [jobs EXCEPT ![j] = job] /\ runs' = [runs EXCEPT ![j] = @ + 1]
      /\ avail' = avail /\ seat' = seat /\ rows' = rows
      /\ question' = question /\ reasks' = reasks
  BY Zenon DEF Start, tables, asked
<1>3. tasks = {} /\ answer = None
  BY <1>1, <1>2, Zenon DEF Shape, AfterAnswer
<1>4. /\ jobs' \in [Job -> Answer \union {None, Message}] /\ jobs'[j] = job
      /\ runs' \in [Job -> 0..MaxRuns] /\ runs'[j] > 0
  BY <1>1, <1>2, Bounds
<1>5. BookInv'
  BY <1>1, StartBookInv, Zenon
<1>6. reasks <= MaxRetries /\ reasks <= channels.retry_count
  BY <1>1, Zenon DEF CountInv
<1>7. j # 0 /\ None \notin Answer
  BY Bounds
<1>9. CASE job = Message
  <2>1. PICK c \in Checkpoint : c = [channels |-> channels, asking |-> FALSE]
    BY <1>1, Zenon DEF Checkpoint
  <2>2. /\ run' = j /\ tasks' = {"understand_request"} /\ saved' = Append(saved, c)
        /\ channels' = channels /\ found' = found /\ answer' = None
        /\ outcome' = outcome
    BY <1>3, <1>9, <2>1 DEF Start, RunMessage
  <2>3. /\ saved' \in Seq(Checkpoint) /\ saved' # <<>>
        /\ DOMAIN saved' = DOMAIN saved \union {Len(saved) + 1}
        /\ saved'[Len(saved) + 1] = c
        /\ \A i \in DOMAIN saved : saved'[i] = saved[i]
    <3>1. saved \in Seq(Checkpoint) /\ saved' = Append(saved, c)
      BY <1>1, <2>2, Zenon
    <3> QED
      BY <2>1, <3>1, SMTT(30)
  <2>4. {"understand_request"} \in SUBSET Node /\ "understand_request" \in Node \ Loading
    BY DEF Node, Loading
  <2>5. TypeInv'
    BY <1>1, <1>2, <1>4, <2>2, <2>3, <2>4, Zenon DEF TypeInv
  <2>6. Shape'
    BY <1>7, <2>2, <2>4, Zenon DEF Shape
  <2>7. BeforeQuestion'
    BY <1>4, <1>9, <2>2, Zenon DEF BeforeQuestion, Loading
  <2>8. AfterAnswer'
    BY <2>2, Zenon DEF AfterAnswer
  <2>9. SavedInv'
    <3>1. c.channels = channels /\ c.asking = FALSE
      BY <2>1
    <3>2. ASSUME NEW i \in DOMAIN saved'
          PROVE  /\ saved'[i].asking => Asked(saved[i].channels)'
                 /\ reasks' <= saved'[i].channels.retry_count
      <4>1. CASE i \in DOMAIN saved
        <5>1. saved'[i] = saved[i]
          BY <2>3, <4>1, ZenonT(30)
        <5>2. Asked(saved[i].channels) => Asked(saved[i].channels)'
          BY <5>1, <1>2 DEF Asked, Evaluated, Searched, Located
        <5> QED
          BY <1>1, <1>2, <4>1, <5>1, <5>2, Zenon DEF SavedInv
      <4>2. CASE i = Len(saved) + 1
        BY <1>2, <1>6, <2>3, <3>1, <4>2, Zenon
      <4> QED
        BY <2>3, <4>1, <4>2, Zenon
    <3> QED
      BY <1>7, <2>2, <3>2, Zenon DEF SavedInv
  <2>10. CountInv'
    BY <1>2, <1>6, <2>2 DEF CountInv, Asking, Loading
  <2>11. RunInv'
    BY <1>2, <1>4, <2>2, Zenon DEF RunInv
  <2> QED
    BY <1>5, <2>5, <2>6, <2>7, <2>8, <2>9, <2>10, <2>11, Zenon
       DEF Inv, FlowInv, LastInv
<1>10. CASE job # Message /\ saved[1].asking
  <2>1. /\ run' = j /\ tasks' = {"ask_confirmation"} /\ answer' = job
        /\ channels' = channels /\ found' = found /\ saved' = saved
        /\ outcome' = outcome /\ job \in Answer /\ job # None
    BY <1>7, <1>10 DEF Start, ResumeJob, ResumeAlways
  <2>2. Asked(channels)
    BY <1>1, <1>2, <1>10, FirstSaved, Zenon DEF SavedInv
  <2>3. Asked(channels)'
    BY <1>2, <2>1, <2>2, Zenon DEF Asked, Evaluated, Searched, Located
  <2>4. {"ask_confirmation"} \in SUBSET Node /\ "ask_confirmation" \in Node \ Loading
    BY DEF Node, Loading
  <2>5. TypeInv'
    BY <1>1, <1>2, <1>4, <2>1, <2>4, Zenon DEF TypeInv
  <2>6. Shape'
    BY <1>7, <2>1, <2>4, Zenon DEF Shape
  <2>7. BeforeQuestion'
    BY <2>1, <2>3, Zenon DEF BeforeQuestion, Loading, Asked
  <2>8. AfterAnswer'
    <3>1. Answering' /\ answer' = jobs'[run']
      BY <1>4, <1>10, <2>1, Zenon DEF Answering
    <3> QED
      BY <2>1, <2>3, <3>1, ZenonT(30) DEF AfterAnswer
  <2>9. SavedInv'
    <3>1. ASSUME NEW i \in DOMAIN saved
          PROVE  Asked(saved[i].channels) => Asked(saved[i].channels)'
      BY <1>2, <2>1, Zenon DEF Asked, Evaluated, Searched, Located
    <3> QED
      BY <1>1, <1>2, <1>7, <2>1, <3>1, Zenon DEF SavedInv
  <2>10. CountInv'
    BY <1>2, <1>6, <2>1, Zenon DEF CountInv
  <2>11. RunInv'
    BY <1>2, <1>4, <2>1, Zenon DEF RunInv
  <2> QED
    BY <1>5, <2>5, <2>6, <2>7, <2>8, <2>9, <2>10, <2>11, Zenon
       DEF Inv, FlowInv, LastInv
<1>11. CASE job # Message /\ ~saved[1].asking
  <2>1. /\ channels' = channels /\ tasks' = tasks /\ found' = found
        /\ answer' = answer /\ saved' = saved /\ run' = run
        /\ outcome' = [outcome EXCEPT ![j] = "no_pending_input"]
    BY <1>11 DEF Start, ResumeJob, thread
  <2>2. outcome' \in [Job -> Outcome \union {None}]
    BY <1>1, <2>1 DEF Outcome
  <2>3. TypeInv'
    BY <1>1, <1>2, <1>4, <2>1, <2>2, Zenon DEF TypeInv
  <2>4. Shape' /\ RunInv' /\ CountInv'
    BY <1>1, <1>2, <1>3, <1>6, <2>1, Zenon DEF Shape, RunInv, CountInv
  <2>5. BeforeQuestion' /\ AfterAnswer'
    BY <1>3, <2>1, Zenon DEF BeforeQuestion, AfterAnswer
  <2>6. SavedInv'
    BY <1>1, <1>2, <2>1, SavedFrame, Zenon
  <2> QED
    BY <1>5, <2>3, <2>4, <2>5, <2>6, Zenon DEF Inv, FlowInv, LastInv
<1> QED
  BY <1>9, <1>10, <1>11

-----------------------------------------------------------------------------
(* The theorems.                                                           *)

LEMMA InitInv == Init => Inv
<1> SUFFICES ASSUME Init PROVE Inv
  OBVIOUS
<1>1. /\ saved = <<[channels |-> channels, asking |-> FALSE]>>
      /\ tasks = {} /\ found = None /\ answer = None /\ run = 0
      /\ jobs = [j \in Job |-> None] /\ outcome = [j \in Job |-> None]
      /\ runs = [j \in Job |-> 0] /\ avail = Option
      /\ seat = [t \in Segment |-> None] /\ rows = <<>>
      /\ question = None /\ reasks = 0
  BY Zenon DEF Init
<1>2. channels \in Channels /\ channels.retry_count = 0
  BY Zenon DEF Init, Channels
<1>3. PICK c \in Checkpoint : c = [channels |-> channels, asking |-> FALSE]
  BY <1>2, Zenon DEF Checkpoint
<1>4. /\ saved \in Seq(Checkpoint) /\ saved # <<>>
      /\ DOMAIN saved = {1} /\ saved[1] = c
      /\ c.channels = channels /\ c.asking = FALSE
  BY <1>1, <1>3, SingletonFacts
<1>5. /\ rows \in Seq(BookingRow) /\ DOMAIN rows = {}
  BY <1>1
<1>6. TypeInv
  <2>1. /\ runs \in [Job -> 0..MaxRuns] /\ reasks \in Nat
    BY <1>1, Bounds
  <2>2. /\ jobs \in [Job -> Answer \union {None, Message}]
        /\ outcome \in [Job -> Outcome \union {None}]
        /\ seat \in [Segment -> Option \union {None}]
    BY <1>1
  <2> QED
    BY <1>1, <1>2, <1>4, <1>5, <2>1, <2>2 DEF TypeInv
<1>7. Shape /\ RunInv
  BY <1>1, ZenonT(30) DEF Shape, RunInv
<1>8. BeforeQuestion /\ AfterAnswer
  BY <1>1, ZenonT(30) DEF BeforeQuestion, AfterAnswer
<1>9. SavedInv
  BY <1>1, <1>2, <1>4 DEF SavedInv
<1>10. CountInv
  BY <1>1, <1>2, Bounds DEF CountInv
<1>11. RowsInv /\ SeatInv
  BY <1>5, ZenonT(30) DEF RowsInv, SeatInv
<1>12. CompletedIsOwn /\ BookedOncePerAnswer
  <2>1. "completed" # None
    BY Bounds DEF Outcome
  <2> QED
    BY <1>1, <1>5, <2>1 DEF CompletedIsOwn, BookedOncePerAnswer, RowsOf
<1> QED
  BY <1>6, <1>7, <1>8, <1>9, <1>10, <1>11, <1>12, Zenon
     DEF Inv, FlowInv, LastInv, BookInv

LEMMA NextInv == Inv /\ [Next]_vars => Inv'
<1> SUFFICES ASSUME Inv, [Next]_vars PROVE Inv'
  OBVIOUS
<1>1. CASE \E j \in Job, job \in Answer \union {Message} : Start(j, job)
  BY <1>1, StartInv, Zenon
<1>2. CASE Step
  BY <1>2, UnderstandRequestInv, GetReservationInv, SearchAlternativesInv,
     GetTravelCreditsInv, EvaluateOptionsInv, AskConfirmationInv,
     TakeAnswerInv, ValidateChangeInv, ExplainInvalidChangeInv,
     RefreshContextInv, ExecuteRebookingInv, VerifyRebookingInv,
     FinalizeDeclinedInv, FinalizeFailedInv, NodeRaisesInv, Zenon DEF Step
<1>3. CASE Crash
  BY <1>3, CrashInv, Zenon
<1>4. CASE Trade
  BY <1>4, TradeInv, Zenon
<1>5. CASE UNCHANGED vars
  <2>1. /\ channels' = channels /\ tasks' = tasks /\ found' = found
        /\ answer' = answer /\ saved' = saved /\ run' = run /\ jobs' = jobs
        /\ outcome' = outcome /\ runs' = runs /\ avail' = avail /\ seat' = seat
        /\ rows' = rows /\ question' = question /\ reasks' = reasks
    BY <1>5 DEF vars, thread, calls, tables, asked
  <2>2. TypeInv' /\ Shape' /\ CountInv' /\ RunInv'
    BY <2>1, Zenon DEF Inv, FlowInv, LastInv, TypeInv, Shape, CountInv, RunInv
  <2>3. BeforeQuestion'
    BY <2>1, Zenon
    DEF Inv, FlowInv, BeforeQuestion, Evaluated, Searched, Located
  <2>4. AfterAnswer'
    BY <2>1, ZenonT(30)
    DEF Inv, FlowInv, AfterAnswer, Answering, Asked, Evaluated, Searched,
       Located
  <2>5. SavedInv' /\ BookInv'
    BY <2>1, SavedFrame, BookFrame, Zenon DEF Inv, LastInv
  <2> QED
    BY <2>2, <2>3, <2>4, <2>5, Zenon DEF Inv, FlowInv, LastInv
<1> QED
  BY <1>1, <1>2, <1>3, <1>4, <1>5, Zenon DEF Next

\* The inductive invariant holds.
THEOREM InvHolds == Spec => []Inv
BY InitInv, NextInv, PTL DEF Spec

\* The channels, the checkpoints and the outcomes keep their types, and no
\* open question lacks its evaluation (checkpoints of app/agent/graph.py).
THEOREM TypeOKHolds == Spec => []TypeOK
<1>1. Inv => TypeOK
  <2> SUFFICES ASSUME Inv PROVE TypeOK
    OBVIOUS
  <2>1. TypeInv /\ SavedInv
    BY Zenon DEF Inv, FlowInv, LastInv
  <2>2. ASSUME NEW n \in DOMAIN saved
        PROVE  /\ saved[n].channels \in Channels
               /\ saved[n].asking => saved[n].channels.evaluation # None
    <3>1. saved[n] \in Checkpoint
      BY <2>1, <2>2, FirstSaved, Zenon
    <3>2. saved[n].channels \in Channels
      BY <3>1, Zenon DEF Checkpoint
    <3>3. ASSUME Asked(saved[n].channels)
          PROVE  saved[n].channels.evaluation \in Evaluation
      BY <3>3, SMTT(30)
      DEF Asked, Evaluated, Searched, Located, Found, Evaluation
    <3> QED
      BY <2>1, <2>2, <3>2, <3>3, Bounds, Zenon DEF SavedInv
  <2> QED
    BY <2>1, <2>2 DEF TypeInv, TypeOK
<1> QED
  BY <1>1, InvHolds, PTL

\* A job reported as completed did what its own answer says (JobService._finish
\* on the result AgentRunner returns).
THEOREM CompletedIsOwnHolds == Spec => []CompletedIsOwn
<1>1. Inv => CompletedIsOwn
  BY Zenon DEF Inv, BookInv
<1> QED
  BY <1>1, InvHolds, PTL

\* An answer run again books again only after someone else moved the segment
\* (execute_rebooking after a lost checkpoint).
THEOREM BookedOncePerAnswerHolds == Spec => []BookedOncePerAnswer
<1>1. Inv => BookedOncePerAnswer
  BY Zenon DEF Inv, BookInv
<1> QED
  BY <1>1, InvHolds, PTL

\* A conversation repeats its question at most max_retries times
\* (explain_invalid_change).
THEOREM ReasksBoundedHolds == Spec => []ReasksBounded
<1>1. Inv => ReasksBounded
  BY Zenon DEF Inv, LastInv, CountInv, ReasksBounded
<1> QED
  BY <1>1, InvHolds, PTL

LEMMA TradesCount == Spec => [](trades \in Nat)
<1>1. Init => trades \in Nat
  BY DEF Init
<1>2. trades \in Nat /\ [Next]_vars => (trades \in Nat)'
  <2>1. Trade => trades' = trades + 1
    BY Zenon DEF Trade
  <2>2. [Next]_vars => UNCHANGED trades \/ Trade
    <3>1. Step => UNCHANGED trades
      BY Zenon
      DEF Step, UnderstandRequest, GetReservation, SearchAlternatives,
         GetTravelCredits, Loaded, EvaluateOptions, AskConfirmation,
         TakeAnswer, ValidateChange, ExplainInvalidChange, RefreshContext,
         ExecuteRebooking, VerifyRebooking, FinalizeDeclined, FinalizeFailed,
         NodeRaises, budget
    <3>2. ASSUME NEW j, NEW job, Start(j, job) PROVE UNCHANGED trades
      BY <3>2 DEF Start, budget
    <3>3. Crash => UNCHANGED trades
      BY DEF Crash
    <3>4. UNCHANGED vars => UNCHANGED trades
      BY DEF vars, budget
    <3> QED
      BY <3>1, <3>2, <3>3, <3>4, Zenon DEF Next
  <2> QED
    BY <2>1, <2>2
<1> QED
  BY <1>1, <1>2, PTL DEF Spec

LEMMA ExecuteBooksOffered ==
    ASSUME Inv, ExecuteRebooking
    PROVE  BooksOffered
<1>1. TypeInv /\ BookInv /\ tasks = {"execute_rebooking"} /\ rows \in Seq(BookingRow)
  BY Zenon DEF Inv, FlowInv, TypeInv, ExecuteRebooking
<1>2. PICK sel \in Selection :
        /\ sel = channels.validation.selection /\ jobs[run].selection = sel
  BY <1>1, ExecuteFacts, Zenon
<1>3. /\ UNCHANGED calls
      /\ (PassesRules(sel) /\ Book(sel, run)) \/ UNCHANGED tables
  BY <1>2, Zenon DEF ExecuteRebooking, NextStep, PassesRules, Book
<1>4. CASE UNCHANGED tables
  <2>1. rows' = rows /\ Len(rows) \in Nat
    BY <1>1, <1>4 DEF tables
  <2>2. ~(Len(rows') > Len(rows))
    BY <2>1
  <2> QED
    BY <2>2, Zenon DEF BooksOffered
<1>5. CASE PassesRules(sel) /\ Book(sel, run)
  <2>1. PICK row : /\ row = rows'[Len(rows')]
                   /\ row = [by |-> run, segment |-> sel.segment,
                             option |-> sel.option]
    BY <1>1, <1>2, <1>3, <1>5, ExecuteFacts, BookInvStep, Zenon
  <2>2. /\ row.by = run /\ row.segment = sel.segment /\ row.option = sel.option
        /\ sel = [segment |-> row.segment, option |-> row.option]
    BY <1>2, <2>1, SMTT(30) DEF Selection
  <2>3. /\ jobs[run] # Message /\ jobs[run].confirmed
        /\ sel.segment = question.segment /\ sel.option \in question.options
    BY <1>1, <1>2, ExecuteFacts, Zenon
  <2> QED
    BY <1>2, <2>1, <2>2, <2>3, Zenon DEF BooksOffered
<1> QED
  BY <1>3, <1>4, <1>5

\* execute_rebooking books what the running job confirmed and the last question
\* offered.
THEOREM BookedAsOfferedHolds == Spec => BookedAsOffered
<1>1. Inv /\ trades \in Nat /\ [Next]_vars => [BooksOffered]_vars
  <2> SUFFICES ASSUME Inv, trades \in Nat, [Next]_vars PROVE BooksOffered
    BY Zenon
  <2>1. CASE ExecuteRebooking
    BY <2>1, ExecuteBooksOffered, Zenon
  <2>2. CASE Trade
    <3>1. ~ UNCHANGED trades
      BY <2>2 DEF Trade
    <3> QED
      BY <3>1, Zenon DEF BooksOffered
  <2>3. CASE UNCHANGED rows
    <3>1. rows \in Seq(BookingRow)
      BY Zenon DEF Inv, FlowInv, TypeInv
    <3>2. ~(Len(rows') > Len(rows))
      BY <2>3, <3>1
    <3> QED
      BY <3>2, Zenon DEF BooksOffered
  <2>4. UNCHANGED rows \/ Trade \/ ExecuteRebooking
    <3>1. Step => UNCHANGED rows \/ ExecuteRebooking
      BY Zenon
      DEF Step, UnderstandRequest, GetReservation, SearchAlternatives,
         GetTravelCredits, Loaded, EvaluateOptions, AskConfirmation,
         TakeAnswer, ValidateChange, ExplainInvalidChange, RefreshContext,
         VerifyRebooking, FinalizeDeclined, FinalizeFailed, NodeRaises, tables
    <3>2. ASSUME NEW j, NEW job, Start(j, job) PROVE UNCHANGED rows
      BY <3>2 DEF Start, tables
    <3>3. Crash => UNCHANGED rows
      BY DEF Crash, tables
    <3>4. UNCHANGED vars => UNCHANGED rows
      BY DEF vars, tables
    <3> QED
      BY <3>1, <3>2, <3>3, <3>4, Zenon DEF Next
  <2> QED
    BY <2>1, <2>2, <2>3, <2>4
<1> QED
  BY <1>1, InvHolds, TradesCount, PTL DEF Spec, BookedAsOffered
=============================================================================
