---------------------------- MODULE AgentWorkflow ----------------------------
(***************************************************************************)
(* One conversation of the rebooking agent: the StateGraph of               *)
(* app/agent/graph.py, its nodes, and AgentRunner.                          *)
(*                                                                          *)
(* LangGraph runs the graph in supersteps.  The nodes of a superstep run    *)
(* side by side and their writes reach the channels when all have finished; *)
(* the checkpoint of a superstep is written in the background while the     *)
(* next one runs, so a crash may lose the latest ones, and is complete when *)
(* the run returns.  interrupt() ends the run with a question, which stays  *)
(* open in the checkpoint until it is answered or a new message starts the  *)
(* graph again.  The channels keep their values from one message to the     *)
(* next.                                                                    *)
(*                                                                          *)
(* The conversation lock admits one job at a time (JobWorkers).  A job      *)
(* whose run raised or crashed may be run again, with others in between.    *)
(* Other sessions sell seats and rebook segments at any moment.             *)
(***************************************************************************)
EXTENDS Integers, Sequences

CONSTANTS
    Booking, Segment, Option,   \* an option is a flight and a fare class
    None, Message,
    SegmentsOf,   \* Booking -> its segments, in order
    RouteOf,      \* the route of each segment and of each option
    MaxRetries,   \* AgentRunner max_retries
    MaxJobs, MaxRuns, MaxFaults, MaxTrades   \* bounds

ASSUME AgentWorkflowAssumption ==
    /\ SegmentsOf \in [Booking -> Seq(Segment) \ {<<>>}]
    /\ DOMAIN RouteOf = Segment \union Option
    /\ None \notin Segment \union Option \union Booking
    /\ {MaxRetries, MaxJobs, MaxRuns, MaxFaults, MaxTrades} \subseteq Nat

VARIABLES
    channels,   \* AgentState
    tasks,      \* the nodes of this superstep that have not finished
    found,      \* what search_alternatives wrote in this superstep
    answer,     \* the resume value no interrupt() has taken yet
    saved,      \* the checkpoints of this run, the first of them durable
    run,        \* the job being run, 0 for none
    jobs,       \* what each job asks for: a message or an answer
    outcome,    \* what JobService._finish makes of each job
    runs,       \* runs of each job
    avail,      \* options with enough seats
    seat,       \* the option each segment was moved to
    rows,       \* flight_changes, with the job that wrote the row
    question,   \* the alternatives of the last question
    reasks,     \* questions that followed an invalid selection
    faults, trades

thread == <<channels, tasks, found, answer, saved, run>>
calls == <<jobs, outcome, runs>>
tables == <<avail, seat, rows>>
asked == <<question, reasks>>
budget == <<faults, trades>>
vars == <<thread, calls, tables, asked, budget>>

-----------------------------------------------------------------------------
Job == 1..MaxJobs
Other == 0   \* a session other than this conversation

Request == [booking : Booking, segment : Segment \union {None}]
Found == [segment : Segment, options : SUBSET Option]
Selection == [segment : Segment, option : Option]

\* The resume values validate_request lets through.
Answer == {[confirmed |-> FALSE, selection |-> None]}
          \union [confirmed : {TRUE}, selection : Selection]

Route == {"valid", "invalid", "declined", "retry", "completed", "failed"}

Node == {"understand_request", "get_reservation", "search_alternatives",
         "get_travel_credits", "refresh_context", "evaluate_options",
         "ask_confirmation", "validate_change", "explain_invalid_change",
         "execute_rebooking", "verify_rebooking", "finalize_failed",
         "finalize_declined"}

\* AgentState.  The travel credits only inform the language model and are left
\* out; the context is the request whose reservation was read.
Evaluation == [request : Request, options : SUBSET Option]
Channels ==
    [request : Request \union {None},
     context : Request \union {None},
     search_result : Found \union {None},
     evaluation : Evaluation \union {None},
     confirmation : [answer : Answer, evaluation : Evaluation] \union {None},
     validation : [valid : BOOLEAN, selection : Selection \union {None}]
                  \union {None},
     final : {None, "completed", "declined", "failed"},
     route : Route \union {None},
     retry_count : Nat]

\* What JobService makes of a run that returns.
Outcome == {"waiting_for_confirmation", "completed", "failed",
            "no_pending_input"}

ASSUME NoneAssumption ==
    None \notin Answer /\ None \notin Evaluation /\ None \notin Outcome

Init ==
    /\ channels = [request |-> None, context |-> None, search_result |-> None,
                   evaluation |-> None, confirmation |-> None,
                   validation |-> None, final |-> None, route |-> None,
                   retry_count |-> 0]
    /\ saved = <<[channels |-> channels, asking |-> FALSE]>>
    /\ tasks = {} /\ found = None /\ answer = None /\ run = 0
    /\ jobs = [j \in Job |-> None]
    /\ outcome = [j \in Job |-> None]
    /\ runs = [j \in Job |-> 0]
    /\ avail = Option
    /\ seat = [s \in Segment |-> None]
    /\ rows = <<>>
    /\ question = None /\ reasks = 0
    /\ faults = 0 /\ trades = 0

-----------------------------------------------------------------------------
(***************************************************************************)
(* The library: supersteps, checkpoints and the end of a run.               *)
(***************************************************************************)
\* The superstep of node n ends with the channels new and starts the nodes next.
NextStep(n, new, next) ==
    /\ tasks = {n}
    /\ channels' = new
    /\ tasks' = next
    /\ saved' = Append(saved, [channels |-> new, asking |-> FALSE])
    /\ found' = None /\ answer' = None
    /\ UNCHANGED <<run, calls>>

\* The run returns, its last checkpoint c durable, and its job gets an outcome.
Return(c, status) ==
    /\ channels' = c.channels /\ saved' = <<c>>
    /\ tasks' = {} /\ found' = None /\ answer' = None /\ run' = 0
    /\ outcome' = [outcome EXCEPT ![run] = status]
    /\ UNCHANGED <<jobs, runs>>

\* _finish: a run without a question succeeded unless its final result failed.
Finished(new) == IF new.final = "failed" THEN "failed" ELSE "completed"

End(n, new) ==
    /\ tasks = {n}
    /\ Return([channels |-> new, asking |-> FALSE], Finished(new))

\* A node raises, or its process dies: the job stays without an outcome.
Abandon(c) ==
    /\ channels' = c.channels /\ saved' = <<c>>
    /\ tasks' = {} /\ found' = None /\ answer' = None /\ run' = 0
    /\ UNCHANGED calls

-----------------------------------------------------------------------------
(***************************************************************************)
(* AgentRunner.                                                             *)
(***************************************************************************)
\* run(): the graph starts again, whatever question was open.
RunMessage(j) ==
    /\ run' = j
    /\ tasks' = {"understand_request"}
    /\ saved' = Append(saved, [channels |-> channels, asking |-> FALSE])
    /\ UNCHANGED <<channels, found, answer, outcome>>

\* resume(): without an open question the job is dead-lettered, otherwise
\* ask_confirmation runs once more and its interrupt() returns the answer.
\* Mutant: the open question is not looked up.
ResumeAlways(j, a) ==
    /\ run' = j
    /\ tasks' = {"ask_confirmation"}
    /\ answer' = a
    /\ UNCHANGED <<channels, found, saved, outcome>>

ResumeJob(j, a) ==
    IF saved[1].asking
    THEN ResumeAlways(j, a)
    ELSE /\ outcome' = [outcome EXCEPT ![j] = "no_pending_input"]
         /\ UNCHANGED thread

\* A job without an outcome gets the conversation: a new one, or one whose
\* earlier run raised or crashed.
Start(j, job) ==
    /\ run = 0
    /\ outcome[j] = None
    /\ runs[j] < MaxRuns
    /\ IF runs[j] = 0 THEN \A i \in 1..(j - 1) : runs[i] > 0
                      ELSE job = jobs[j]
    /\ jobs' = [jobs EXCEPT ![j] = job]
    /\ runs' = [runs EXCEPT ![j] = @ + 1]
    /\ IF job = Message THEN RunMessage(j) ELSE ResumeJob(j, job)
    /\ UNCHANGED <<tables, asked, budget>>

-----------------------------------------------------------------------------
(***************************************************************************)
(* The nodes up to the question.                                            *)
(***************************************************************************)
\* The language model may understand any request.
UnderstandRequest ==
    /\ \E r \in Request :
         NextStep("understand_request", [channels EXCEPT !.request = r],
                  {"get_reservation"})
    /\ UNCHANGED <<tables, asked, budget>>

Loading == {"search_alternatives", "get_travel_credits"}

GetReservation ==
    /\ NextStep("get_reservation",
                [channels EXCEPT !.context = channels.request], Loading)
    /\ UNCHANGED <<tables, asked, budget>>

\* _selected_segment: the requested segment when the reservation has it, the
\* only segment when none was requested.
SegmentsFor(request) ==
    LET segments == SegmentsOf[request.booking]
    IN IF request.segment # None
       THEN {segments[i] : i \in DOMAIN segments} \intersect {request.segment}
       ELSE IF Len(segments) = 1 THEN {segments[1]} ELSE {}

\* search_rebooking_options: the scheduled, changeable options of the route
\* with enough seats.
OptionsFor(s) == {o \in avail : RouteOf[o] = RouteOf[s]}

\* A loading node finishes; evaluate_options waits for both.
Loaded(n, result) ==
    /\ n \in tasks
    /\ IF tasks = {n}
       THEN NextStep(n, [channels EXCEPT !.search_result = result],
                     {"evaluate_options"})
       ELSE /\ tasks' = tasks \ {n}
            /\ found' = result
            /\ UNCHANGED <<channels, answer, saved, run, calls>>
    /\ UNCHANGED <<tables, asked, budget>>

SearchAlternatives ==
    /\ "search_alternatives" \in tasks
    /\ \E s \in SegmentsFor(channels.context) :
         Loaded("search_alternatives",
                [segment |-> s, options |-> OptionsFor(s)])

GetTravelCredits == Loaded("get_travel_credits", found)

\* The options of the evaluation are the ones searched, not the ones ranked.
EvaluateOptions ==
    /\ NextStep("evaluate_options",
                [channels EXCEPT !.evaluation =
                   [request |-> channels.request,
                    options |-> channels.search_result.options]],
                {"ask_confirmation"})
    /\ UNCHANGED <<tables, asked, budget>>

\* interrupt() without an answer: the run returns with a question.
AskConfirmation ==
    /\ tasks = {"ask_confirmation"} /\ answer = None
    /\ Return([channels |-> channels, asking |-> TRUE],
              "waiting_for_confirmation")
    /\ question' = channels.search_result
    /\ reasks' = IF jobs[run] = Message THEN reasks ELSE reasks + 1
    /\ UNCHANGED <<tables, budget>>

-----------------------------------------------------------------------------
(***************************************************************************)
(* The nodes after the answer.                                              *)
(***************************************************************************)
TakeAnswer ==
    /\ answer # None
    /\ NextStep("ask_confirmation",
                [channels EXCEPT !.confirmation =
                   [answer |-> answer, evaluation |-> channels.evaluation]],
                {"validate_change"})
    /\ UNCHANGED <<tables, asked, budget>>

\* The segment the answer has to name.
ExpectedSegment ==
    LET request == channels.confirmation.evaluation.request
    IN IF request.segment # None THEN request.segment
       ELSE SegmentsOf[channels.context.booking][1]

\* Mutant: any segment passes.
FitsAnySegment(sel) == sel.option \in channels.confirmation.evaluation.options

FitsQuestion(sel) ==
    /\ sel.segment = ExpectedSegment
    /\ sel.option \in channels.confirmation.evaluation.options

\* The rules of validate_rebooking_selection that depend on what this module
\* keeps; RebookingRules has them all.
\* Mutant: a rebooking already applied is not refused.
PassesAgain(sel) ==
    /\ sel.option \in avail
    /\ RouteOf[sel.option] = RouteOf[sel.segment]

PassesRules(sel) ==
    /\ seat[sel.segment] # sel.option
    /\ sel.option \in avail
    /\ RouteOf[sel.option] = RouteOf[sel.segment]

Validated(ok, sel, route) ==
    [channels EXCEPT !.validation = [valid |-> ok, selection |-> sel],
                     !.route = route]

\* validate_change: declined, invalid (also by a rule on money, which may
\* refuse any selection), or valid.
ValidateChange ==
    LET sel == channels.confirmation.answer.selection
    IN /\ tasks = {"validate_change"}
       /\ \/ /\ ~channels.confirmation.answer.confirmed
             /\ NextStep("validate_change", Validated(FALSE, sel, "declined"),
                         {"finalize_declined"})
          \/ /\ channels.confirmation.answer.confirmed
             /\ NextStep("validate_change", Validated(FALSE, sel, "invalid"),
                         {"explain_invalid_change"})
          \/ /\ channels.confirmation.answer.confirmed
             /\ FitsQuestion(sel) /\ PassesRules(sel)
             /\ NextStep("validate_change", Validated(TRUE, sel, "valid"),
                         {"execute_rebooking"})
       /\ UNCHANGED <<tables, asked, budget>>

\* explain_invalid_change: the retry counter of the conversation, which no
\* later message resets.
\* Mutant: one retry too many.
GivesUpLate(retries) == retries > MaxRetries + 1

GivesUp(retries) == retries > MaxRetries

ExplainInvalidChange ==
    LET retries == channels.retry_count + 1
        counted == [channels EXCEPT !.retry_count = retries]
    IN /\ IF GivesUp(retries)
          THEN End("explain_invalid_change",
                   [counted EXCEPT !.final = "failed", !.route = "invalid"])
          ELSE NextStep("explain_invalid_change",
                        [counted EXCEPT !.route = "retry"],
                        {"refresh_context"})
       /\ UNCHANGED <<tables, asked, budget>>

\* The reservation is not read again, only alternatives and credits.
RefreshContext ==
    /\ NextStep("refresh_context", [channels EXCEPT !.route = "retry"], Loading)
    /\ UNCHANGED <<tables, asked, budget>>

\* Rebooking: the transaction moves the segment, frees its old seats and may
\* take the last ones of the new option.
Book(sel, by) ==
    /\ seat' = [seat EXCEPT ![sel.segment] = sel.option]
    /\ rows' = Append(rows, [by |-> by, segment |-> sel.segment,
                             option |-> sel.option])
    /\ LET freed == avail \union ({seat[sel.segment]} \ {None})
       IN avail' \in {freed, freed \ {sel.option}}

\* Mutant: the final result of an earlier message stays.
NotExecutedStale == [channels EXCEPT !.route = "failed"]

NotExecuted == [channels EXCEPT !.final = "failed", !.route = "failed"]

\* execute_rebooking: the transaction validates again.  Any exception, also
\* one raised after the commit, makes the run fail.
ExecuteRebooking ==
    LET sel == channels.validation.selection
    IN /\ tasks = {"execute_rebooking"}
       /\ channels.validation # None /\ channels.validation.valid
       /\ \/ /\ PassesRules(sel) /\ Book(sel, run)
             /\ NextStep("execute_rebooking",
                         [channels EXCEPT !.route = "completed"],
                         {"verify_rebooking"})
          \/ /\ PassesRules(sel) /\ Book(sel, run)
             /\ NextStep("execute_rebooking", NotExecuted,
                         {"finalize_failed"})
          \/ /\ NextStep("execute_rebooking", NotExecuted,
                         {"finalize_failed"})
             /\ UNCHANGED tables
       /\ UNCHANGED <<asked, budget>>

\* verify_rebooking: the segment has the selected option, in the tables as
\* they are now; any exception makes the run fail.
VerifyRebooking ==
    LET sel == channels.validation.selection
    IN /\ tasks = {"verify_rebooking"}
       /\ \/ /\ seat[sel.segment] = sel.option
             /\ End("verify_rebooking", [channels EXCEPT !.final = "completed",
                                                  !.route = "completed"])
          \/ NextStep("verify_rebooking",
                      [channels EXCEPT !.final = "failed", !.route = "failed"],
                      {"finalize_failed"})
       /\ UNCHANGED <<tables, asked, budget>>

FinalizeDeclined ==
    /\ End("finalize_declined",
           [channels EXCEPT !.final = "declined", !.route = "declined"])
    /\ UNCHANGED <<tables, asked, budget>>

FinalizeFailed ==
    /\ End("finalize_failed", [channels EXCEPT !.route = "failed"])
    /\ UNCHANGED <<tables, asked, budget>>

-----------------------------------------------------------------------------
(***************************************************************************)
(* Errors, crashes and other sessions.                                      *)
(***************************************************************************)
\* The nodes that call the language model, the tables or raise ValueError.
Raising == Node \ {"refresh_context", "explain_invalid_change",
                   "execute_rebooking", "verify_rebooking",
                   "finalize_failed", "finalize_declined"}

\* A node raises, search_alternatives also when there is no segment to search
\* for: the finished supersteps are durable.  ask_confirmation that raises on
\* its answer leaves the question open.
NodeRaises ==
    /\ faults < MaxFaults
    /\ tasks \intersect Raising # {}
    /\ Abandon([channels |-> channels, asking |-> answer # None])
    /\ faults' = faults + 1
    /\ UNCHANGED <<tables, asked, trades>>

\* The worker process dies, or a checkpoint cannot be written and ainvoke
\* raises: the checkpoints not yet written are lost.
Crash ==
    /\ faults < MaxFaults
    /\ run # 0
    /\ \E n \in DOMAIN saved : Abandon(saved[n])
    /\ faults' = faults + 1
    /\ UNCHANGED <<tables, asked, trades>>

\* Another session rebooks a segment, or seats are sold and returned.
Trade ==
    /\ trades < MaxTrades
    /\ trades' = trades + 1
    /\ \/ \E sel \in Selection : PassesRules(sel) /\ Book(sel, Other)
       \/ avail' \in SUBSET Option /\ UNCHANGED <<seat, rows>>
    /\ UNCHANGED <<thread, calls, asked, faults>>

Step ==
    \/ UnderstandRequest \/ GetReservation \/ SearchAlternatives
    \/ GetTravelCredits \/ EvaluateOptions \/ AskConfirmation \/ TakeAnswer
    \/ ValidateChange \/ ExplainInvalidChange \/ RefreshContext
    \/ ExecuteRebooking \/ VerifyRebooking \/ FinalizeDeclined
    \/ FinalizeFailed \/ NodeRaises

Next ==
    \/ \E j \in Job, job \in Answer \union {Message} : Start(j, job)
    \/ Step \/ Crash \/ Trade

Spec == Init /\ [][Next]_vars

-----------------------------------------------------------------------------
(***************************************************************************)
(* Properties.                                                              *)
(***************************************************************************)
\* Every channel, the durable checkpoint and the outcome of every job have
\* their type; a question is open only on an evaluation, so that
\* ask_confirmation never finds one missing.
TypeOK ==
    /\ channels \in Channels
    /\ tasks \subseteq Node
    /\ found \in Found \union {None}
    /\ answer \in Answer \union {None}
    /\ \A n \in DOMAIN saved :
         /\ saved[n].channels \in Channels
         /\ saved[n].asking => saved[n].channels.evaluation # None
    /\ run \in Job \union {0}
    /\ jobs \in [Job -> Answer \union {None, Message}]
    /\ outcome \in [Job -> Outcome \union {None}]
    /\ runs \in [Job -> 0..MaxRuns]
    /\ avail \subseteq Option
    /\ seat \in [Segment -> Option \union {None}]

\* execute_rebooking books exactly the selection the running job confirmed,
\* and only one that the last question offered, for the segment its
\* alternatives were searched for: whatever a retry, an earlier message of the
\* conversation, a lost checkpoint or another session left behind.
BooksOffered ==
    (UNCHANGED trades /\ Len(rows') > Len(rows)) =>
        LET row == rows'[Len(rows')]
        IN /\ row.by = run
           /\ jobs[run] # Message
           /\ jobs[run].confirmed
           /\ jobs[run].selection = [segment |-> row.segment,
                                     option |-> row.option]
           /\ row.segment = question.segment
           /\ row.option \in question.options

\* Every step of execute_rebooking books what BooksOffered says.
BookedAsOffered == [][BooksOffered]_vars

RowsOf(j) == {n \in DOMAIN rows : rows[n].by = j}

\* A job that JobService reports as completed was a refusal and booked nothing,
\* or its own run booked the selection: never the final result an earlier
\* message of the conversation left in the channel.
CompletedIsOwn ==
    \A j \in Job :
        outcome[j] = "completed" =>
            /\ jobs[j] # Message
            /\ jobs[j].confirmed <=> RowsOf(j) # {}

\* An answer that is run again after a crash does not move the segment a second
\* time, unless someone else moved it in between.
BookedOncePerAnswer ==
    \A j \in Job : \A m, n \in RowsOf(j) :
        m < n => \E k \in (m + 1)..(n - 1) :
                     /\ rows[k].by # j
                     /\ rows[k].segment = rows[n].segment

\* A job that JobService dead-letters because its run ended with failure has
\* changed no segment: "estado `failed`, ausencia de mutación".  Violated: the
\* commit may be followed by an exception, and verify_rebooking may meet what
\* another session did since.
FailedMeansUnchanged == \A j \in Job : outcome[j] = "failed" => RowsOf(j) = {}

\* A conversation repeats its question at most max_retries times, over all its
\* messages and whatever is run again.
ReasksBounded == reasks <= MaxRetries
=============================================================================
