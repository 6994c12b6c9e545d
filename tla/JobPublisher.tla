---------------------------- MODULE JobPublisher ----------------------------
(***************************************************************************)
(* POST /airline/chat: publish_chat of app/jobs/router.py and               *)
(* JobService.publish, for several requests at once.  Each Redis or broker  *)
(* call is one step.  A request is known by the fresh job id that publish   *)
(* draws for it.  The requests are the valid ones: publish_chat answers the *)
(* others with 422 and calls nothing.                                       *)
(***************************************************************************)
EXTENDS Integers

CONSTANTS
    Request,         \* requests, and the job ids drawn for them
    Key,             \* Idempotency-Key header values
    None,            \* no header, no job
    KeyOf,           \* the header of a request, or None
    MaxStoreFaults,  \* bound on failed Redis calls
    MaxBrokerFaults, \* bound on publishes that raise
    MaxCrashes       \* bound on requests that die with the API process

ASSUME JobPublisherAssumption ==
    /\ KeyOf \in [Request -> Key \union {None}]
    /\ MaxStoreFaults \in Nat
    /\ MaxBrokerFaults \in Nat
    /\ MaxCrashes \in Nat
    /\ None \notin Request
    /\ None \notin Key

VARIABLES
    idem,      \* airline:idempotency:<key>: a job id or None
    status,    \* job:<id>:status
    timed,     \* jobs with published_ms
    queued,    \* jobs whose envelope the broker confirmed
    lost,      \* jobs it took without the confirmation arriving
    pc,        \* the next call of each request
    code,      \* what it was answered: published, duplicate or error
    named,     \* the job id in that answer
    storeFaults, brokerFaults, crashes

redis == <<idem, status, timed>>
broker == <<queued, lost, brokerFaults>>
reply == <<code, named>>
vars == <<redis, broker, pc, reply, storeFaults, crashes>>

Init ==
    /\ idem = [k \in Key |-> None]
    /\ status = [r \in Request |-> ""]
    /\ timed = {}
    /\ queued = {}
    /\ lost = {}
    /\ pc = [r \in Request |-> "new"]
    /\ code = [r \in Request |-> ""]
    /\ named = [r \in Request |-> None]
    /\ storeFaults = 0
    /\ brokerFaults = 0
    /\ crashes = 0

Goto(r, label) == pc' = [pc EXCEPT ![r] = label]

\* The response.
Answer(r, c, j) == /\ Goto(r, "done")
                   /\ code' = [code EXCEPT ![r] = c]
                   /\ named' = [named EXCEPT ![r] = j]

\* A failed Redis call may still have had its effect.
StoreWorks == UNCHANGED storeFaults
StoreFails == /\ storeFaults < MaxStoreFaults
              /\ storeFaults' = storeFaults + 1

-----------------------------------------------------------------------------
\* publish draws a job id; without a key there is nothing to claim.
Chat(r) ==
    /\ pc[r] = "new"
    /\ Goto(r, IF KeyOf[r] = None THEN "set_published" ELSE "claim")
    /\ UNCHANGED <<redis, broker, reply, storeFaults, crashes>>

\* SET NX of the key.
\* Mutant: a plain SET.
VacantAlways(k) == TRUE

Vacant(k) == idem[k] = None

ClaimIdempotencyKey(r) ==
    LET k == KeyOf[r]
        claimed == Vacant(k) /\ idem' = [idem EXCEPT ![k] = r]
    IN
    /\ pc[r] = "claim"
    /\ \/ /\ StoreWorks
          /\ claimed
          /\ Goto(r, "set_published") /\ UNCHANGED reply
       \/ /\ StoreWorks
          /\ ~Vacant(k)
          /\ Goto(r, "get_owner") /\ UNCHANGED <<idem, reply>>
       \/ /\ StoreFails
          /\ claimed \/ UNCHANGED idem
          /\ Answer(r, "error", None)
    /\ UNCHANGED <<status, timed, broker, crashes>>

\* The GET after a failed claim.  The key may be gone again by then: publish
\* returns None for the job id, which the response model dict[str, str] turns
\* into a 500.
GetOwner(r) ==
    LET owner == idem[KeyOf[r]]
    IN
    /\ pc[r] = "get_owner"
    /\ \/ StoreWorks /\ owner # None /\ Answer(r, "duplicate", owner)
       \/ StoreWorks /\ owner = None /\ Answer(r, "error", None)
       \/ StoreFails /\ Answer(r, "error", None)
    /\ UNCHANGED <<redis, broker, crashes>>

\* The status, the timestamp, the envelope.  Any error leads to the release of
\* the key.
SetPublished(r) ==
    LET written == [status EXCEPT ![r] = "published"]
    IN
    /\ pc[r] = "set_published"
    /\ \/ StoreWorks /\ status' = written /\ Goto(r, "mark_published")
       \/ StoreFails /\ status' \in {status, written} /\ Goto(r, "release")
    /\ UNCHANGED <<idem, timed, broker, reply, crashes>>

MarkPublished(r) ==
    LET written == timed \union {r}
    IN
    /\ pc[r] = "mark_published"
    /\ \/ StoreWorks /\ timed' = written /\ Goto(r, "publish")
       \/ StoreFails /\ timed' \in {timed, written} /\ Goto(r, "release")
    /\ UNCHANGED <<idem, status, broker, reply, crashes>>

\* The broker confirms the envelope, or the call raises: the envelope was
\* refused, or taken and only the confirmation lost.
Publish(r) ==
    /\ pc[r] = "publish"
    /\ \/ /\ queued' = queued \union {r}
          /\ Answer(r, "published", r)
          /\ UNCHANGED <<lost, brokerFaults>>
       \/ /\ brokerFaults < MaxBrokerFaults
          /\ brokerFaults' = brokerFaults + 1
          /\ lost' \in {lost, lost \union {r}}
          /\ Goto(r, "set_failed")
          /\ UNCHANGED <<queued, reply>>
    /\ UNCHANGED <<redis, storeFaults, crashes>>

\* The status of a job that was not published; an error here also leads to the
\* release.
\* Mutant: the status is left alone.
FailedUnmarked(r) == status

Failed(r) == [status EXCEPT ![r] = "failed"]

SetFailed(r) ==
    /\ pc[r] = "set_failed"
    /\ \/ StoreWorks /\ status' = Failed(r)
       \/ StoreFails /\ status' \in {status, Failed(r)}
    /\ Goto(r, "release")
    /\ UNCHANGED <<idem, timed, broker, reply, crashes>>

\* DEL of the key, whoever owns it.
\* Mutants: the key is kept after a failed publish, or blanked.
DeletedKept(k) == idem
DeletedBlank(k) == [idem EXCEPT ![k] = ""]

Deleted(k) == [idem EXCEPT ![k] = None]

ReleaseIdempotencyKey(r) ==
    /\ pc[r] = "release"
    /\ \/ KeyOf[r] = None /\ UNCHANGED <<idem, storeFaults>>
       \/ KeyOf[r] # None /\ StoreWorks /\ idem' = Deleted(KeyOf[r])
       \/ KeyOf[r] # None /\ StoreFails /\ idem' \in {idem, Deleted(KeyOf[r])}
    /\ Answer(r, "error", None)
    /\ UNCHANGED <<status, timed, broker, crashes>>

\* The API process dies with the request.
Crash(r) ==
    /\ pc[r] # "done"
    /\ crashes < MaxCrashes
    /\ crashes' = crashes + 1
    /\ Goto(r, "done")
    /\ UNCHANGED <<redis, broker, reply, storeFaults>>

Step(r) ==
    \/ Chat(r) \/ ClaimIdempotencyKey(r) \/ GetOwner(r)
    \/ SetPublished(r) \/ MarkPublished(r) \/ Publish(r)
    \/ SetFailed(r) \/ ReleaseIdempotencyKey(r)

Next == \E r \in Request : Step(r) \/ Crash(r)

Spec == Init /\ [][Next]_vars

-----------------------------------------------------------------------------
(* Properties.                                                             *)

Label == {"new", "claim", "get_owner", "set_published", "mark_published",
          "publish", "set_failed", "release", "done"}

\* Every variable keeps its type.
TypeOK ==
    /\ idem \in [Key -> Request \union {None}]
    /\ status \in [Request -> {"", "published", "failed"}]
    /\ timed \in SUBSET Request
    /\ queued \in SUBSET Request
    /\ pc \in [Request -> Label]
    /\ code \in [Request -> {"", "published", "duplicate", "error"}]
    /\ named \in [Request -> Request \union {None}]
    /\ lost \in SUBSET Request
    /\ storeFaults \in 0..MaxStoreFaults
    /\ brokerFaults \in 0..MaxBrokerFaults
    /\ crashes \in 0..MaxCrashes

\* "A repeated idempotency_key returns the original job id ... and queues
\* nothing": two requests with the same key never both reach the queue,
\* whatever fails between the claim and the release, and however often the
\* client tries again.  Only a publish whose confirmation was lost is repeated.
OneJobPerKey ==
    \A q, r \in queued : KeyOf[q] = KeyOf[r] /\ KeyOf[r] # None => q = r

\* Redis has answered every call and no request died.
Calm == storeFaults = 0 /\ crashes = 0

\* While Redis and the API hold out, the job a response names is queued, still
\* being published, or has the status failed, so the client can follow it:
\* also the job of another request, which may yet fail.
AnswerNamesAJob ==
    Calm => \A r \in Request : code[r] \in {"published", "duplicate"} =>
                \/ named[r] \in queued
                \/ pc[named[r]] # "done"
                \/ status[named[r]] = "failed"

\* While Redis and the API hold out, a key is taken only by a job that is
\* queued or still being published: a client whose POST failed can repeat it
\* with the same key.
KeyNotStuck ==
    Calm => \A k \in Key :
                idem[k] # None => idem[k] \in queued \/ pc[idem[k]] # "done"
=============================================================================
