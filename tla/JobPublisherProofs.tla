------------------------- MODULE JobPublisherProofs -------------------------
(***************************************************************************)
(* JobPublisher for any requests, keys and fault bounds: a key is queued at *)
(* most once, and while Redis and the API hold out every job named in a     *)
(* response can be followed and no key is stuck.                            *)
(***************************************************************************)
EXTENDS JobPublisher, TLAPS

\* The type of the variables the arguments below are about.
TypeInv == /\ idem \in [Key -> Request \union {None}]
           /\ status \in [Request -> {"", "published", "failed"}]
           /\ queued \in SUBSET Request
           /\ pc \in [Request -> Label]
           /\ code \in [Request -> {"", "published", "duplicate", "error"}]
           /\ named \in [Request -> Request \union {None}]

\* Labels between the claim and the release of a key.
Publishing == {"set_published", "mark_published", "publish", "set_failed",
               "release"}

\* A key belongs to the request that publishes under it and to the job that
\* was queued under it; only requests with a key claim or read one.
KeyInv ==
    /\ \A r \in Request : KeyOf[r] # None =>
           /\ pc[r] \in Publishing => idem[KeyOf[r]] = r
           /\ r \in queued => idem[KeyOf[r]] = r /\ pc[r] = "done"
    /\ \A r \in Request : pc[r] \in {"claim", "get_owner"} => KeyOf[r] \in Key

\* The initial state satisfies both.
LEMMA InitInv == Init => TypeInv /\ KeyInv
<1> SUFFICES ASSUME Init PROVE TypeInv /\ KeyInv
  OBVIOUS
<1>1. TypeInv
  BY Zenon DEF Init, TypeInv, Label
<1>2. queued = {} /\ \A r \in Request : pc[r] = "new"
  BY Zenon DEF Init
<1> QED
  BY <1>1, <1>2 DEF KeyInv, Publishing

\* A response ends a request.
LEMMA AnswerType ==
    ASSUME TypeInv, NEW r \in Request, NEW j \in Request \union {None},
           NEW c \in {"published", "duplicate", "error"}, Answer(r, c, j)
    PROVE  /\ pc' \in [Request -> Label]
           /\ code' \in [Request -> {"", "published", "duplicate", "error"}]
           /\ named' \in [Request -> Request \union {None}]
           /\ pc'[r] = "done" /\ \A q \in Request : q # r => pc'[q] = pc[q]
           /\ code'[r] = c /\ named'[r] = j
           /\ \A q \in Request : q # r => /\ code'[q] = code[q]
                                          /\ named'[q] = named[q]
BY Zenon DEF Answer, Goto, TypeInv, Label

\* A transition moves one request.
LEMMA GotoType ==
    ASSUME TypeInv, NEW r \in Request, NEW l \in Label, Goto(r, l)
    PROVE  /\ pc' \in [Request -> Label]
           /\ pc'[r] = l /\ \A q \in Request : q # r => pc'[q] = pc[q]
BY Zenon DEF Goto, TypeInv

\* Every step keeps the types.
LEMMA NextTypeInv == TypeInv /\ KeyInv /\ [Next]_vars => TypeInv'
<1> SUFFICES ASSUME TypeInv, KeyInv, [Next]_vars PROVE TypeInv'
  OBVIOUS
<1> USE DEF Label
<1>Chat. ASSUME NEW r \in Request, Chat(r) PROVE TypeInv'
  BY <1>Chat, Zenon DEF Chat, Goto, redis, broker, reply, TypeInv
<1>ClaimIdempotencyKey. ASSUME NEW r \in Request, ClaimIdempotencyKey(r)
  PROVE TypeInv'
  <2>1. idem' \in [Key -> Request \union {None}]
    BY <1>ClaimIdempotencyKey, Zenon DEF ClaimIdempotencyKey, TypeInv
  <2>2. UNCHANGED <<status, queued>>
    BY <1>ClaimIdempotencyKey DEF ClaimIdempotencyKey, broker
  <2>3. CASE Goto(r, "set_published") /\ UNCHANGED reply
    BY <2>1, <2>2, <2>3, GotoType, Zenon DEF TypeInv, reply
  <2>4. CASE Goto(r, "get_owner") /\ UNCHANGED reply
    BY <2>1, <2>2, <2>4, GotoType, Zenon DEF TypeInv, reply
  <2>5. CASE Answer(r, "error", None)
    BY <2>1, <2>2, <2>5, AnswerType, Zenon DEF TypeInv
  <2> QED
    BY <1>ClaimIdempotencyKey, <2>3, <2>4, <2>5 DEF ClaimIdempotencyKey, reply
<1>GetOwner. ASSUME NEW r \in Request, GetOwner(r) PROVE TypeInv'
  <2>1. UNCHANGED <<idem, status, queued>>
    BY <1>GetOwner DEF GetOwner, redis, broker
  <2>2. CASE idem[KeyOf[r]] # None /\ Answer(r, "duplicate", idem[KeyOf[r]])
    <3>1. KeyOf[r] \in Key
      BY <1>GetOwner DEF GetOwner, KeyInv
    <3>2. idem[KeyOf[r]] \in Request \union {None}
      BY <3>1, Zenon DEF TypeInv
    <3> QED
      BY <2>1, <2>2, <3>2, AnswerType, Zenon DEF TypeInv
  <2>3. CASE Answer(r, "error", None)
    BY <2>1, <2>3, AnswerType, Zenon DEF TypeInv
  <2> QED
    BY <1>GetOwner, <2>2, <2>3 DEF GetOwner
<1>SetPublished. ASSUME NEW r \in Request, SetPublished(r) PROVE TypeInv'
  BY <1>SetPublished, Zenon DEF SetPublished, Goto, broker, reply, TypeInv
<1>MarkPublished. ASSUME NEW r \in Request, MarkPublished(r) PROVE TypeInv'
  BY <1>MarkPublished, Zenon DEF MarkPublished, Goto, broker, reply, TypeInv
<1>Publish. ASSUME NEW r \in Request, Publish(r) PROVE TypeInv'
  <2>1. queued' \in SUBSET Request /\ UNCHANGED <<idem, status>>
    BY <1>Publish, Zenon DEF Publish, redis, TypeInv
  <2>2. CASE Answer(r, "published", r)
    BY <2>1, <2>2, AnswerType, Zenon DEF TypeInv
  <2>3. CASE Goto(r, "set_failed") /\ UNCHANGED reply
    BY <2>1, <2>3, GotoType, Zenon DEF TypeInv, reply
  <2> QED
    BY <1>Publish, <2>2, <2>3 DEF Publish, reply
<1>SetFailed. ASSUME NEW r \in Request, SetFailed(r) PROVE TypeInv'
  BY <1>SetFailed, Zenon DEF SetFailed, Failed, Goto, broker, reply, TypeInv
<1>Release. ASSUME NEW r \in Request, ReleaseIdempotencyKey(r) PROVE TypeInv'
  <2>1. /\ idem' \in [Key -> Request \union {None}]
        /\ UNCHANGED <<status, queued>> /\ Answer(r, "error", None)
    BY <1>Release, Zenon DEF ReleaseIdempotencyKey, Deleted, broker, TypeInv
  <2> QED
    BY <2>1, AnswerType, Zenon DEF TypeInv
<1>Crash. ASSUME NEW r \in Request, Crash(r) PROVE TypeInv'
  BY <1>Crash, Zenon DEF Crash, Goto, redis, broker, reply, TypeInv
<1>Stutter. CASE UNCHANGED vars
  BY <1>Stutter, Zenon DEF vars, redis, broker, reply, TypeInv
<1> QED
  BY <1>Chat, <1>ClaimIdempotencyKey, <1>GetOwner, <1>SetPublished,
     <1>MarkPublished, <1>Publish, <1>SetFailed, <1>Release, <1>Crash,
     <1>Stutter DEF Next, Step

\* KeyInv after a step of one request that leaves the keys and the queue
\* alone and does not start publishing.
LEMMA KeyFrame ==
    ASSUME TypeInv, KeyInv, NEW r \in Request, UNCHANGED <<idem, queued>>,
           \A q \in Request : q # r => pc'[q] = pc[q],
           pc'[r] \in Publishing =>
               pc[r] \in Publishing \/ KeyOf[r] = None,
           pc'[r] \in {"claim", "get_owner"} => KeyOf[r] \in Key,
           pc[r] # "done" \/ pc'[r] = pc[r]
    PROVE  KeyInv'
<1>1. ASSUME NEW q \in Request, KeyOf[q] # None
      PROVE  /\ pc'[q] \in Publishing => idem[KeyOf[q]] = q
             /\ q \in queued => idem[KeyOf[q]] = q /\ pc'[q] = "done"
  BY <1>1 DEF KeyInv
<1>2. ASSUME NEW q \in Request
      PROVE  pc'[q] \in {"claim", "get_owner"} => KeyOf[q] \in Key
  BY DEF KeyInv
<1> QED
  BY <1>1, <1>2 DEF KeyInv

\* Every step preserves KeyInv.
LEMMA NextKeyInv == TypeInv /\ KeyInv /\ [Next]_vars => KeyInv'
<1> SUFFICES ASSUME TypeInv, KeyInv, [Next]_vars PROVE KeyInv'
  OBVIOUS
<1> USE DEF Label, Publishing
<1>Chat. ASSUME NEW r \in Request, Chat(r) PROVE KeyInv'
  <2>1. /\ \A q \in Request : q # r => pc'[q] = pc[q]
        /\ pc'[r] = IF KeyOf[r] = None THEN "set_published" ELSE "claim"
    BY <1>Chat, GotoType DEF Chat
  <2>2. pc'[r] \in {"claim", "get_owner"} => KeyOf[r] \in Key
    BY <2>1, JobPublisherAssumption
  <2> QED
    BY <1>Chat, <2>1, <2>2, KeyFrame DEF Chat, redis, broker
<1>ClaimIdempotencyKey. ASSUME NEW r \in Request, ClaimIdempotencyKey(r)
  PROVE KeyInv'
  <2>1. /\ KeyOf[r] \in Key /\ KeyOf[r] # None /\ UNCHANGED queued
        /\ pc[r] = "claim"
    BY <1>ClaimIdempotencyKey, JobPublisherAssumption
       DEF KeyInv, ClaimIdempotencyKey, broker
  <2>2. /\ \A q \in Request : q # r => pc'[q] = pc[q]
        /\ pc'[r] \in {"set_published", "get_owner", "done"}
    BY <1>ClaimIdempotencyKey, GotoType, AnswerType, Zenon
    DEF ClaimIdempotencyKey
  <2>3. CASE Vacant(KeyOf[r]) /\ idem' = [idem EXCEPT ![KeyOf[r]] = r]
    <3>1. idem[KeyOf[r]] = None /\ idem'[KeyOf[r]] = r
      BY <2>1, <2>3, Zenon DEF Vacant, TypeInv
    <3>2. \A k \in Key : k # KeyOf[r] => idem'[k] = idem[k]
      BY <2>3, Zenon DEF TypeInv
    <3>3. r \notin queued
      BY <2>1 DEF KeyInv
    <3>4. ASSUME NEW q \in Request, KeyOf[q] # None
          PROVE  /\ pc'[q] \in Publishing => idem'[KeyOf[q]] = q
                 /\ q \in queued => idem'[KeyOf[q]] = q /\ pc'[q] = "done"
      <4>1. CASE q = r
        BY <3>1, <3>3, <4>1
      <4>2. CASE q # r
        <5>1. KeyOf[q] \in Key
          BY <3>4, JobPublisherAssumption
        <5>2. pc[q] \in Publishing \/ q \in queued => KeyOf[q] # KeyOf[r]
          BY <3>1, <3>4, JobPublisherAssumption DEF KeyInv
        <5> QED
          BY <2>2, <3>2, <3>4, <4>2, <5>1, <5>2 DEF KeyInv
      <4> QED
        BY <4>1, <4>2
    <3>5. ASSUME NEW q \in Request
          PROVE  pc'[q] \in {"claim", "get_owner"} => KeyOf[q] \in Key
      BY <2>1, <2>2 DEF KeyInv
    <3> QED
      BY <2>1, <3>4, <3>5 DEF KeyInv
  <2>4. CASE UNCHANGED idem /\ pc'[r] # "set_published"
    BY <2>1, <2>2, <2>4, KeyFrame
  <2>5. /\ Goto(r, "get_owner") => pc'[r] # "set_published"
        /\ Answer(r, "error", None) => pc'[r] # "set_published"
    BY GotoType, AnswerType, Zenon
  <2> QED
    BY <1>ClaimIdempotencyKey, <2>3, <2>4, <2>5 DEF ClaimIdempotencyKey
<1>GetOwner. ASSUME NEW r \in Request, GetOwner(r) PROVE KeyInv'
  <2>1. /\ UNCHANGED <<idem, queued>> /\ pc[r] = "get_owner"
        /\ pc' = [pc EXCEPT ![r] = "done"]
    BY <1>GetOwner DEF GetOwner, redis, broker, Answer, Goto
  <2>2. pc'[r] = "done" /\ \A q \in Request : q # r => pc'[q] = pc[q]
    BY <2>1, Zenon DEF TypeInv
  <2> QED
    BY <2>1, <2>2, KeyFrame
<1>SetPublished. ASSUME NEW r \in Request, SetPublished(r) PROVE KeyInv'
  <2>1. UNCHANGED <<idem, queued>> /\ pc[r] = "set_published"
    BY <1>SetPublished DEF SetPublished, broker
  <2>2. /\ \A q \in Request : q # r => pc'[q] = pc[q]
        /\ pc'[r] \in {"mark_published", "release"}
    BY <1>SetPublished, GotoType DEF SetPublished
  <2> QED
    BY <2>1, <2>2, KeyFrame
<1>MarkPublished. ASSUME NEW r \in Request, MarkPublished(r) PROVE KeyInv'
  <2>1. UNCHANGED <<idem, queued>> /\ pc[r] = "mark_published"
    BY <1>MarkPublished DEF MarkPublished, broker
  <2>2. /\ \A q \in Request : q # r => pc'[q] = pc[q]
        /\ pc'[r] \in {"publish", "release"}
    BY <1>MarkPublished, GotoType DEF MarkPublished
  <2> QED
    BY <2>1, <2>2, KeyFrame
<1>Publish. ASSUME NEW r \in Request, Publish(r) PROVE KeyInv'
  <2>1. UNCHANGED idem /\ pc[r] = "publish"
    BY <1>Publish DEF Publish, redis
  <2>2. CASE queued' = queued \union {r} /\ Answer(r, "published", r)
    <3>1. pc'[r] = "done" /\ \A q \in Request : q # r => pc'[q] = pc[q]
      BY <2>2, AnswerType, Zenon
    <3>2. KeyOf[r] # None => idem[KeyOf[r]] = r
      BY <2>1 DEF KeyInv
    <3> QED
      BY <2>1, <2>2, <3>1, <3>2 DEF KeyInv
  <2>3. CASE Goto(r, "set_failed") /\ UNCHANGED queued
    <3>1. pc'[r] = "set_failed" /\ \A q \in Request : q # r => pc'[q] = pc[q]
      BY <2>3, GotoType
    <3> QED
      BY <2>1, <2>3, <3>1, KeyFrame
  <2> QED
    BY <1>Publish, <2>2, <2>3 DEF Publish
<1>SetFailed. ASSUME NEW r \in Request, SetFailed(r) PROVE KeyInv'
  <2>1. UNCHANGED <<idem, queued>> /\ pc[r] = "set_failed"
    BY <1>SetFailed DEF SetFailed, broker
  <2>2. /\ \A q \in Request : q # r => pc'[q] = pc[q]
        /\ pc'[r] = "release"
    BY <1>SetFailed, GotoType DEF SetFailed
  <2> QED
    BY <2>1, <2>2, KeyFrame
<1>Release. ASSUME NEW r \in Request, ReleaseIdempotencyKey(r) PROVE KeyInv'
  <2>1. /\ UNCHANGED queued /\ pc[r] = "release"
        /\ Answer(r, "error", None)
        /\ \/ UNCHANGED idem
           \/ KeyOf[r] # None /\ idem' = [idem EXCEPT ![KeyOf[r]] = None]
    BY <1>Release DEF ReleaseIdempotencyKey, Deleted, broker
  <2>2. pc'[r] = "done" /\ \A q \in Request : q # r => pc'[q] = pc[q]
    BY <2>1, AnswerType, Zenon
  <2>3. CASE UNCHANGED idem
    BY <2>1, <2>2, <2>3, KeyFrame
  <2>4. CASE KeyOf[r] # None /\ idem' = [idem EXCEPT ![KeyOf[r]] = None]
    <3>1. idem[KeyOf[r]] = r /\ r \notin queued
      BY <2>1, <2>4 DEF KeyInv
    <3>2. \A k \in Key : k # KeyOf[r] => idem'[k] = idem[k]
      BY <2>4, Zenon DEF TypeInv
    <3>3. ASSUME NEW q \in Request, KeyOf[q] # None, q # r
          PROVE  /\ pc'[q] \in Publishing => idem'[KeyOf[q]] = q
                 /\ q \in queued => idem'[KeyOf[q]] = q /\ pc'[q] = "done"
      <4>1. KeyOf[q] \in Key
        BY <3>3, JobPublisherAssumption
      <4>2. pc[q] \in Publishing \/ q \in queued => KeyOf[q] # KeyOf[r]
        BY <3>1, <3>3 DEF KeyInv
      <4> QED
        BY <2>2, <3>2, <3>3, <4>1, <4>2 DEF KeyInv
    <3>4. \A q \in Request : pc'[q] \in {"claim", "get_owner"} => KeyOf[q] \in Key
      BY <2>2 DEF KeyInv
    <3> QED
      BY <2>1, <2>2, <3>1, <3>3, <3>4 DEF KeyInv
  <2> QED
    BY <2>1, <2>3, <2>4
<1>Crash. ASSUME NEW r \in Request, Crash(r) PROVE KeyInv'
  <2>1. pc'[r] = "done" /\ \A q \in Request : q # r => pc'[q] = pc[q]
    BY <1>Crash, GotoType DEF Crash
  <2> QED
    BY <1>Crash, <2>1, KeyFrame DEF Crash, redis, broker
<1>Stutter. CASE UNCHANGED vars
  BY <1>Stutter DEF vars, redis, broker, KeyInv
<1> QED
  BY <1>Chat, <1>ClaimIdempotencyKey, <1>GetOwner, <1>SetPublished,
     <1>MarkPublished, <1>Publish, <1>SetFailed, <1>Release, <1>Crash,
     <1>Stutter DEF Next, Step

\* A repeated POST is never queued again, for any number of requests, keys,
\* failed calls and crashes.
THEOREM KeyQueuedOnce == Spec => []OneJobPerKey
<1>1. TypeInv /\ KeyInv => OneJobPerKey
  <2> SUFFICES ASSUME TypeInv, KeyInv, NEW q \in queued, NEW r \in queued,
                      KeyOf[q] = KeyOf[r], KeyOf[r] # None
               PROVE  q = r
    BY DEF OneJobPerKey
  <2>1. q \in Request /\ r \in Request
    BY Zenon DEF TypeInv
  <2> QED
    BY <2>1 DEF KeyInv
<1> QED
  BY <1>1, InitInv, NextTypeInv, NextKeyInv, PTL DEF Spec


\* The rest of TypeOK: timestamps, lost confirmations and the fault counters.
CountInv ==
    /\ timed \in SUBSET Request /\ lost \in SUBSET Request
    /\ storeFaults \in 0..MaxStoreFaults
    /\ brokerFaults \in 0..MaxBrokerFaults
    /\ crashes \in 0..MaxCrashes

\* The counters start at zero.
LEMMA InitCount == Init => CountInv
<1> SUFFICES ASSUME Init PROVE CountInv
  OBVIOUS
<1>1. timed = {} /\ lost = {}
  BY Zenon DEF Init
<1>2. storeFaults = 0 /\ brokerFaults = 0 /\ crashes = 0
  BY Zenon DEF Init
<1> QED
  BY <1>1, <1>2, JobPublisherAssumption DEF CountInv

\* Every step keeps the counters within their bounds.
LEMMA NextCountInv == CountInv /\ [Next]_vars => CountInv'
<1> SUFFICES ASSUME CountInv, [Next]_vars PROVE CountInv'
  OBVIOUS
<1> USE JobPublisherAssumption DEF CountInv, broker, redis, StoreWorks,
       StoreFails
<1>1. ASSUME NEW r \in Request, Chat(r) \/ Crash(r) PROVE CountInv'
  BY <1>1 DEF Chat, Crash
<1>2. ASSUME NEW r \in Request, ClaimIdempotencyKey(r) \/ GetOwner(r)
      PROVE  CountInv'
  BY <1>2 DEF ClaimIdempotencyKey, GetOwner
<1>3. ASSUME NEW r \in Request, SetPublished(r) \/ MarkPublished(r)
      PROVE  CountInv'
  BY <1>3 DEF SetPublished, MarkPublished
<1>4. ASSUME NEW r \in Request, Publish(r) PROVE CountInv'
  BY <1>4 DEF Publish
<1>5. ASSUME NEW r \in Request, SetFailed(r) \/ ReleaseIdempotencyKey(r)
      PROVE  CountInv'
  BY <1>5 DEF SetFailed, ReleaseIdempotencyKey
<1>6. CASE UNCHANGED vars
  BY <1>6 DEF vars
<1> QED
  BY <1>1, <1>2, <1>3, <1>4, <1>5, <1>6 DEF Next, Step

\* Every variable keeps its type.
THEOREM PublisherTypes == Spec => []TypeOK
<1>1. Init => CountInv
  BY InitCount
<1>2. TypeInv /\ CountInv => TypeOK
  BY Zenon DEF TypeInv, CountInv, TypeOK
<1> QED
  BY <1>1, <1>2, InitInv, NextTypeInv, NextKeyInv, NextCountInv, PTL DEF Spec

-----------------------------------------------------------------------------
(* Redis works and the API stays up: only the broker refuses.              *)

\* A job a client may be told of.
Followed(o) ==
    /\ o \in Request
    /\ \/ o \in queued
       \/ pc[o] \in Publishing
       \/ pc[o] = "done" /\ status[o] = "failed"

CalmInv ==
    /\ \A r \in Request : pc[r] = "release" => status[r] = "failed"
    /\ \A k \in Key : idem[k] # None =>
           /\ KeyOf[idem[k]] = k
           /\ idem[k] \in queued \/ pc[idem[k]] \in Publishing
    /\ \A r \in Request : code[r] \in {"published", "duplicate"} =>
           Followed(named[r])

\* A step that ends calm started calm: no call failed and nothing died.
LEMMA CalmSteps ==
    ASSUME CountInv, Calm', [Next]_vars
    PROVE  Calm /\ ~StoreFails /\ \A r \in Request : ~Crash(r)
<1>1. ~StoreFails /\ \A r \in Request : ~Crash(r)
  BY DEF Calm, CountInv, StoreFails, Crash
<1>2. UNCHANGED <<storeFaults, crashes>>
  <2>1. ASSUME NEW r \in Request, Step(r) PROVE UNCHANGED <<storeFaults, crashes>>
    BY <1>1, <2>1 DEF Step, Chat, ClaimIdempotencyKey, GetOwner,
       SetPublished, MarkPublished, Publish, SetFailed, ReleaseIdempotencyKey,
       StoreWorks
  <2> QED
    BY <1>1, <2>1 DEF Next, vars
<1> QED
  BY <1>1, <1>2 DEF Calm

\* A job that can be followed stays so, and the faults stay away.
LEMMA FollowedKept ==
    ASSUME Calm', CountInv, TypeInv, KeyInv, CalmInv, [Next]_vars,
           NEW o, Followed(o)
    PROVE  Followed(o)'
<1> USE DEF Followed, Publishing, Label
<1>calm. ~StoreFails /\ \A r \in Request : ~Crash(r)
  BY CalmSteps
<1>Chat. ASSUME NEW r \in Request, Chat(r) PROVE Followed(o)'
  <2>1. o \in queued \/ o # r
    BY <1>Chat DEF Chat
  <2> QED
    BY <1>Chat, <2>1, GotoType DEF Chat, redis, broker
<1>Claim. ASSUME NEW r \in Request, ClaimIdempotencyKey(r) PROVE Followed(o)'
  <2>1. /\ o \in queued \/ o # r
        /\ \A q \in Request : q # r => pc'[q] = pc[q]
    BY <1>Claim, GotoType, AnswerType, Zenon DEF ClaimIdempotencyKey
  <2> QED
    BY <1>Claim, <2>1 DEF ClaimIdempotencyKey, broker
<1>GetOwner. ASSUME NEW r \in Request, GetOwner(r) PROVE Followed(o)'
  <2>1. pc[r] = "get_owner" /\ pc' = [pc EXCEPT ![r] = "done"]
    BY <1>GetOwner DEF GetOwner, Answer, Goto
  <2>2. o \in queued \/ o # r
    BY <2>1
  <2> QED
    BY <1>GetOwner, <2>1, <2>2, Zenon DEF GetOwner, redis, broker, TypeInv
<1>SetPublished. ASSUME NEW r \in Request, SetPublished(r) PROVE Followed(o)'
  <2>1. /\ pc[r] = "set_published"
        /\ pc' = [pc EXCEPT ![r] = "mark_published"]
        /\ status' = [status EXCEPT ![r] = "published"] /\ UNCHANGED queued
    BY <1>SetPublished, <1>calm DEF SetPublished, Goto, broker
  <2> QED
    BY <2>1, Zenon DEF TypeInv
<1>MarkPublished. ASSUME NEW r \in Request, MarkPublished(r) PROVE Followed(o)'
  <2>1. /\ pc[r] = "mark_published"
        /\ pc' = [pc EXCEPT ![r] = "publish"] /\ UNCHANGED <<status, queued>>
    BY <1>MarkPublished, <1>calm DEF MarkPublished, Goto, broker
  <2> QED
    BY <2>1, Zenon DEF TypeInv
<1>Publish. ASSUME NEW r \in Request, Publish(r) PROVE Followed(o)'
  <2>1. /\ pc[r] = "publish" /\ UNCHANGED status
        /\ \/ queued' = queued \union {r} /\ pc' = [pc EXCEPT ![r] = "done"]
           \/ queued' = queued /\ pc' = [pc EXCEPT ![r] = "set_failed"]
    BY <1>Publish DEF Publish, Answer, Goto, redis
  <2> QED
    BY <2>1, Zenon DEF TypeInv
<1>SetFailed. ASSUME NEW r \in Request, SetFailed(r) PROVE Followed(o)'
  <2>1. /\ pc' = [pc EXCEPT ![r] = "release"] /\ UNCHANGED queued
        /\ status' = [status EXCEPT ![r] = "failed"]
    BY <1>SetFailed, <1>calm DEF SetFailed, Failed, Goto, broker
  <2> QED
    BY <2>1, Zenon DEF TypeInv
<1>Release. ASSUME NEW r \in Request, ReleaseIdempotencyKey(r)
  PROVE Followed(o)'
  <2>1. /\ pc' = [pc EXCEPT ![r] = "done"] /\ UNCHANGED <<queued, status>>
        /\ status[r] = "failed"
    BY <1>Release
       DEF ReleaseIdempotencyKey, Answer, Goto, CalmInv, broker
  <2> QED
    BY <2>1, Zenon DEF TypeInv
<1>Stutter. CASE UNCHANGED vars
  BY <1>Stutter DEF vars, redis, broker
<1> QED
  BY <1>Chat, <1>Claim, <1>GetOwner, <1>SetPublished, <1>MarkPublished,
     <1>Publish, <1>SetFailed, <1>Release, <1>Stutter, <1>calm DEF Next, Step

\* Every step preserves CalmInv.
LEMMA NextCalmInv ==
    ASSUME Calm', CountInv, TypeInv, KeyInv, CalmInv, [Next]_vars
    PROVE  CalmInv'
<1>calm. ~StoreFails /\ \A r \in Request : ~Crash(r)
  BY CalmSteps
<1> USE DEF Publishing, Label
<1>kept. \A o : Followed(o) => Followed(o)'
  BY FollowedKept
<1>owns. \A k \in Key : idem[k] # None =>
             /\ KeyOf[idem[k]] = k
             /\ idem[k] \in queued \/ pc[idem[k]] \in Publishing
  BY DEF CalmInv
<1>told. \A r \in Request : code[r] \in {"published", "duplicate"} =>
             Followed(named[r])
  BY DEF CalmInv
<1>2. ASSUME NEW q \in Request, pc'[q] = "release" PROVE status'[q] = "failed"
  <2>0. pc[q] = "release" => status[q] = "failed"
    BY DEF CalmInv
  <2>1. ASSUME NEW r \in Request, Chat(r) \/ Publish(r)
        PROVE  status'[q] = "failed"
    BY <1>2, <2>0, <2>1, Zenon DEF Chat, Publish, Answer, Goto, redis, TypeInv
  <2>2. ASSUME NEW r \in Request, ClaimIdempotencyKey(r) \/ GetOwner(r)
        PROVE  status'[q] = "failed"
    BY <1>2, <2>0, <2>2, Zenon
       DEF ClaimIdempotencyKey, GetOwner, Answer, Goto, redis, TypeInv
  <2>3. ASSUME NEW r \in Request, SetPublished(r) \/ MarkPublished(r)
        PROVE  status'[q] = "failed"
    <3>1. \/ /\ pc' = [pc EXCEPT ![r] = "mark_published"]
             /\ status' = [status EXCEPT ![r] = "published"]
          \/ pc' = [pc EXCEPT ![r] = "publish"] /\ UNCHANGED status
      BY <2>3, <1>calm DEF SetPublished, MarkPublished, Goto
    <3> QED
      BY <1>2, <2>0, <3>1, Zenon DEF TypeInv
  <2>4. ASSUME NEW r \in Request, SetFailed(r) PROVE status'[q] = "failed"
    <3>1. /\ pc' = [pc EXCEPT ![r] = "release"]
          /\ status' = [status EXCEPT ![r] = "failed"]
      BY <2>4, <1>calm DEF SetFailed, Failed, Goto
    <3> QED
      BY <1>2, <2>0, <3>1, Zenon DEF TypeInv
  <2>5. ASSUME NEW r \in Request, ReleaseIdempotencyKey(r)
        PROVE  status'[q] = "failed"
    BY <1>2, <2>0, <2>5, Zenon DEF ReleaseIdempotencyKey, Answer, Goto, TypeInv
  <2>6. CASE UNCHANGED vars
    BY <1>2, <2>0, <2>6 DEF vars, redis
  <2> QED
    BY <2>1, <2>2, <2>3, <2>4, <2>5, <2>6, <1>calm DEF Next, Step
<1>3. ASSUME NEW k \in Key, idem'[k] # None
      PROVE  /\ KeyOf[idem'[k]] = k
             /\ idem'[k] \in queued' \/ pc'[idem'[k]] \in Publishing
  <2>0. idem[k] # None => /\ KeyOf[idem[k]] = k /\ idem[k] \in Request
                          /\ idem[k] \in queued \/ pc[idem[k]] \in Publishing
    <3>1. idem[k] \in Request \union {None}
      BY Zenon DEF TypeInv
    <3> QED
      BY <1>owns, <3>1
  <2>1. ASSUME NEW r \in Request, ClaimIdempotencyKey(r)
        PROVE  /\ KeyOf[idem'[k]] = k
               /\ idem'[k] \in queued' \/ pc'[idem'[k]] \in Publishing
    <3>1. KeyOf[r] \in Key /\ UNCHANGED queued /\ pc[r] = "claim"
      BY <2>1 DEF ClaimIdempotencyKey, KeyInv, broker
    <3>2. CASE /\ idem' = [idem EXCEPT ![KeyOf[r]] = r]
               /\ pc' = [pc EXCEPT ![r] = "set_published"]
      BY <1>3, <2>0, <3>1, <3>2, Zenon DEF TypeInv
    <3>3. CASE UNCHANGED idem /\ pc' = [pc EXCEPT ![r] = "get_owner"]
      BY <1>3, <2>0, <3>1, <3>3, Zenon DEF TypeInv
    <3> QED
      BY <2>1, <3>2, <3>3, <1>calm DEF ClaimIdempotencyKey, Goto
  <2>2. ASSUME NEW r \in Request, ReleaseIdempotencyKey(r)
        PROVE  /\ KeyOf[idem'[k]] = k
               /\ idem'[k] \in queued' \/ pc'[idem'[k]] \in Publishing
    <3>1. /\ UNCHANGED queued /\ pc[r] = "release"
          /\ pc' = [pc EXCEPT ![r] = "done"]
          /\ \/ KeyOf[r] = None /\ UNCHANGED idem
             \/ KeyOf[r] # None /\ idem' = [idem EXCEPT ![KeyOf[r]] = None]
      BY <2>2, <1>calm DEF ReleaseIdempotencyKey, Deleted, Answer, Goto,
         broker
    <3>2. idem'[k] = idem[k] /\ k # KeyOf[r]
      BY <1>3, <3>1, JobPublisherAssumption, Zenon DEF TypeInv
    <3>3. idem[k] # r
      BY <1>3, <2>0, <3>2
    <3> QED
      BY <1>3, <2>0, <3>1, <3>2, <3>3, Zenon DEF TypeInv
  <2>3. ASSUME NEW r \in Request, Chat(r) \/ GetOwner(r)
        PROVE  /\ KeyOf[idem'[k]] = k
               /\ idem'[k] \in queued' \/ pc'[idem'[k]] \in Publishing
    <3>1. /\ UNCHANGED <<idem, queued>> /\ pc[r] \in {"new", "get_owner"}
          /\ \A q \in Request : q # r => pc'[q] = pc[q]
      BY <2>3, Zenon DEF Chat, GetOwner, Answer, Goto, redis, broker, TypeInv
    <3> QED
      BY <1>3, <2>0, <3>1
  <2>4. ASSUME NEW r \in Request,
               SetPublished(r) \/ MarkPublished(r) \/ SetFailed(r)
        PROVE  /\ KeyOf[idem'[k]] = k
               /\ idem'[k] \in queued' \/ pc'[idem'[k]] \in Publishing
    <3>1. /\ UNCHANGED <<idem, queued>>
          /\ \E l \in {"mark_published", "publish", "release"} :
                 pc' = [pc EXCEPT ![r] = l]
      BY <2>4 DEF SetPublished, MarkPublished, SetFailed, Goto, broker
    <3> QED
      BY <1>3, <2>0, <3>1, Zenon DEF TypeInv
  <2>5. ASSUME NEW r \in Request, Publish(r)
        PROVE  /\ KeyOf[idem'[k]] = k
               /\ idem'[k] \in queued' \/ pc'[idem'[k]] \in Publishing
    <3>1. /\ UNCHANGED idem
          /\ \/ queued' = queued \union {r} /\ pc' = [pc EXCEPT ![r] = "done"]
             \/ queued' = queued /\ pc' = [pc EXCEPT ![r] = "set_failed"]
      BY <2>5 DEF Publish, Answer, Goto, redis
    <3> QED
      BY <1>3, <2>0, <3>1, Zenon DEF TypeInv
  <2>6. CASE UNCHANGED vars
    BY <1>3, <2>0, <2>6 DEF vars, redis, broker
  <2> QED
    BY <2>1, <2>2, <2>3, <2>4, <2>5, <2>6, <1>calm DEF Next, Step
<1>4. ASSUME NEW q \in Request, code'[q] \in {"published", "duplicate"}
      PROVE  Followed(named[q])'
  <2>1. CASE code'[q] = code[q] /\ named'[q] = named[q]
    <3>1. PICK o : o = named[q]
      OBVIOUS
    <3>2. Followed(o)'
      BY <1>4, <1>told, <1>kept, <2>1, <3>1
    <3> QED
      BY <2>1, <3>1, <3>2 DEF Followed
  <2>2. ASSUME NEW r \in Request, GetOwner(r) PROVE Followed(named[q])'
    <3>1. KeyOf[r] \in Key /\ UNCHANGED <<idem, queued, status>>
      BY <2>2 DEF GetOwner, redis, broker, KeyInv
    <3>2. CASE idem[KeyOf[r]] # None /\ Answer(r, "duplicate", idem[KeyOf[r]])
      <4>1. CASE q = r
        <5>1. PICK o : o = idem[KeyOf[r]]
          OBVIOUS
        <5>2. named'[q] = o
          BY <3>2, <4>1, <5>1, Zenon DEF Answer, TypeInv
        <5>3. o \in Request
          BY <3>1, <3>2, <5>1, Zenon DEF TypeInv
        <5>4. Followed(o)
          BY <1>owns, <3>1, <3>2, <5>1, <5>3 DEF Followed
        <5>5. Followed(o)'
          BY <1>kept, <5>4
        <5> QED
          BY <5>2, <5>5 DEF Followed
      <4>2. CASE q # r
        BY <2>1, <3>2, <4>2, Zenon DEF Answer, TypeInv
      <4> QED
        BY <4>1, <4>2
    <3>3. CASE Answer(r, "error", None)
      BY <1>4, <2>1, <3>3, Zenon DEF Answer, TypeInv
    <3> QED
      BY <2>2, <3>2, <3>3 DEF GetOwner
  <2>3. ASSUME NEW r \in Request, Publish(r) PROVE Followed(named[q])'
    <3>1. CASE UNCHANGED reply
      BY <2>1, <3>1 DEF reply
    <3>2. CASE queued' = queued \union {r} /\ Answer(r, "published", r)
      <4>1. CASE q = r
        BY <3>2, <4>1, Zenon DEF Answer, TypeInv, Followed
      <4>2. CASE q # r
        BY <2>1, <3>2, <4>2, Zenon DEF Answer, TypeInv
      <4> QED
        BY <4>1, <4>2
    <3> QED
      BY <2>3, <3>1, <3>2 DEF Publish, reply
  <2>4. ASSUME NEW r \in Request, ReleaseIdempotencyKey(r)
        PROVE  Followed(named[q])'
    BY <1>4, <2>1, <2>4, Zenon DEF ReleaseIdempotencyKey, Answer, TypeInv
  <2>5. ASSUME NEW r \in Request,
               \/ Chat(r) \/ ClaimIdempotencyKey(r) \/ SetPublished(r)
               \/ MarkPublished(r) \/ SetFailed(r)
        PROVE  Followed(named[q])'
    <3>1. UNCHANGED reply
      BY <2>5, <1>calm DEF Chat, ClaimIdempotencyKey, SetPublished,
         MarkPublished, SetFailed, reply
    <3> QED
      BY <2>1, <3>1 DEF reply
  <2>6. CASE UNCHANGED vars
    BY <2>1, <2>6 DEF vars, reply
  <2> QED
    BY <2>2, <2>3, <2>4, <2>5, <2>6, <1>calm DEF Next, Step
<1> QED
  BY <1>2, <1>3, <1>4 DEF CalmInv, Followed

\* The calm invariant over a behaviour.
LEMMA CalmAlways == Spec => [](CountInv /\ TypeInv /\ KeyInv /\ (Calm => CalmInv))
<1>1. Init => CalmInv /\ CountInv
  <2> SUFFICES ASSUME Init PROVE CalmInv /\ CountInv
    OBVIOUS
  <2>1. \A r \in Request : pc[r] = "new" /\ code[r] = ""
    BY Zenon DEF Init
  <2>2. \A k \in Key : idem[k] = None
    BY Zenon DEF Init
  <2>3. CountInv
    BY InitCount
  <2> QED
    BY <2>1, <2>2, <2>3, Zenon DEF CalmInv
<1>2. /\ CountInv /\ TypeInv /\ KeyInv /\ (Calm => CalmInv) /\ [Next]_vars
      => (Calm => CalmInv)'
  BY CalmSteps, NextCalmInv
<1> QED
  BY <1>1, <1>2, InitInv, NextTypeInv, NextKeyInv, NextCountInv, PTL DEF Spec

\* While Redis and the API hold out, every job named in a response is queued,
\* being published, or marked failed.
THEOREM AnswersCanBeFollowed == Spec => []AnswerNamesAJob
<1>1. TypeInv /\ (Calm => CalmInv) => AnswerNamesAJob
  BY DEF CalmInv, AnswerNamesAJob, Followed, Publishing
<1> QED
  BY <1>1, CalmAlways, PTL

\* And a publish that raised gives the key back.
THEOREM KeysGivenBack == Spec => []KeyNotStuck
<1>1. (Calm => CalmInv) => KeyNotStuck
  BY DEF CalmInv, KeyNotStuck, Publishing
<1> QED
  BY <1>1, CalmAlways, PTL
=============================================================================
