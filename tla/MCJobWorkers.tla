---------------------------- MODULE MCJobWorkers ----------------------------
(* Instances of JobWorkers for TLC.                                        *)
EXTENDS JobWorkers, TLC

CONSTANTS j1, j2, j3, w1, w2, c1, c2

\* What the jobs of an instance ask for.
StartOnly == (j1 :> "message")
StartAndConfirm == (j1 :> "message") @@ (j2 :> "confirm")
StartDeclineInvalid ==
    (j1 :> "message") @@ (j2 :> "decline") @@ (j3 :> "invalid")

\* All jobs in one conversation, or j3 in one of its own.
OneConversation == [j \in Job |-> c1]
J3Apart == [j \in Job |-> IF j = j3 THEN c2 ELSE c1]

\* Workers are interchangeable.
WorkerSymmetry == Permutations(Worker)
=============================================================================
