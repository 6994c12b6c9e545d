-------------------------- MODULE MCAgentWorkflow --------------------------
(***************************************************************************)
(* A reservation with one segment and one with two, and two options.  The   *)
(* second segment of the second reservation flies another route.            *)
(***************************************************************************)
EXTENDS AgentWorkflow, TLC

CONSTANTS b1, b2, s1, s2, s3, x, y

Segments == (b1 :> <<s1>>) @@ (b2 :> <<s2, s3>>)
Routes == (s1 :> "out") @@ (s2 :> "out") @@ (s3 :> "back")
          @@ (x :> "out") @@ (y :> "out")
Symmetry == Permutations({x, y})
=============================================================================
