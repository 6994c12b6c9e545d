--------------------------- MODULE MCJobPublisher ---------------------------
(* Instances of JobPublisher for TLC: three requests repeat one key and a   *)
(* fourth has none.                                                         *)
EXTENDS JobPublisher, TLC

CONSTANTS r1, r2, r3, r4, k1

OneKey == [r \in Request |-> IF r = r4 THEN None ELSE k1]

RequestSymmetry == Permutations({r1, r2, r3})
=============================================================================
