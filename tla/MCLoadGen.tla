------------------------------ MODULE MCLoadGen ------------------------------
(* Two shards and two levels, the second with a single user.        *)
EXTENDS LoadGen

LevelUsers == <<2, 1>>
=============================================================================
