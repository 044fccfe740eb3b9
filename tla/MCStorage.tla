----------------------------- MODULE MCStorage -----------------------------
(***************************************************************************)
(* Storage for TLC.  The contents of the shards s1 and s2 are the same.    *)
(***************************************************************************)
EXTENDS Storage, TLC

CONSTANTS s1, s2, c1

MCCidOf == [s \in Shard |-> c1]

TaskSymmetry == Permutations(Task)
=============================================================================
