----------------------------- MODULE MCGateway -----------------------------
(* Instances of Gateway for TLC.                                           *)
EXTENDS Gateway, TLC

CONSTANTS o1, o2, d1, d2

(* A single proposal ...                                                   *)
OneOrder == o1 :> d1

(* ... or o2 updates the model o1 created.                                 *)
SameModel == o1 :> d1 @@ o2 :> d1

Symmetry == Permutations(Task) \cup Permutations(Sp)
=============================================================================
