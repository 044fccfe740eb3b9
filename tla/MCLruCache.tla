----------------------------- MODULE MCLruCache -----------------------------
(* Instances of LruCache for TLC: keys and values are interchangeable.     *)
EXTENDS LruCache, TLC

Symmetry == Permutations(Key) \cup Permutations(Value)
=============================================================================
