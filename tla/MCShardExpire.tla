--------------------------- MODULE MCShardExpire ---------------------------
(* Instances of ShardExpire for TLC.                                       *)
EXTENDS ShardExpire, TLC

CONSTANTS s1, s2, s3, c1, c2

(* s1 and s2 have the same content.                                        *)
Shared == s1 :> c1 @@ s2 :> c1

SharedAndOwn == s1 :> c1 @@ s2 :> c1 @@ s3 :> c2
=============================================================================
