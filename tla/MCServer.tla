------------------------------ MODULE MCServer ------------------------------
(* Small instances of Server for TLC. *)
EXTENDS Server, TLC

CONSTANTS i1, i2, s1, s2, b1, b2, c1, c2, c3

(* s1 and s2 collide on one identifier, or have one each. *)
MCIdOfSame == s1 :> i1 @@ s2 :> i1
MCIdOfApart == s1 :> i1 @@ s2 :> i2

(* One block per bucket: up to 2 bytes in bucket 0, up to 4 in bucket 1. *)
MCBucketsApart == b1 :> 0 @@ b2 :> 1
MCBucketsSame == b1 :> 0 @@ b2 :> 0

(* No header, the two legal lengths, and one that is too large. *)
MCLengths == {-1, 2, 3, 4}

Symmetry == Permutations(Conns)
=============================================================================
