-------------------------- MODULE MCLakeCompaction --------------------------
(* Instances of LakeCompaction: every record has a key of its own.           *)
EXTENDS LakeCompaction, TLC

CONSTANTS r1, r2, r3, k1, k2, k3, w1, w2

MCKeyOf == r1 :> k1 @@ r2 :> k2 @@ r3 :> k3
MCPairKeyOf == r1 :> k1 @@ r2 :> k2
MCSymmetry == Permutations({w1, w2})
=============================================================================
