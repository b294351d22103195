---------------------------- MODULE MCMemoryStore ----------------------------
(* A small instance of MemoryStore: the quota is reached by some puts. *)
EXTENDS MemoryStore, TLC

CONSTANTS s1, s2, s3, x, y

MCIdentityOf == s1 :> x @@ s2 :> y @@ s3 :> x
MCBytes == s1 :> 1 @@ s2 :> 2 @@ s3 :> 4
=============================================================================
