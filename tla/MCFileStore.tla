----------------------------- MODULE MCFileStore -----------------------------
(* Small instances of FileStore. *)
EXTENDS FileStore, TLC

CONSTANTS s1, s2, x, y

\* Two snapshots under different identities, of one length or of two.
MCIdentityOf == s1 :> x @@ s2 :> y
MCSameBytes == s1 :> 1 @@ s2 :> 1
MCBytes == s1 :> 1 @@ s2 :> 2

\* Bound: at most two directory operations since the last directory fsync.
FewVersions == Cardinality(onDisk) <= 3

\* What an unreferenced inode holds is dead: CreateStaging resets it.
LiveView ==
  <<dir, onDisk, [i \in Inodes |-> IF InUse(i) THEN data[i] ELSE None],
    putVars, acked, getVars>>

InodeSymmetry == Permutations(Inodes \ ForeignInodes)
FullSymmetry ==
  InodeSymmetry \cup Permutations(Writers) \cup Permutations(Snapshots)
=============================================================================
