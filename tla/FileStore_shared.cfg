\* A writer and a reader, a file of someone else, and room for three chunks.
SPECIFICATION Spec
CONSTANTS
  s1 = s1
  s2 = s2
  x = x
  y = y
  None = None
  Garbage = Garbage
  Keys = {k1}
  Snapshots = {s1, s2}
  Identities = {x, y}
  IdentityOf <- MCIdentityOf
  Bytes <- MCBytes
  Readers = {r1}
  Writers = {w1}
  Inodes = {f, i1, i2}
  ForeignInodes = {f}
  Pids = {1}
  MaxSeq = 2
  MaxAttempts = 2
  MaxBlob = 2
  MaxStore = 3
CONSTRAINT FewVersions
VIEW LiveView
SYMMETRY InodeSymmetry
INVARIANTS QuotaRespected
PROPERTIES ForeignKept Refinement
CHECK_DEADLOCK FALSE
