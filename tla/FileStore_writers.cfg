\* Two processes that share a pid put snapshots under one key.
SPECIFICATION Spec
CONSTANTS
  s1 = s1
  s2 = s2
  x = x
  y = y
  None = None
  Garbage = Garbage
  Keys = {k1}
  Snapshots = {s1, s2}
  Identities = {x, y}
  IdentityOf <- MCIdentityOf
  Bytes <- MCSameBytes
  Readers = {}
  Writers = {w1, w2}
  Inodes = {i1, i2}
  ForeignInodes = {}
  Pids = {1}
  MaxSeq = 1
  MaxAttempts = 2
  MaxBlob = 2
  MaxStore = 9
CONSTRAINT FewVersions
VIEW LiveView
SYMMETRY FullSymmetry
INVARIANTS ExclusiveStaging PublishedComplete AckedDurable
PROPERTY NeverReplaced
CHECK_DEADLOCK FALSE
