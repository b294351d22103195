\* Three keys, room for four bytes: the largest number a total can hold, so
\* that a sum of two records can wrap.
SPECIFICATION Spec
CONSTANTS
  s1 = s1
  s2 = s2
  s3 = s3
  x = x
  y = y
  None = None
  Keys = {k1, k2, k3}
  Snapshots = {s1, s2, s3}
  Identities = {x, y}
  IdentityOf <- MCIdentityOf
  Bytes <- MCBytes
  Readers = {r1}
  MaxBlob = 3
  MaxStore = 4
  Width = 5
INVARIANTS Accounting
PROPERTY Refinement
CHECK_DEADLOCK FALSE
