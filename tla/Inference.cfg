\* Three positions; one self-decoder layer run twice with a window of one, one
\* cross-decoder layer, two MTP depths.
SPECIFICATION ServiceSpec
CONSTANTS
  Tokens = {a, b}
  None = None
  MaxSeqLen = 3
  SelfLayers = 1
  Loops = 2
  CrossLayers = 1
  Window = 1
  MtpN = 2
  MaxIds = 2
  MaxNew = 3
  MaxRaises = 1
  Requests <- MCRequests
SYMMETRY TokenSymmetry
INVARIANTS TypeOK CacheHoldsHistory LogitsSeeHistory GenerateFaithful LoadedIsComplete ProvenanceSound
CHECK_DEADLOCK FALSE
