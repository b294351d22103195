\* Four cases, two fingerprinted files, four changes made by others: a file can
\* be replaced and put back, with the manifest or without it.
SPECIFICATION Spec
CONSTANTS
  Models <- MCModels
  PPLengths <- MCLengths
  MaxContext = 262144
  Parts = {"library", "probe"}
  MaxChanges = 4
INVARIANTS PublishedVerified PublishedFromFrozen IndexTrue SuccessIsComplete
PROPERTIES PublishedKept StepsBounded Ends
CHECK_DEADLOCK FALSE
