\* One build while the sweep runs: a library, then the manifest.
SPECIFICATION Spec
CONSTANTS
  Models <- MCModels
  PPLengths <- MCLengths
  MaxContext = 262144
  Parts = {"library"}
  MaxChanges = 2
INVARIANT BuildsNotMixed
CHECK_DEADLOCK FALSE
