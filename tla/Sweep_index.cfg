\* The README's promise about failed items against the order of the calls.
SPECIFICATION Spec
CONSTANTS
  Models <- MCModels
  PPLengths <- MCLengths
  MaxContext = 262144
  Parts = {"library"}
  MaxChanges = 0
INVARIANT FailedPublishesNothing
CHECK_DEADLOCK FALSE
