\* Two measured rounds after one of warmup.
SPECIFICATION Spec
CONSTANTS
  Largest = 1
  Reps = 2
  Warmup = 1
  Metrics <- MCMetrics
  NotApplicable = {"conditioned_decode_forward_tps"}
INVARIANTS ContextSound NoPartialMeans RecordedOnce FilesTellTheTruth
PROPERTIES StepsBounded Ends
CHECK_DEADLOCK FALSE
