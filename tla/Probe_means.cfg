\* The comment in write_summaries against what run leaves behind.
SPECIFICATION Spec
CONSTANTS
  Largest = 1
  Reps = 2
  Warmup = 1
  Metrics <- MCMetrics
  NotApplicable = {"conditioned_decode_forward_tps"}
INVARIANT FailedLeavesNoMeans
CHECK_DEADLOCK FALSE
