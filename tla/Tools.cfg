\* Statistics: up to three rounds, one or two of warmup, arbitrary rows for one
\* or two rounds.  Generator: every family, two runs over one directory.
\* Verification: two chunks and two checks.
SPECIFICATION ToolSpec
CONSTANTS
  Largest = 1
  MaxReps = 3
  MaxWarmup = 2
  MaxArbitrary = 2
  MaxScriptRuns = 2
  TokenizerVocab = 32000
  Chunks = 2
  Eps = 1
  Checks = 2
  Measurements <- MCMeasurements
INVARIANTS PassIsExact ScheduleAccepted DataAsDeclared SelfDescribed PairMatches VerdictEarned
CHECK_DEADLOCK FALSE
