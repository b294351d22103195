\* One run of each script.
SPECIFICATION GenSpec
CONSTANTS
  MaxScriptRuns = 1
  TokenizerVocab = 32000
INVARIANT SkipI2sCompletes
CHECK_DEADLOCK FALSE
