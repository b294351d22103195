\* Blocks of two units, requests of up to two blocks, two requests per batch:
\* a file of up to nine units takes one or two batches, the last partly filled.
SPECIFICATION Spec
CONSTANTS
  Align = 2
  Chunk = 4
  Depth = 2
  MaxFile = 9
  MaxChanges = 2
INVARIANTS DeliveredInPlace AcceptedWhole BufferOwned RequestsFit
PROPERTIES StepsBounded Terminates
CHECK_DEADLOCK FALSE
