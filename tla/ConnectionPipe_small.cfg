\* Writes smaller than what the pipe moves in a cycle.
SPECIFICATION Spec
CONSTANTS
  Bandwidth = 2
  WriteSizes = {1}
  ReadSizes = {1}
  MaxWrites = 3
  MaxCycle = 4
CHECK_DEADLOCK FALSE
INVARIANT BitsConserved
