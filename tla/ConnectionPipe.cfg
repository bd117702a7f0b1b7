\* Writes of one size, a multiple of the bandwidth; reads smaller, equal and larger.
SPECIFICATION Spec
CONSTANTS
  Bandwidth = 1
  WriteSizes = {2}
  ReadSizes = {1, 2, 3}
  MaxWrites = 3
  MaxCycle = 7
CHECK_DEADLOCK FALSE
INVARIANTS TypeOK BitsConserved WithinBandwidth
PROPERTY ReadServed
