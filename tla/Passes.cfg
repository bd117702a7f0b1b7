SPECIFICATION Spec
CONSTANTS
  Nests <- SmallNests
  TileSizes <- TileLists
  ExcessFactors <- Excesses
  MaxMerged = 3
INVARIANTS TypeOK IterationsKept UnmergedUniform
PROPERTIES NothingRemovableLeft FittingTilesDivide
CHECK_DEADLOCK FALSE
