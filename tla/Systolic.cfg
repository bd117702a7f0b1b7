\* Arrays of up to 3 by 2 PEs, in all three dataflows.
SPECIFICATION Spec
CONSTANTS
  Layers <- AllLayers
  non = non
CHECK_DEADLOCK FALSE
INVARIANTS TypeOK Aligned WeightsStationary Lockstep ColumnsComplete OnePEPerPlace
PROPERTIES ColumnsInTurn SumsPutOut
