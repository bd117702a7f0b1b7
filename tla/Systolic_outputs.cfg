\* Output stationary arrays put out every output.
SPECIFICATION Spec
CONSTANTS
  Layers <- AllLayers
  non = non
CHECK_DEADLOCK FALSE
INVARIANT OutputsWritten
