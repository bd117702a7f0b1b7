\* Input stationary arrays keep their ifmaps.
SPECIFICATION Spec
CONSTANTS
  Layers <- AllLayers
  non = non
CHECK_DEADLOCK FALSE
INVARIANT IfmapsStationary
