\* A processor stalls on a full queue and has an event waiting.
SPECIFICATION Spec
CONSTANTS
  Programs <- Full
  Banks = {"dma"}
  Conns = {}
  Bandwidth <- NoBandwidth
  EventQueueSize = 1
  NoBank = "no bank"
  NoCon = "no connection"
  NoValue <- NoSignal
  MaxTime = 40
PROPERTY BlockRunsToEnd
