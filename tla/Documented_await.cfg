\* The host awaits the signal of a loop.
SPECIFICATION Spec
CONSTANTS
  Programs <- Carried
  Banks = {"dma"}
  Conns = {}
  Bandwidth <- NoBandwidth
  EventQueueSize = 3
  NoBank = "no bank"
  NoCon = "no connection"
  NoValue <- NoSignal
  MaxTime = 40
INVARIANT AwaitedFinished
