\* Every straight-line program of three asynchronous operations.
SPECIFICATION Spec
CONSTANTS
  Programs <- Straight
  Length = 3
  Banks = {"dma"}
  Conns = {}
  Bandwidth <- NoBandwidth
  EventQueueSize = 2
  NoBank = "no bank"
  NoCon = "no connection"
  NoValue <- NoSignal
  MaxTime = 20
INVARIANTS TypeOK EventAfterSignal ControlSettled AllExecuted TimingExact
PROPERTIES TimeForward FinishesOnTime
