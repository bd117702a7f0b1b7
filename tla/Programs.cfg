\* Kernels over a pipe, memory banks, nested launches, loops and components.
SPECIFICATION Spec
CONSTANTS
  Programs <- Everything
  Banks = {"dma", "rf", "bank1", "bank2"}
  Conns <- AllConns
  Bandwidth <- AllBandwidths
  EventQueueSize = 3
  NoBank = "no bank"
  NoCon = "no connection"
  NoValue <- NoSignal
  MaxTime = 80
INVARIANTS EventInv DeviceInOrder CopiesAccounted AllExecuted TimingPipe Barrier
PROPERTIES RulesKept BlockRunsToEnd ImplementsEvents Terminates
