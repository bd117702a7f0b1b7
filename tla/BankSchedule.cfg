\* Every bank has one processor: reads of three lines, writes, linalg.generic, computing.
SPECIFICATION Spec
CONSTANTS
  p1 = p1
  p2 = p2
  b1 = b1
  b2 = b2
  Procs = {p1, p2}
  Banks = {b1, b2}
  Uses <- OwnBanks
  Mem <- DRAMTwoBanks
  Lines <- ThreeLines
  Generics <- OneGeneric
  MaxOps = 3
SYMMETRY Swap
INVARIANTS TypeOK BankExclusive NoEarlyGrant OperationsCoverGrants
PROPERTY TimeNeverBack
