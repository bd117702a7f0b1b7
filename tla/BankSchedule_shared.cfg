\* Two processors read and write the same bank.
SPECIFICATION Spec
CONSTANTS
  p1 = p1
  p2 = p2
  b1 = b1
  b2 = b2
  Procs = {p1, p2}
  Banks = {b1, b2}
  Uses <- SharedBanks
  Mem <- DRAMTwoBanks
  Lines <- OneOrThreeLines
  Generics <- NoGenerics
  MaxOps = 2
INVARIANT BankExclusive
