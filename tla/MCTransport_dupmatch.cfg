SPECIFICATION Spec
CONSTANTS
  N = 3
  BlockMax = 2
  SeqSpace = 8
  LenSpace = 4
  SwapSequence <- OneBitSequence
  SwapLength <- OneBitLength
  Patience = 8
  Latency = 1
  Faults = {"duplicate"}
  MaxFaults = 1
INVARIANTS
  DataMatches
