SPECIFICATION FairSpec
CONSTANTS
  N = 3
  BlockMax = 2
  SeqSpace = 8
  LenSpace = 4
  SwapSequence <- OneBitSequence
  SwapLength <- OneBitLength
  Patience = 28
  Latency = 2
  Faults = {"duplicate"}
  MaxFaults = 3
INVARIANTS
  NoGaps
  AckedWritten
  WaitBudget
PROPERTIES
  Completes
