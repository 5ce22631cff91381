SPECIFICATION FairSpec
CONSTANTS
  N = 3
  BlockMax = 2
  SeqSpace = 8
  LenSpace = 4
  SwapSequence <- OneBitSequence
  SwapLength <- OneBitLength
  Patience = 2
  Latency = 1
  Faults = {"drop","reorder","delay","stall","stray","syscall"}
  MaxFaults = 2
PROPERTIES
  ImplementsPipe
  ReadsOnlyAfterWritten
  ReceiverExits
