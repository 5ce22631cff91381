SPECIFICATION Spec
CONSTANTS
  N = 9
  BlockMax = 3
  SeqSpace = 8
  LenSpace = 4
  SwapSequence <- OneBitSequence
  SwapLength <- OneBitLength
  Patience = 1
  Latency = 0
  Faults = {"drop","delay","stray","empty","shortwrite"}
  MaxFaults = 2
INVARIANTS
  TypeOK
  FreshAckAccepted
  TransferLimit
  NothingTwice
