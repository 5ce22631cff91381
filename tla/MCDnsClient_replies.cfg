SPECIFICATION FairSpec
CONSTANTS
  Queries <- SomeNames
  Replies <- SomeReplies
  Strangers <- ForeignReplies
  MaxStrays = 1
INVARIANTS TypeOK PrintsTheReply AddressesAreReal
PROPERTIES ClientEnds
