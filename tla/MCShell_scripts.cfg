SPECIFICATION FairSpec
CONSTANTS
  Inputs <- AllInputs
  Openable = {"f", "g"}
  MaxInterrupts = 1
  MaxForkFailures = 1
INVARIANTS RunsInOrder RunsExactlyTheScript OutputWhereAsked NoChildLeft
PROPERTIES ShellExits
