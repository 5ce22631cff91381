SPECIFICATION Spec
CONSTANTS
  Inputs <- MissingInput
  Openable = {"f", "g"}
  MaxInterrupts = 1
  MaxForkFailures = 0
INVARIANTS EachLineOnce
