SPECIFICATION Session
CONSTANTS
  MaxLine = 10
  Lines <- SampleLines
  Env <- Environment
  Remains <- Heap
  Texts <- AllTexts
  Programs <- ProgramNames
  Files <- FileMap
  Openable = {"f", "other"}
  MaxInterrupts = 1
  MaxForkFailures = 1
INVARIANTS TypeOK OnlyThisLine WordsAreRuns RunsTheText
PROPERTIES ImplementsShell
