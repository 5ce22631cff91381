SPECIFICATION Spec
CONSTANTS
  Bits = 4
PROPERTIES ProgramEnds
