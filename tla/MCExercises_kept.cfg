SPECIFICATION AllSpec
CONSTANTS
  Numbers = {0, 1, 2}
  MaxElements = 5
  MaxEmployees = 3
  Names = {"a"}
  Ids = {0, 1, 2, 3}
  Salaries = {3, 4, 7}
  Word = 8
  Strings = {"a", "b"}
  MaxAllocated = 3
  Bits = 4
  MaxInt = 255
  Arguments <- SmallArguments
  Spoken <- SpokenNumbers
INVARIANTS
  NothingLost HeadIsSmallest
  TableIsStaff SalaryIsStaffs
  LinksAgree NumbersDiffer
  MostOnesFirst BitsReversed
  FittingFactorials SaysTheNumber
PROPERTIES
  NonNegativeEnds
