---------------------------- MODULE MCExercises ----------------------------
(***************************************************************************)
(* The exercises with state or arithmetic in them, side by side: programs  *)
(* of one thread that never meet.  Every behaviour is one of one of them.  *)
(***************************************************************************)
EXTENDS OrderedList, Integers

CONSTANTS
  MaxEmployees, Names, Ids, Salaries, Word,            \* EmployeeTable
  Strings, MaxAllocated,                               \* DoubleList
  Bits,                                                \* BitOps
  MaxInt, Arguments, Spoken                            \* Numbers

ASSUME ExercisesAssumption ==
  /\ MaxEmployees \in Nat \ {0, 1}
  /\ Word \in Nat \ {0, 1}
  /\ Ids \subseteq Nat
  /\ Salaries \subseteq 0..(Word - 1)
  /\ Bits \in Nat \ {0, 1}
  /\ MaxInt \in Nat
  /\ Arguments \subseteq Int
  /\ \A m \in Spoken : m \in Int /\ m \leq 2147483647 /\ -m \leq 2147483647

VARIABLES
  program,
  employees, employeesTemp, index, staff, beyond, zeroRemoved, tableResult,
  element, doubleNext, prev, doubleHead, deleted, doubleAnswer,
  ints, pc, pair, left, n, acc, r, s, result,
  answer

listVars == vars
tableVars == <<employees, employeesTemp, index, staff, beyond, zeroRemoved, tableResult>>
doubleVars == <<element, doubleNext, prev, doubleHead, deleted, doubleAnswer>>
bitVars == <<ints, pc, pair, left, n, acc, r, s, result>>
allVars == <<program, listVars, tableVars, doubleVars, bitVars, answer>>

Table == INSTANCE EmployeeTable WITH result <- tableResult

Double == INSTANCE DoubleList WITH
  next <- doubleNext, head <- doubleHead, answer <- doubleAnswer,
  MaxElements <- MaxAllocated

BitsOf == INSTANCE BitOps

(* On either side of every power and of the tens, and what cp3-problem1's  *)
(* tests say.                                                              *)
SpokenSizes ==
  (0..120) \cup {293, 2938, 14000008, 2003985675, 1000000000, 1999999999, 2147483647}
    \cup UNION {{p - 1, p, p + 1, 19 * p + 19, 20 * p + 20, 21 * p + (p \div 2), 100 * p + 10, 999 * p + 999}
                : p \in {100, 1000, 1000000}}

SpokenNumbers == SpokenSizes \cup {-m : m \in SpokenSizes}

SmallArguments == -2..12

Number == INSTANCE Numbers

-----------------------------------------------------------------------------
AllInit ==
  /\ program \in {"list", "table", "double", "bits", "number"}
  /\ Init
  /\ Table!Init
  /\ Double!Init
  /\ BitsOf!Idle
  /\ Number!Init

ListStep ==
  /\ program = "list"
  /\ Next
  /\ UNCHANGED <<program, tableVars, doubleVars, bitVars, answer>>

TableStep ==
  /\ program = "table"
  /\ Table!Next
  /\ UNCHANGED <<program, listVars, doubleVars, bitVars, answer>>

DoubleStep ==
  /\ program = "double"
  /\ Double!Next
  /\ UNCHANGED <<program, listVars, tableVars, bitVars, answer>>

BitStep ==
  /\ program = "bits"
  /\ BitsOf!Next
  /\ UNCHANGED <<program, listVars, tableVars, doubleVars, answer>>

NumberStep ==
  /\ program = "number"
  /\ Number!Next
  /\ UNCHANGED <<program, listVars, tableVars, doubleVars, bitVars>>

AllNext == ListStep \/ TableStep \/ DoubleStep \/ BitStep \/ NumberStep

AllSpec == AllInit /\ [][AllNext]_allVars /\ WF_allVars(BitStep)

-----------------------------------------------------------------------------
(* The properties of the instances.                                        *)
TableIsStaff == Table!TableIsStaff
SalaryIsStaffs == Table!SalaryIsStaffs
LinksAgree == Double!LinksAgree
NumbersDiffer == Double!NumbersDiffer
MostOnesFirst == BitsOf!MostOnesFirst
BitsReversed == BitsOf!BitsReversed
NonNegativeEnds == BitsOf!NonNegativeEnds
FittingFactorials == Number!FittingFactorials
SaysTheNumber == Number!SaysTheNumber
=============================================================================
