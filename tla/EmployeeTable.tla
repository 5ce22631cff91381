--------------------------- MODULE EmployeeTable ---------------------------
(***************************************************************************)
(* c-project2, problem 2: a table of employees in an array, with a second  *)
(* array in which remove_employee() builds the table anew.                 *)
(***************************************************************************)
EXTENDS Integers, Sequences

CONSTANTS
  MaxEmployees,   \* MAX_NUM_EMPLOYEES
  Names,
  Ids,            \* numbers the commands may give as an id
  Salaries,       \* of 0..(Word - 1)
  Word            \* 2^32: the width of unsigned int

VARIABLES
  employees,      \* the table; an empty slot has id 0
  employeesTemp,  \* what remove_employee() last built
  index,          \* the slot for the next employee
  staff,          \* history: the employees who were given a slot, by what the
                  \* commands answered
  beyond,         \* history: those said to be added and put behind the last
  zeroRemoved,    \* history: "employee 0", an empty slot, has been removed
  result          \* the answer to the last command

vars == <<employees, employeesTemp, index, staff, beyond, zeroRemoved, result>>

Slots == 0..(MaxEmployees - 1)

Empty == [name |-> "", id |-> 0, salary |-> 0]

(* init_records(), and what static storage holds before it.                *)
init_records == [x \in Slots |-> Empty]

-----------------------------------------------------------------------------
Taken(id) == \E x \in Slots : employees[x].id = id

(* main() reads every name into memory of its own, so that no pointer to   *)
(* it equals that of a slot: a name is never found to exist, and -1 never  *)
(* answered.  The loop gives up in its first turn when index is too large. *)
AddResult(id) ==
  IF employees[0].id = id \/ (index \leq MaxEmployees /\ Taken(id)) THEN -2
  ELSE IF index > MaxEmployees THEN -3
  ELSE 0

(* index is compared too late by one: the employee after the last slot is  *)
(* written behind the table, over padding and the end of the strings of    *)
(* employeesTemp[0], where nothing is read while names are shorter than 24 *)
(* characters and locations than 16.                                       *)
add_employee(name, id, salary) ==
  LET code == AddResult(id)
      new == [name |-> name, id |-> id, salary |-> salary]
  IN  /\ result' = [command |-> "add", id |-> id, name |-> name, code |-> code]
      /\ IF code = 0
         THEN /\ employees' = [x \in Slots |-> IF x = index THEN new ELSE employees[x]]
              /\ index' = index + 1
              /\ staff' = IF index < MaxEmployees THEN Append(staff, new) ELSE staff
              /\ beyond' = IF index < MaxEmployees THEN beyond ELSE Append(beyond, new)
         ELSE UNCHANGED <<employees, index, staff, beyond>>
      /\ UNCHANGED <<employeesTemp, zeroRemoved>>

AsSequence(table) == [i \in 1..MaxEmployees |-> table[i - 1]]

(* The employees of a sequence whose id is not the given one.              *)
AllBut(id, sequence) ==
  LET kept[k \in 0..Len(sequence)] ==
        IF k = 0 THEN << >>
        ELSE IF sequence[k].id = id THEN kept[k - 1] ELSE Append(kept[k - 1], sequence[k])
  IN  kept[Len(sequence)]

(* Mutant: the copy starts one slot late.                                  *)
WithoutFirst(id) ==
  LET rest == AllBut(id, AsSequence(employees))
  IN  [x \in Slots |-> IF x < Len(rest) - 1 THEN rest[x + 2] ELSE employeesTemp[x]]

(* The table without id, moved up, before what employeesTemp held there.   *)
Without(id) ==
  LET rest == AllBut(id, AsSequence(employees))
  IN  [x \in Slots |-> IF x < Len(rest) THEN rest[x + 1] ELSE employeesTemp[x]]

(* The search returns in its first turn, one way or the other.             *)
remove_employee(id) ==
  /\ UNCHANGED <<index, beyond>>
  /\ IF employees[0].id = id
     THEN /\ employees' = Without(id)
          /\ employeesTemp' = Without(id)
          /\ result' = [command |-> "remove", id |-> id, name |-> "", code |-> 0]
          /\ staff' = AllBut(id, staff)
          /\ zeroRemoved' = (zeroRemoved \/ id = 0)
     ELSE /\ result' = [command |-> "remove", id |-> id, name |-> "", code |-> -1]
          /\ UNCHANGED <<employees, employeesTemp, staff, zeroRemoved>>

(* The conversion from unsigned int to int.                                *)
ToInt(n) == IF n < Word \div 2 THEN n ELSE n - Word

(* Mutant: another slot is compared in the place of the last one, as slot  *)
(* 3 is compared twice.                                                    *)
SalaryButLast(id) ==
  IF \E x \in Slots \ {MaxEmployees - 1} : employees[x].id = id
  THEN ToInt(employees[CHOOSE x \in Slots : employees[x].id = id
                         /\ \A y \in 0..(x - 1) : employees[y].id # id].salary)
  ELSE -1

get_salary(id) ==
  IF \E x \in Slots : employees[x].id = id
  THEN ToInt(employees[CHOOSE x \in Slots : employees[x].id = id
                         /\ \A y \in 0..(x - 1) : employees[y].id # id].salary)
  ELSE -1

-----------------------------------------------------------------------------
Init ==
  /\ employees = init_records
  /\ employeesTemp = init_records
  /\ index = 0
  /\ staff = << >>
  /\ beyond = << >>
  /\ zeroRemoved = FALSE
  /\ result = [command |-> "none", id |-> 0, name |-> "", code |-> 0]

AddOne ==
  \E name \in Names, id \in Ids, salary \in Salaries : add_employee(name, id, salary)

RemoveOne == \E id \in Ids : remove_employee(id)

Next == AddOne \/ RemoveOne

Spec == Init /\ [][Next]_vars

-----------------------------------------------------------------------------
(* Correctness.                                                            *)

(* The table holds exactly the employees who were given a slot and whom no *)
(* command said it removed, each once, in the order they were added:       *)
(* nothing of what employeesTemp held before comes back, and no removal    *)
(* makes the table lose another.  One employee at most is said to be added *)
(* and is in no slot: the one after MaxEmployees additions, for whom there *)
(* is no room even when removals have made some                            *)
(* (cp2-problem2.c:140-157, 178-186).                                      *)
(*                                                                         *)
(* Needs that no one removes id 0, which is nobody's (line 12): that takes *)
(* out the hole that removals have left at the front and fetches the last  *)
(* removal's leftovers instead, employees of long ago among them.          *)
TableIsStaff ==
  ~ zeroRemoved => AllBut(0, AsSequence(employees)) = staff /\ Len(beyond) \leq 1

(* Whoever has a slot is found with the true salary, and no one else is;   *)
(* of a salary of 2^31 or more a negative number is all that is said,      *)
(* which may be the -1 of nobody (cp2-problem2.c:195-232).  Id 0 is that   *)
(* of an empty slot.                                                       *)
SalaryIsStaffs ==
  ~ zeroRemoved => \A id \in Ids \ {0} :
    IF \E i \in DOMAIN staff : staff[i].id = id
    THEN LET paid == staff[CHOOSE i \in DOMAIN staff : staff[i].id = id].salary
         IN  IF paid < Word \div 2 THEN get_salary(id) = paid ELSE get_salary(id) < 0
    ELSE get_salary(id) = -1
=============================================================================
