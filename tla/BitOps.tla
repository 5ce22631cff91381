------------------------------- MODULE BitOps -------------------------------
(***************************************************************************)
(* c-project1, problem 2: bits of three ints are counted and compared, and *)
(* those of the first one reversed.  One action is one turn of a loop: the *)
(* loops shift a signed int to the right until it is 0.  xor_all() is an   *)
(* operator of C and left out.                                             *)
(***************************************************************************)
EXTENDS Integers, FiniteSets

CONSTANT Bits  \* the width of an int, at least 2

VARIABLES
  ints,   \* the arguments int1, int2, int3
  pc,     \* what main() is doing: idle, count, reverse, done
  pair,   \* the two arguments that most_ones() compares
  left,   \* the count of the first of them, or -1 before it is known
  n,      \* what is left of the int to count or reverse
  acc,    \* the bits counted so far
  r, s,   \* the reversed bits, and how far they still have to move
  result  \* result1 and result3

vars == <<ints, pc, pair, left, n, acc, r, s, result>>

(* As a function, whose values can be reasoned about.                      *)
PowerOf2[k \in Nat] == IF k = 0 THEN 1 ELSE 2 * PowerOf2[k - 1]

Half == PowerOf2[Bits - 1]

Ints == -Half..(Half - 1)

(* What an int keeps of a number.                                          *)
ToInt(x) == ((x + Half) % (2 * Half)) - Half

(* Mutant: the shift rounds up.                                            *)
ShiftRoundsUp(x) == (x + 1) \div 2

(* >> on a signed int copies the sign bit, which is what \div does.        *)
ShiftRight(x) == x \div 2

-----------------------------------------------------------------------------
Idle ==
  /\ ints = <<0, 0, 0>>
  /\ pc = "idle"
  /\ pair = <<1, 2>>
  /\ left = -1
  /\ n = 0
  /\ acc = 0
  /\ r = 0
  /\ s = 0
  /\ result = [most |-> 0, reversed |-> 0]

main ==
  /\ pc = "idle"
  /\ \E a, b, c \in Ints : ints' = <<a, b, c>> /\ n' = a
  /\ pc' = "count"
  /\ UNCHANGED <<pair, left, acc, r, s, result>>

(* A turn of the loop of compare_bits_and().                               *)
Counted == acc + (n % 2)

CountBit ==
  /\ pc = "count"
  /\ ShiftRight(n) # 0
  /\ n' = ShiftRight(n)
  /\ acc' = ToInt(Counted)
  /\ UNCHANGED <<ints, pc, pair, left, r, s, result>>

(* The last turn, in the first call of a comparison.                       *)
CountedLeft ==
  /\ pc = "count"
  /\ ShiftRight(n) = 0
  /\ left = -1
  /\ left' = Counted
  /\ n' = ints[pair[2]]
  /\ acc' = 0
  /\ UNCHANGED <<ints, pc, pair, r, s, result>>

(* Mutant: of two equal counts the second one wins.                        *)
BestLast == IF left > Counted THEN pair[1] ELSE pair[2]

Best == IF left \geq Counted THEN pair[1] ELSE pair[2]

(* In the second call: the better of the two is compared with the third.   *)
CountedRight ==
  /\ pc = "count"
  /\ ShiftRight(n) = 0
  /\ left # -1
  /\ left' = -1
  /\ acc' = 0
  /\ IF pair[2] # 3
     THEN /\ pair' = <<Best, 3>>
          /\ n' = ints[Best]
          /\ UNCHANGED <<pc, r, s, result>>
     ELSE /\ pc' = "reverse"
          /\ result' = [result EXCEPT !.most = ints[Best]]
          /\ n' = ShiftRight(ints[1])
          /\ r' = ints[1]
          /\ s' = Bits - 1
          /\ UNCHANGED pair
  /\ UNCHANGED ints

(* Mutant: the reversal ends with the last bit that is set.                *)
MovedNowhere == r

Moved == r * PowerOf2[s]

(* A turn of the loop of reverse_bits().                                   *)
ReverseBit ==
  /\ pc = "reverse"
  /\ n # 0
  /\ r' = ToInt(2 * r + (n % 2))
  /\ s' = ToInt(s - 1)
  /\ n' = ShiftRight(n)
  /\ UNCHANGED <<ints, pc, pair, left, acc, result>>

Reversed ==
  /\ pc = "reverse"
  /\ n = 0
  /\ result' = [result EXCEPT !.reversed = ToInt(Moved)]
  /\ pc' = "done"
  /\ UNCHANGED <<ints, pair, left, n, acc, r, s>>

Done == pc = "done" /\ UNCHANGED vars

Step == CountBit \/ CountedLeft \/ CountedRight \/ ReverseBit \/ Reversed

Next == main \/ Step \/ Done

Spec == Idle /\ [][Next]_vars /\ WF_vars(Step)

-----------------------------------------------------------------------------
(* Correctness.                                                            *)

Bit(x, k) == (x \div PowerOf2[k]) % 2

Ones(x) == Cardinality({k \in 0..(Bits - 1) : Bit(x, k) = 1})

(* The argument with the most bits set is found, the first one of several, *)
(* whichever way the comparisons went (cp1-problem2.c:61-83, 87-97).       *)
MostOnesFirst ==
  pc \in {"reverse", "done"} =>
    \E x \in 1..3 :
      /\ result.most = ints[x]
      /\ \A y \in 1..3 : Ones(ints[y]) \leq Ones(ints[x])
      /\ \A y \in 1..(x - 1) : Ones(ints[y]) < Ones(ints[x])

(* Every bit of the result is the bit at the other end of the argument     *)
(* (cp1-problem2.c:108-128).                                               *)
BitsReversed ==
  pc = "done" => \A k \in 0..(Bits - 1) : Bit(result.reversed, k) = Bit(ints[1], Bits - 1 - k)

(* The program ends when none of its arguments is negative                 *)
(* (cp1-problem2.c:87-97, 120-126).                                        *)
NonNegativeEnds == (pc = "count" /\ \A x \in 1..3 : ints[x] \geq 0) ~> (pc = "done")

(* The program ends, with any arguments: those of c-project1/test:23 have  *)
(* a -1 among them, which >>= never turns into the 0 that the loop waits   *)
(* for (cp1-problem2.c:87-97).                                             *)
ProgramEnds == pc = "count" ~> pc = "done"
=============================================================================
