------------------------------ MODULE Numbers ------------------------------
(***************************************************************************)
(* Two functions of one int: factorial() (c-project1, problem 1), in ints  *)
(* of a given width, and itoaaa() (c-project3, problem 1), which puts a    *)
(* number into English.                                                    *)
(***************************************************************************)
EXTENDS Integers, Sequences

CONSTANTS
  MaxInt,   \* the largest int that factorial() computes with
  Arguments, \* what factorial() is asked for
  Spoken    \* what itoaaa() is asked for; not the smallest int, whose
            \* opposite is itself

VARIABLE answer  \* the last call and what it printed

ToInt(x) == ((x + MaxInt + 1) % (2 * (MaxInt + 1))) - MaxInt - 1

-----------------------------------------------------------------------------
(* factorial()                                                             *)

(* Mutant: a product that is no larger than the number is an overflow.     *)
OverflowedSoon(acc, n) == acc \leq n

Overflowed(acc, n) == acc < n

factorial[n \in Int] ==
  IF n < 0 THEN -1
  ELSE IF n \in {0, 1} THEN 1
  ELSE LET acc == ToInt(n * factorial[n - 1])
       IN  IF Overflowed(acc, n) THEN -2 ELSE acc

(* What main() says of the result.                                         *)
Verdict(result) ==
  IF result \geq 0 THEN "success" ELSE IF result = -1 THEN "negative"
  ELSE IF result = -2 THEN "overflow" ELSE "unknown"

Factorial ==
  \E n \in Arguments :
    answer' = [call |-> "factorial", n |-> n, verdict |-> Verdict(factorial[n]), text |-> <<factorial[n]>>]

-----------------------------------------------------------------------------
(* itoaaa().  A text is the sequence of the words between its blanks, each *)
(* of them the number it is the name of.                                   *)

NoWord == 0       \* an empty string between or behind blanks
Negative == -1
Zero == -2

digits == [n \in 0..19 |-> IF n = 0 THEN NoWord ELSE n]

tens == [n \in 0..9 |-> IF n < 2 THEN NoWord ELSE 10 * n]

(* Mutant: nineteen is taken for a ten and a nine.                         *)
HasTensNineteen(arg) == arg \geq 19

HasTens(arg) == arg > 19

(* The powers that have a name, the larger ones tried first.               *)
Powers == {1000000000, 1000000, 1000, 100}

Goes(p, arg) == arg \div p > 0

PowerIn(arg) == CHOOSE p \in Powers : Goes(p, arg) /\ \A q \in Powers : q > p => ~ Goes(q, arg)

itoaaaHelper[arg \in Int] ==
  IF arg < 0 THEN <<Negative>> \o itoaaaHelper[-arg]
  ELSE IF \E p \in Powers : Goes(p, arg)
  THEN LET p == PowerIn(arg)
       IN  itoaaaHelper[arg \div p] \o <<p>> \o itoaaaHelper[arg % p]
  ELSE IF HasTens(arg)
  THEN <<tens[arg \div 10]>> \o IF arg % 10 # 0 THEN <<digits[arg % 10]>> ELSE << >>
  ELSE <<digits[arg]>>

itoaaa(arg) == IF arg = 0 THEN <<Zero>> ELSE itoaaaHelper[arg]

Say ==
  \E n \in Spoken :
    answer' = [call |-> "itoaaa", n |-> n, verdict |-> "none", text |-> itoaaa(n)]

-----------------------------------------------------------------------------
Init == answer = [call |-> "none", n |-> 0, verdict |-> "none", text |-> << >>]

Next == Factorial \/ Say

Spec == Init /\ [][Next]_answer

-----------------------------------------------------------------------------
(* Correctness.                                                            *)

(* n!, or one more than MaxInt where it is larger than that.               *)
Product[n \in Nat] ==
  IF n = 0 THEN 1
  ELSE IF Product[n - 1] > MaxInt \div n THEN MaxInt + 1 ELSE n * Product[n - 1]

(* A factorial that is an int is printed as it is and never called an      *)
(* overflow; what is reported as negative is a negative argument, and no   *)
(* product that wraps around reads as that error or as none that is known  *)
(* (cp1-problem1.c:30-42, 50-66).                                          *)
(*                                                                         *)
(* Nothing is said of a factorial that is no int.  The comment on          *)
(* factorial() (lines 46-48) wants -2 for it, but a product that wraps to  *)
(* no less than n is printed as a success, as 13! is: 1932053504.          *)
FittingFactorials ==
  answer.call = "factorial" =>
    /\ (answer.verdict = "negative") = (answer.n < 0)
    /\ answer.verdict # "unknown"
    /\ answer.n \geq 0 /\ Product[answer.n] \leq MaxInt =>
         answer.verdict = "success" /\ answer.text = <<Product[answer.n]>>

(* A reader of a text multiplies what stands before a power by it.         *)
Hear(heard, word) ==
  IF word \in {NoWord, Zero, Negative} THEN heard
  ELSE IF word = 100 THEN [heard EXCEPT !.group = @ * 100]
  ELSE IF word \in {1000, 1000000, 1000000000}
  THEN [sum |-> heard.sum + heard.group * word, group |-> 0]
  ELSE [heard EXCEPT !.group = @ + word]

Heard(text) ==
  LET heard[k \in 0..Len(text)] ==
        IF k = 0 THEN [sum |-> 0, group |-> 0] ELSE Hear(heard[k - 1], text[k])
      all == heard[Len(text)]
  IN  (all.sum + all.group) * IF Head(text) = Negative THEN -1 ELSE 1

(* What is said is the number, on either side of every twenty, ten and     *)
(* power and with nothing between two of them (cp3-problem1.c:69-125).     *)
SaysTheNumber == answer.call = "itoaaa" => Heard(answer.text) = answer.n
=============================================================================
