---------------------------- MODULE OrderedList ----------------------------
(***************************************************************************)
(* c-project4, problem 3: a singly linked list of numbers, built from      *)
(* elements that malloc() returns one after the other.  Element n is the   *)
(* n-th allocated; 0 is NULL.                                              *)
(***************************************************************************)
EXTENDS Naturals, Sequences, FiniteSets

CONSTANTS
  Numbers,      \* the numbers that may be added
  MaxElements   \* bound on the elements allocated

ASSUME ListAssumption ==
  /\ Numbers \subseteq Nat
  /\ MaxElements \in Nat

NULL == 0

VARIABLES
  i,          \* the number of each element
  next,       \* the element behind each one
  head,
  elements    \* the count that the list keeps

vars == <<i, next, head, elements>>

Allocated == DOMAIN i

(* The elements on the list.                                               *)
Chain ==
  LET nth[k \in 0..Len(i)] ==
        IF k = 0 THEN head ELSE IF nth[k - 1] = NULL THEN NULL ELSE next[nth[k - 1]]
  IN  {nth[k] : k \in DOMAIN nth} \ {NULL}

-----------------------------------------------------------------------------
make_list == i = << >> /\ next = << >> /\ head = NULL /\ elements = 0

size == elements

(* Mutants: a smaller number goes to the end; the old tail is cut off.     *)
GoesFirstSmall(n) == i[head] \leq n

LinkedEndCut(last, e) == [x \in 1..e |-> IF x = last THEN NULL ELSE IF x = e THEN NULL ELSE next[x]]

GoesFirst(n) == i[head] \geq n

(* The walk to the end of the list.                                        *)
LastElement == CHOOSE e \in Chain : next[e] = NULL

LinkedEnd(last, e) == [x \in 1..e |-> IF x = last THEN e ELSE IF x = e THEN NULL ELSE next[x]]

(* add_element(): in front of the head, or else at the end.                *)
add_element(n) ==
  LET e == Len(i) + 1
  IN  /\ Len(i) < MaxElements
      /\ i' = Append(i, n)
      /\ elements' = elements + 1
      /\ IF head = NULL
         THEN head' = e /\ next' = Append(next, NULL)
         ELSE IF GoesFirst(n)
         THEN head' = e /\ next' = Append(next, head)
         ELSE head' = head /\ next' = LinkedEnd(LastElement, e)

Full == Len(i) = MaxElements /\ UNCHANGED vars

Init == make_list

Next == (\E n \in Numbers : add_element(n)) \/ Full

Spec == Init /\ [][Next]_vars

-----------------------------------------------------------------------------
(* Correctness.                                                            *)

TypeOK ==
  /\ i \in Seq(Numbers)
  /\ next \in Seq(Allocated \cup {NULL})
  /\ Len(next) = Len(i)
  /\ head \in Allocated \cup {NULL}
  /\ elements \in Nat

(* No element is lost or counted twice: what the list says it holds is     *)
(* what can be reached from its head (cp4-problem3.c:85-87, 97-116).       *)
NothingLost == Chain = Allocated /\ size = Cardinality(Chain)

(* The head holds the smallest number, whatever was added in whatever      *)
(* order (cp4-problem3.c:103-116).                                         *)
HeadIsSmallest == head # NULL => \A e \in Allocated : i[head] \leq i[e]
=============================================================================
