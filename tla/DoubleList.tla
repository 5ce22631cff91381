----------------------------- MODULE DoubleList -----------------------------
(***************************************************************************)
(* c-project3, problem 2: a doubly linked list of pairs of a number and a  *)
(* string, built from elements that calloc() returns one after the other.  *)
(* Element n is the n-th allocated; 0 is NULL.                             *)
(***************************************************************************)
EXTENDS Integers, Sequences, FiniteSets

CONSTANTS
  Numbers,      \* the numbers that may be given
  Strings,      \* the strings that may go with them
  MaxElements   \* bound on the elements allocated

NULL == 0

VARIABLES
  element,    \* the pair of each element
  next, prev, \* the elements behind and before each one
  head,
  deleted,    \* has main() given the list back?
  answer      \* what the last call returned

vars == <<element, next, prev, head, deleted, answer>>

-----------------------------------------------------------------------------
make_list == element = << >> /\ next = << >> /\ prev = << >> /\ head = NULL /\ deleted = FALSE

(* size(): the walk from the head to the end.                              *)
size ==
  LET nth[k \in 1..Len(element)] ==
        IF k = 1 THEN head ELSE IF nth[k - 1] = NULL THEN NULL ELSE next[nth[k - 1]]
  IN  Cardinality({k \in DOMAIN nth : nth[k] # NULL})

(* Mutant: the numbers are not compared.                                   *)
int_search_none(m) == FALSE

(* int_search(): the head is compared, as often as there are elements.     *)
int_search(m) == size > 0 /\ element[head].i = m

(* Mutant: the new element does not point back.                            *)
NoBackPointer == NULL

BackPointer == head

Answer(call, m, value) == answer' = [call |-> call, i |-> m, value |-> value]

(* add_element(): the first element is the head, every later one with      *)
(* another number than the head's takes the place behind it; for one with  *)
(* the same number only the allocation is left.                            *)
add_element(m, string) ==
  LET e == Len(element) + 1
      linked == size = 0 \/ ~ int_search(m)
      behind == size > 0 /\ linked
  IN  /\ Len(element) < MaxElements
      /\ element' = Append(element, [i |-> m, v |-> string])
      /\ head' = IF head = NULL THEN e ELSE head
      /\ next' = Append(IF behind THEN [next EXCEPT ![head] = e] ELSE next, NULL)
      /\ prev' = Append(prev, IF behind THEN BackPointer ELSE NULL)
      /\ Answer("add", m, IF linked THEN "0" ELSE "1")
      /\ UNCHANGED deleted

(* delete_element() is not filled in.                                      *)
delete_element(m) ==
  /\ Answer("delete", m, "0")
  /\ UNCHANGED <<element, next, prev, head, deleted>>

(* lookup_element(): the loop's index hides the number that was asked for, *)
(* and is what the head is compared with.                                  *)
Lookup ==
  IF size > 0 /\ element[head].i \in 0..(size - 1) THEN element[head].v ELSE "NULL"

lookup_element(m) ==
  /\ Answer("lookup", m, Lookup)
  /\ UNCHANGED <<element, next, prev, head, deleted>>

(* delete_list(): the elements stay allocated.                             *)
delete_list ==
  /\ ~ deleted
  /\ deleted' = TRUE
  /\ UNCHANGED <<element, next, prev, head, answer>>

Init ==
  /\ make_list
  /\ answer = [call |-> "none", i |-> 0, value |-> "0"]

Command ==
  /\ ~ deleted
  /\ \E m \in Numbers :
       (\E string \in Strings : add_element(m, string)) \/ delete_element(m) \/ lookup_element(m)

Next == Command \/ delete_list \/ (deleted /\ UNCHANGED vars)

Spec == Init /\ [][Next]_vars

-----------------------------------------------------------------------------
(* Correctness.                                                            *)

OnList == {head, IF head = NULL THEN NULL ELSE next[head]} \ {NULL}

(* The pointers agree in both directions, and the list ends                *)
(* (cp3-problem2.c:167-175).                                               *)
LinksAgree ==
  \A e \in OnList :
    /\ next[e] # NULL => prev[next[e]] = e
    /\ e = head => prev[e] = NULL
    /\ e # head => next[e] = NULL

(* Only one element of the list has a given number, although int_search()  *)
(* sees but one of them (cp3-problem2.c:8-9, 171).                         *)
NumbersDiffer == \A e, f \in OnList : element[e].i = element[f].i => e = f
=============================================================================
