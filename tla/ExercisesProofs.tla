-------------------------- MODULE ExercisesProofs --------------------------
(***************************************************************************)
(* What the exercises keep, for any numbers and any length: the lists, the *)
(* table, the bits, the factorial and the numbers in English.              *)
(***************************************************************************)
EXTENDS MCExercises, InductionLemmas, SequenceTheorems, TLAPS

-----------------------------------------------------------------------------
(* A step of the five programs is a step of each of them, or leaves its    *)
(* variables alone.                                                        *)
LEMMA EachStep ==
  [AllNext]_allVars =>
    /\ [Next]_vars
    /\ [Table!Next]_tableVars
    /\ [Double!Next]_doubleVars
    /\ [BitsOf!Next]_bitVars
    /\ [Number!Next]_answer
<1> SUFFICES ASSUME [AllNext]_allVars
             PROVE  /\ [Next]_vars /\ [Table!Next]_tableVars /\ [Double!Next]_doubleVars
                    /\ [BitsOf!Next]_bitVars /\ [Number!Next]_answer
  OBVIOUS
<1>1. CASE ListStep
  BY <1>1 DEF ListStep
<1>2. CASE TableStep
  BY <1>2 DEF TableStep, listVars
<1>3. CASE DoubleStep
  BY <1>3 DEF DoubleStep, listVars
<1>4. CASE BitStep
  BY <1>4 DEF BitStep, listVars
<1>5. CASE NumberStep
  BY <1>5 DEF NumberStep, listVars
<1>6. CASE UNCHANGED allVars
  BY <1>6 DEF allVars, listVars
<1> QED BY <1>1, <1>2, <1>3, <1>4, <1>5, <1>6 DEF AllNext

-----------------------------------------------------------------------------
(* HeadIsSmallest needs to know when there is a head, which TypeOK leaves  *)
(* open: an element was allocated exactly when the list has a head.        *)
HeadInv ==
  /\ TypeOK
  /\ Allocated # {} => head # NULL
  /\ HeadIsSmallest

(* The links of a list that gets a last element point to its elements.     *)
LEMMA LinkedEndType ==
  ASSUME TypeOK, NEW last
  PROVE  LinkedEnd(last, Len(i) + 1) \in Seq(1..(Len(i) + 1) \cup {NULL})
         /\ Len(LinkedEnd(last, Len(i) + 1)) = Len(i) + 1
<1> DEFINE e == Len(i) + 1
<1>1. Len(i) \in Nat /\ e \in Nat
  BY DEF TypeOK
<1>2. \A x \in 1..Len(i) : next[x] \in 1..e \cup {NULL}
  BY <1>1 DEF TypeOK, Allocated
<1>3. \A x \in 1..e : x # e => x \in 1..Len(i)
  BY <1>1
<1>4. LinkedEnd(last, e) \in [1..e -> 1..e \cup {NULL}]
  BY <1>1, <1>2, <1>3 DEF LinkedEnd
<1>5. LinkedEnd(last, e) \in Seq(1..e \cup {NULL})
  BY <1>1, <1>4
<1>6. Len(LinkedEnd(last, e)) = e
  BY <1>1, <1>4, <1>5
<1> QED
  BY <1>5, <1>6

(* add_element() keeps every part of HeadInv.                              *)
LEMMA AddKeepsHeadInv ==
  ASSUME HeadInv, NEW new \in Numbers, add_element(new)
  PROVE  HeadInv'
<1> DEFINE e == Len(i) + 1
<1>1. Len(i) \in Nat /\ e \in Nat /\ elements \in Nat
  BY DEF HeadInv, TypeOK
<1>2. i' = Append(i, new) /\ i \in Seq(Numbers) /\ elements' = elements + 1
  BY DEF HeadInv, TypeOK, add_element
<1>3. i' \in Seq(Numbers) /\ Len(i') = e /\ i'[e] = new /\ \A x \in 1..Len(i) : i'[x] = i[x]
  BY <1>2
<1>4. DOMAIN i = 1..Len(i) /\ DOMAIN i' = 1..e
  BY <1>2, <1>3
<1>5. \A x \in 1..e : x = e \/ x \in 1..Len(i)
  BY <1>1
<1>6. next \in Seq(1..Len(i) \cup {NULL}) /\ Len(next) = Len(i) /\ head \in 1..Len(i) \cup {NULL}
  BY <1>4 DEF HeadInv, TypeOK, Allocated
<1>7. 1..Len(i) \subseteq 1..e /\ e \in 1..e
  BY <1>1
<1>8. Numbers \subseteq Nat
  BY ListAssumption DEF ListAssumption
<1>9. head' \in 1..e /\ next' \in Seq(1..e \cup {NULL}) /\ Len(next') = e
  <2>1. CASE head = NULL
    <3>1. head' = e /\ next' = Append(next, NULL)
      BY <2>1 DEF add_element
    <3>2. next \in Seq(1..e \cup {NULL})
      BY <1>6, <1>7
    <3> QED
      BY <3>1, <3>2, <1>6, <1>7
  <2>2. CASE head # NULL /\ GoesFirst(new)
    <3>1. head' = e /\ next' = Append(next, head)
      BY <2>2 DEF add_element
    <3>2. next \in Seq(1..e \cup {NULL}) /\ head \in 1..e \cup {NULL}
      BY <1>6, <1>7
    <3> QED
      BY <3>1, <3>2, <1>6, <1>7
  <2>3. CASE head # NULL /\ ~ GoesFirst(new)
    <3>1. head' = head /\ next' = LinkedEnd(LastElement, e)
      BY <2>3 DEF add_element
    <3>2. TypeOK
      BY DEF HeadInv
    <3> QED
      BY <3>1, <3>2, LinkedEndType, <1>6, <1>7, <2>3
  <2> QED
    BY <2>1, <2>2, <2>3
<1>10. TypeOK'
  BY <1>1, <1>2, <1>3, <1>4, <1>9 DEF TypeOK, Allocated
<1>11. head' # NULL
  BY <1>1, <1>9 DEF NULL
<1>12. \A x \in 1..e : i'[head'] \leq i'[x]
  <2>1. new \in Nat /\ \A x \in 1..Len(i) : i[x] \in Nat
    <3>1. new \in Nat
      BY <1>8
    <3>2. \A x \in 1..Len(i) : i[x] \in Numbers
      BY <1>2, <1>4
    <3> QED
      BY <3>1, <3>2, <1>8
  <2>2. CASE head = NULL
    <3>1. 1..Len(i) = {}
      BY <2>2, <1>4 DEF HeadInv, Allocated
    <3>2. head' = e
      BY <2>2 DEF add_element
    <3> QED
      BY <3>1, <3>2, <1>3, <1>5, <2>1
  <2>3. CASE head # NULL /\ GoesFirst(new)
    <3>1. head' = e /\ i[head] \geq new /\ head \in 1..Len(i)
      BY <2>3, <1>6 DEF add_element, GoesFirst
    <3>2. \A x \in 1..Len(i) : i[head] \leq i[x]
      BY <2>3, <1>4 DEF HeadInv, HeadIsSmallest, Allocated
    <3>3. \A x \in 1..Len(i) : new \leq i[x]
      BY <3>1, <3>2, <2>1
    <3> QED
      BY <3>1, <3>3, <1>3, <1>5, <2>1
  <2>4. CASE head # NULL /\ ~ GoesFirst(new)
    <3>1. head' = head /\ ~ (i[head] \geq new) /\ head \in 1..Len(i)
      BY <2>4, <1>6 DEF add_element, GoesFirst
    <3>2. \A x \in 1..Len(i) : i[head] \leq i[x]
      BY <2>4, <1>4 DEF HeadInv, HeadIsSmallest, Allocated
    <3>3. i[head] \leq new
      BY <3>1, <2>1
    <3> QED
      BY <3>1, <3>2, <3>3, <1>3, <1>5, <2>1
  <2> QED
    BY <2>2, <2>3, <2>4
<1>13. HeadIsSmallest'
  BY <1>4, <1>12 DEF HeadIsSmallest, Allocated
<1> QED
  BY <1>10, <1>11, <1>13 DEF HeadInv

LEMMA HeadInit == Init => HeadInv
<1> SUFFICES ASSUME Init PROVE HeadInv
  OBVIOUS
<1>1. i = << >> /\ next = << >> /\ head = NULL /\ elements = 0
  BY DEF Init, make_list
<1>2. Len(i) = 0 /\ DOMAIN i = {}
  BY <1>1
<1>3. TypeOK
  BY <1>1, <1>2 DEF TypeOK, Allocated
<1>4. HeadIsSmallest
  BY <1>1 DEF HeadIsSmallest
<1> QED
  BY <1>2, <1>3, <1>4 DEF HeadInv, Allocated

LEMMA HeadStep == HeadInv /\ [Next]_vars => HeadInv'
<1> SUFFICES ASSUME HeadInv, [Next]_vars PROVE HeadInv'
  OBVIOUS
<1>1. CASE \E new \in Numbers : add_element(new)
  BY <1>1, AddKeepsHeadInv
<1>2. CASE UNCHANGED vars
  BY <1>2 DEF vars, HeadInv, TypeOK, HeadIsSmallest, Allocated
<1> QED
  BY <1>1, <1>2 DEF Next, Full

(* The head holds the smallest number of all that were added, always.      *)
THEOREM SmallestFirst == AllSpec => []HeadIsSmallest
<1>1. AllInit => HeadInv
  BY HeadInit DEF AllInit
<1>2. HeadInv /\ [AllNext]_allVars => HeadInv'
  BY EachStep, HeadStep
<1>3. HeadInv => HeadIsSmallest
  BY DEF HeadInv
<1> QED
  BY <1>1, <1>2, <1>3, PTL DEF AllSpec

-----------------------------------------------------------------------------
(* A walk from the head: walk[k] is where k steps lead.  It meets every    *)
(* element and ends behind the last one.                                   *)
Walk(walk) ==
  /\ walk \in [0..Len(i) -> Allocated \cup {NULL}]
  /\ walk[0] = head
  /\ walk[Len(i)] = NULL
  /\ \A k \in 0..(Len(i) - 1) : walk[k] # NULL /\ walk[k + 1] = next[walk[k]]
  /\ \A e \in Allocated : \E k \in 0..(Len(i) - 1) : walk[k] = e

WalkInv ==
  /\ TypeOK
  /\ elements = Len(i)
  /\ \E walk : Walk(walk)

(* The chain is what the walk meets: the function that defines the chain   *)
(* exists, since the walk is one, and no number is the least where it and  *)
(* the walk differ.                                                        *)
LEMMA ChainIsWalk ==
  ASSUME TypeOK, NEW walk, Walk(walk)
  PROVE  Chain = Allocated
<1> DEFINE Nth(f) == [k \in 0..Len(i) |->
             IF k = 0 THEN head ELSE IF f[k - 1] = NULL THEN NULL ELSE next[f[k - 1]]]
           nth == CHOOSE f : f = Nth(f)
<1>1. PICK len \in Nat : len = Len(i) /\ Allocated = 1..len
  BY LenProperties DEF TypeOK, Allocated
<1>2. \A e \in Allocated : e # NULL
  BY <1>1 DEF NULL
<1>3. ASSUME NEW k \in 0..len
      PROVE  walk[k] = IF k = 0 THEN head ELSE IF walk[k - 1] = NULL THEN NULL ELSE next[walk[k - 1]]
  <2>1. CASE k = 0
    BY <2>1 DEF Walk
  <2>2. CASE k # 0
    <3>1. k - 1 \in 0..(len - 1) /\ (k - 1) + 1 = k
      BY <1>1, <2>2
    <3> QED BY <1>1, <2>2, <3>1 DEF Walk
  <2> QED BY <2>1, <2>2
<1>4. walk = Nth(walk)
  BY <1>1, <1>3 DEF Walk
<1>5. nth = Nth(nth)
  <2> HIDE DEF Nth
  <2> QED BY <1>4
<1>6. \A k \in 0..len : nth[k] = walk[k]
  <2> DEFINE Differ == {k \in 0..len : nth[k] # walk[k]}
  <2> SUFFICES ASSUME Differ # {} PROVE FALSE
    OBVIOUS
  <2>1. Differ \in SUBSET Nat
    BY <1>1
  <2>2. PICK k \in Differ : \A m \in Differ : k \leq m
    <3> HIDE DEF Differ
    <3> QED BY <2>1, LeastNatural
  <2>3. k \in 0..len /\ k \in Nat /\ nth[k] # walk[k]
    BY <1>1, <2>2
  <2>4. nth[k] = IF k = 0 THEN head ELSE IF nth[k - 1] = NULL THEN NULL ELSE next[nth[k - 1]]
    <3> HIDE DEF nth
    <3> QED BY <1>1, <1>5, <2>3
  <2> HIDE DEF nth
  <2>5. k # 0
    BY <1>3, <2>3, <2>4
  <2>6. k - 1 \in 0..len /\ ~ (k \leq k - 1)
    BY <1>1, <2>3, <2>5
  <2>7. k - 1 \notin Differ
    BY <2>2, <2>6
  <2>8. nth[k - 1] = walk[k - 1]
    BY <2>6, <2>7
  <2> QED BY <1>3, <2>3, <2>4, <2>8
<1>7. DOMAIN nth = 0..len
  <2> HIDE DEF nth
  <2> QED BY <1>1, <1>5
<1>8. Chain = {nth[k] : k \in DOMAIN nth} \ {NULL}
  BY DEF Chain
<1> HIDE DEF nth
<1>9. Chain = {walk[k] : k \in 0..len} \ {NULL}
  BY <1>6, <1>7, <1>8
<1>10. \A k \in 0..(len - 1) : k \in 0..len
  BY <1>1
<1>11. \A k \in 0..len : walk[k] \in Allocated \cup {NULL}
  BY <1>1 DEF Walk
<1>12. \A e \in Allocated : \E k \in 0..len : walk[k] = e
  BY <1>1, <1>10 DEF Walk
<1> QED BY <1>2, <1>9, <1>11, <1>12

(* One more element: the walk that meets the others meets it first, or     *)
(* last.                                                                   *)
LEMMA AddKeepsWalk ==
  ASSUME WalkInv, TypeOK', NEW new \in Numbers, add_element(new)
  PROVE  WalkInv'
<1>1. PICK walk : Walk(walk)
  BY DEF WalkInv
<1>2. PICK len \in Nat : len = Len(i) /\ Allocated = 1..len
  BY LenProperties DEF WalkInv, TypeOK, Allocated
<1>3. /\ i' = Append(i, new) /\ elements' = elements + 1
      /\ next \in Seq(1..len \cup {NULL}) /\ Len(next) = len /\ head \in 1..len \cup {NULL}
  BY <1>2 DEF WalkInv, TypeOK, add_element
<1>4. Len(i') = len + 1 /\ DOMAIN i' = 1..(len + 1)
  BY <1>2, <1>3 DEF WalkInv, TypeOK
<1>5. elements' = Len(i')
  BY <1>2, <1>3, <1>4 DEF WalkInv
<1>6. /\ walk \in [0..len -> 1..len \cup {NULL}] /\ walk[0] = head /\ walk[len] = NULL
      /\ \A k \in 0..(len - 1) : walk[k] # NULL /\ walk[k + 1] = next[walk[k]]
      /\ \A e \in 1..len : \E k \in 0..(len - 1) : walk[k] = e
  BY <1>1, <1>2 DEF Walk
<1>7. CASE head' = len + 1 /\ next' = Append(next, head)
  <2> DEFINE longer == [k \in 0..(len + 1) |-> IF k = 0 THEN len + 1 ELSE walk[k - 1]]
  <2>1. next'[len + 1] = head /\ \A e \in 1..len : next'[e] = next[e]
    BY <1>2, <1>3, <1>7
  <2>2. \A k \in 1..(len + 1) : k - 1 \in 0..len /\ longer[k] = walk[k - 1]
    BY <1>2
  <2>3. longer[0] = len + 1
    BY <1>2
  <2>4. longer \in [0..(len + 1) -> 1..(len + 1) \cup {NULL}]
    <3>1. \A k \in 0..(len + 1) : k = 0 \/ k - 1 \in 0..len
      BY <1>2
    <3>2. 1..len \subseteq 1..(len + 1) /\ len + 1 \in 1..(len + 1)
      BY <1>2
    <3> QED BY <1>6, <3>1, <3>2
  <2>5. longer[len + 1] = NULL
    BY <1>2, <1>6, <2>2
  <2> HIDE DEF longer
  <2>6. ASSUME NEW k \in 0..len
        PROVE  longer[k] # NULL /\ longer[k + 1] = next'[longer[k]]
    <3>1. longer[k + 1] = walk[k]
      <4>1. k + 1 \in 1..(len + 1) /\ (k + 1) - 1 = k
        BY <1>2
      <4> QED BY <2>2, <4>1
    <3>2. CASE k = 0
      BY <1>2, <1>6, <2>1, <2>3, <3>1, <3>2 DEF NULL
    <3>3. CASE k # 0
      <4>1. k - 1 \in 0..(len - 1) /\ (k - 1) + 1 = k /\ k \in 1..(len + 1) /\ k - 1 \in 0..len
        BY <1>2, <3>3
      <4>2. longer[k] = walk[k - 1] /\ walk[k - 1] # NULL /\ walk[k] = next[walk[k - 1]]
        BY <1>6, <2>2, <4>1
      <4>3. walk[k - 1] \in 1..len
        BY <1>6, <4>1, <4>2
      <4> QED BY <2>1, <3>1, <4>2, <4>3
    <3> QED BY <3>2, <3>3
  <2>7. ASSUME NEW e \in 1..(len + 1)
        PROVE  \E k \in 0..len : longer[k] = e
    <3>1. CASE e = len + 1
      BY <1>2, <2>3, <3>1
    <3>2. CASE e # len + 1
      <4>1. e \in 1..len
        BY <1>2, <3>2
      <4>2. PICK k \in 0..(len - 1) : walk[k] = e
        BY <1>6, <4>1
      <4>3. k + 1 \in 0..len /\ k + 1 \in 1..(len + 1) /\ (k + 1) - 1 = k
        BY <1>2
      <4> QED BY <2>2, <4>2, <4>3
    <3> QED BY <3>1, <3>2
  <2>8. (len + 1) - 1 = len
    BY <1>2
  <2>9. Walk(longer)'
    BY <1>4, <1>7, <2>3, <2>4, <2>5, <2>6, <2>7, <2>8 DEF Walk, Allocated
  <2> QED BY <1>5, <2>9 DEF WalkInv
<1>8. CASE head # NULL /\ head' = head /\ next' = LinkedEnd(LastElement, len + 1)
  <2>1. len > 0 /\ len - 1 \in 0..(len - 1) /\ (len - 1) + 1 = len
    BY <1>2, <1>6, <1>8
  <2>2. PICK last \in 1..len : last = walk[len - 1] /\ next[last] = NULL
    <3>1. walk[len - 1] # NULL /\ walk[(len - 1) + 1] = next[walk[len - 1]]
      BY <1>6, <2>1
    <3>2. walk[len - 1] \in 1..len
      <4>1. len - 1 \in 0..len
        BY <2>1
      <4>2. walk[len - 1] \in 1..len \cup {NULL}
        BY <1>6, <4>1
      <4> QED BY <3>1, <4>2
    <3> QED BY <1>6, <2>1, <3>1, <3>2
  <2>3. ASSUME NEW k \in 0..(len - 1), next[walk[k]] = NULL
        PROVE  k = len - 1
    <3>1. walk[k + 1] = NULL
      BY <1>6, <2>3
    <3>2. ~ (k + 1 \in 0..(len - 1))
      BY <1>6, <3>1
    <3> QED BY <1>2, <3>2
  <2>4. ASSUME NEW e \in 1..len, next[e] = NULL
        PROVE  e = last
    <3>1. PICK k \in 0..(len - 1) : walk[k] = e
      BY <1>6
    <3> QED BY <2>2, <2>3, <2>4, <3>1
  <2>5. Chain = 1..len
    BY <1>1, <1>2, ChainIsWalk DEF WalkInv
  <2>6. LastElement = last
    BY <2>2, <2>4, <2>5 DEF LastElement
  <2>7. next' = [x \in 1..(len + 1) |-> IF x = last THEN len + 1 ELSE IF x = len + 1 THEN NULL ELSE next[x]]
    BY <1>8, <2>6 DEF LinkedEnd
  <2> DEFINE longer == [k \in 0..(len + 1) |-> IF k < len THEN walk[k] ELSE IF k = len THEN len + 1 ELSE NULL]
  <2>8. /\ \A k \in 0..(len - 1) : longer[k] = walk[k]
        /\ longer[len] = len + 1 /\ longer[len + 1] = NULL
    BY <1>2
  <2>9. longer \in [0..(len + 1) -> 1..(len + 1) \cup {NULL}]
    <3>1. \A k \in 0..(len + 1) : k < len => k \in 0..len
      BY <1>2
    <3>2. 1..len \subseteq 1..(len + 1) /\ len + 1 \in 1..(len + 1)
      BY <1>2
    <3> QED BY <1>6, <3>1, <3>2
  <2> HIDE DEF longer
  <2>10. longer[0] = head
    <3>1. 0 \in 0..(len - 1)
      BY <2>1
    <3> QED BY <1>6, <2>8, <3>1
  <2>11. ASSUME NEW k \in 0..len
         PROVE  longer[k] # NULL /\ longer[k + 1] = next'[longer[k]]
    <3>1. CASE k = len
      <4>1. next'[len + 1] = NULL
        BY <1>2, <2>7
      <4> QED BY <1>2, <2>8, <3>1, <4>1 DEF NULL
    <3>2. CASE k = len - 1
      <4>1. next'[last] = len + 1
        BY <1>2, <2>7
      <4> QED BY <1>2, <1>6, <2>1, <2>2, <2>8, <3>2, <4>1
    <3>3. CASE k # len /\ k # len - 1
      <4>1. k \in 0..(len - 1) /\ k + 1 \in 0..(len - 1)
        BY <1>2, <3>3
      <4>2. longer[k] = walk[k] /\ longer[k + 1] = walk[k + 1]
        BY <2>8, <4>1
      <4>3. walk[k] # NULL /\ walk[k + 1] = next[walk[k]] /\ walk[k + 1] # NULL
        BY <1>6, <4>1
      <4>4. walk[k] \in 1..len /\ walk[k] # last
        BY <1>2, <1>6, <2>2, <4>1, <4>3
      <4>5. next'[walk[k]] = next[walk[k]]
        BY <1>2, <2>7, <4>4
      <4> QED BY <4>2, <4>3, <4>5
    <3> QED BY <3>1, <3>2, <3>3
  <2>12. ASSUME NEW e \in 1..(len + 1)
         PROVE  \E k \in 0..len : longer[k] = e
    <3>1. CASE e = len + 1
      BY <1>2, <2>8, <3>1
    <3>2. CASE e # len + 1
      <4>1. e \in 1..len
        BY <1>2, <3>2
      <4>2. PICK k \in 0..(len - 1) : walk[k] = e
        BY <1>6, <4>1
      <4> QED BY <1>2, <2>8, <4>2
    <3> QED BY <3>1, <3>2
  <2>13. (len + 1) - 1 = len
    BY <1>2
  <2>14. Walk(longer)'
    BY <1>4, <1>8, <2>8, <2>9, <2>10, <2>11, <2>12, <2>13 DEF Walk, Allocated
  <2> QED BY <1>5, <2>14 DEF WalkInv
<1> QED BY <1>2, <1>7, <1>8 DEF add_element

(* Every element that was allocated can be reached from the head, and the  *)
(* count the list keeps is their number.                                   *)
THEOREM NothingIsLost == AllSpec => []NothingLost
<1>1. AllInit => HeadInv /\ WalkInv
  <2> SUFFICES ASSUME Init PROVE HeadInv /\ WalkInv
    BY DEF AllInit
  <2>1. HeadInv
    BY HeadInit
  <2>2. i = << >> /\ head = NULL /\ elements = 0 /\ Len(i) = 0 /\ DOMAIN i = {}
    BY DEF Init, make_list
  <2> DEFINE walk == [k \in 0..0 |-> NULL]
  <2>3. Walk(walk)
    BY <2>2 DEF Walk, Allocated
  <2> QED BY <2>1, <2>2, <2>3 DEF WalkInv, HeadInv
<1>2. HeadInv /\ WalkInv /\ [AllNext]_allVars => (HeadInv /\ WalkInv)'
  <2> SUFFICES ASSUME HeadInv, WalkInv, [Next]_vars PROVE (HeadInv /\ WalkInv)'
    BY EachStep
  <2>1. HeadInv'
    BY HeadStep
  <2>2. CASE \E new \in Numbers : add_element(new)
    BY <2>1, <2>2, AddKeepsWalk DEF HeadInv
  <2>3. CASE UNCHANGED vars
    <3>1. UNCHANGED <<i, next, head, elements>>
      BY <2>3 DEF vars
    <3>2. PICK walk : Walk(walk)
      BY DEF WalkInv
    <3>3. Walk(walk)'
      BY <3>1, <3>2 DEF Walk, Allocated
    <3>4. TypeOK' /\ elements' = Len(i')
      BY <2>1, <3>1 DEF HeadInv, WalkInv
    <3> QED BY <2>1, <3>3, <3>4 DEF WalkInv
  <2> QED BY <2>1, <2>2, <2>3 DEF Next, Full
<1>3. WalkInv => NothingLost
  <2> SUFFICES ASSUME WalkInv PROVE NothingLost
    OBVIOUS
  <2>1. Chain = Allocated
    BY ChainIsWalk DEF WalkInv
  <2>2. Len(i) \in Nat /\ Allocated = 1..Len(i)
    BY LenProperties DEF WalkInv, TypeOK, Allocated
  <2>3. Cardinality(1..Len(i)) = Len(i)
    <3>1. PICK len \in Nat : len = Len(i)
      BY <2>2
    <3>2. Cardinality(1..len) = len
      <4>1. 1 \in Int /\ len \in Int
        OBVIOUS
      <4>2. Cardinality(1..len) = IF 1 > len THEN 0 ELSE len - 1 + 1
        BY <4>1, FS_Interval
      <4> QED BY <4>2
    <3> QED BY <3>1, <3>2
  <2> QED BY <2>1, <2>2, <2>3 DEF WalkInv, NothingLost, size
<1> QED BY <1>1, <1>2, <1>3, PTL DEF AllSpec

-----------------------------------------------------------------------------
(* The doubly linked list: nothing but the first element and one behind it *)
(* is ever linked.                                                         *)
DoubleInv ==
  /\ element \in Seq([i : Numbers, v : Strings])
  /\ doubleNext \in Seq(Nat) /\ Len(doubleNext) = Len(element)
  /\ prev \in Seq(Nat) /\ Len(prev) = Len(element)
  /\ doubleHead = IF Len(element) = 0 THEN 0 ELSE 1
  /\ Len(element) > 0 =>
       /\ prev[1] = 0
       /\ doubleNext[1] = 0
            \/ /\ doubleNext[1] \in 2..Len(element)
               /\ doubleNext[doubleNext[1]] = 0
               /\ prev[doubleNext[1]] = 1
               /\ element[doubleNext[1]].i # element[1].i

(* size() is 0 for the empty list only: the walk that size() counts        *)
(* begins with the head.                                                   *)
LEMMA SizeOfEmpty ==
  ASSUME DoubleInv
  PROVE  Double!size > 0 <=> Len(element) > 0
<1> DEFINE Nth(f) == [k \in 1..Len(element) |->
             IF k = 1 THEN doubleHead ELSE IF f[k - 1] = Double!NULL THEN Double!NULL ELSE doubleNext[f[k - 1]]]
           nth == CHOOSE f : f = Nth(f)
           OnWalk == {k \in DOMAIN nth : nth[k] # Double!NULL}
<1>1. PICK len \in Nat : len = Len(element)
  BY LenProperties DEF DoubleInv
<1>2. \E f : f = Nth(f)
  <2> DEFINE walk == [k \in 1..len |-> IF k = 1 THEN doubleHead ELSE IF k = 2 THEN doubleNext[1] ELSE 0]
  <2>1. ASSUME NEW k \in 1..len
        PROVE  walk[k] = IF k = 1 THEN doubleHead ELSE IF walk[k - 1] = 0 THEN 0 ELSE doubleNext[walk[k - 1]]
    <3>1. CASE k = 1
      BY <3>1
    <3>2. CASE k = 2
      <4>1. k - 1 = 1 /\ 1 \in 1..len /\ len > 0
        BY <1>1, <3>2
      <4>2. walk[k - 1] = 1
        BY <1>1, <4>1 DEF DoubleInv
      <4> QED BY <3>2, <4>2
    <3>3. CASE k = 3
      <4>1. k - 1 = 2 /\ 2 \in 1..len /\ len > 0
        BY <1>1, <3>3
      <4>2. walk[k - 1] = doubleNext[1]
        BY <4>1
      <4> QED BY <1>1, <3>3, <4>1, <4>2 DEF DoubleInv
    <3>4. CASE k > 3
      <4>1. k - 1 \in 1..len /\ k - 1 # 1 /\ k - 1 # 2 /\ k # 1 /\ k # 2
        BY <1>1, <3>4
      <4> QED BY <4>1
    <3> QED BY <1>1, <3>1, <3>2, <3>3, <3>4
  <2> HIDE DEF walk
  <2>2. walk = [k \in 1..len |-> walk[k]]
    BY DEF walk
  <2>3. walk = Nth(walk)
    BY <1>1, <2>1, <2>2 DEF Double!NULL
  <2> QED BY <2>3
<1>3. nth = Nth(nth)
  <2> HIDE DEF Nth
  <2> QED BY <1>2
<1>4. Double!size = Cardinality({k \in DOMAIN nth : nth[k] # Double!NULL})
  BY DEF Double!size, Double!Cardinality, Cardinality
<1> HIDE DEF nth
<1>5. Double!size = Cardinality(OnWalk)
  BY <1>4
<1>6. DOMAIN nth = 1..len /\ (len > 0 => nth[1] = doubleHead)
  BY <1>1, <1>3
<1>7. IsFiniteSet(OnWalk) /\ Cardinality(OnWalk) \in Nat
  <2>1. IsFiniteSet(1..len)
    BY <1>1, FS_Interval
  <2>2. OnWalk \subseteq 1..len
    BY <1>6
  <2> HIDE DEF OnWalk
  <2> QED BY <2>1, <2>2, FS_Subset, FS_CardinalityType
<1>8. CASE len = 0
  <2>1. OnWalk = {}
    BY <1>6, <1>8
  <2> HIDE DEF OnWalk
  <2> QED BY <1>1, <1>8, <1>5, <2>1, FS_EmptySet
<1>9. CASE len > 0
  <2>1. 1 \in OnWalk
    BY <1>1, <1>6, <1>9 DEF DoubleInv, Double!NULL
  <2> HIDE DEF OnWalk
  <2>2. Cardinality(OnWalk) # 0
    BY <1>7, <2>1, FS_EmptySet
  <2> QED BY <1>1, <1>7, <1>9, <1>5, <2>2
<1> QED BY <1>1, <1>8, <1>9

(* add_element() puts an element behind the head, or nowhere.              *)
LEMMA AddKeepsDoubleInv ==
  ASSUME DoubleInv, NEW new \in Numbers, NEW string \in Strings, Double!add_element(new, string)
  PROVE  DoubleInv'
<1> DEFINE new_element == [i |-> new, v |-> string]
<1>1. PICK len \in Nat : len = Len(element)
  BY LenProperties DEF DoubleInv
<1>2. element' = Append(element, new_element)
  BY DEF Double!add_element
<1>3. /\ element' \in Seq([i : Numbers, v : Strings]) /\ Len(element') = len + 1
      /\ \A e \in 1..len : element'[e] = element[e]
      /\ element'[len + 1].i = new
  BY <1>1, <1>2, AppendProperties DEF DoubleInv
<1>4. CASE len = 0
  <2>1. ~ (Double!size > 0) /\ doubleHead = 0
    BY <1>1, <1>4, SizeOfEmpty DEF DoubleInv
  <2>2. doubleHead' = 1 /\ doubleNext' = Append(doubleNext, 0) /\ prev' = Append(prev, 0)
    BY <1>1, <1>4, <2>1 DEF Double!add_element, Double!NULL
  <2>3. /\ doubleNext' \in Seq(Nat) /\ Len(doubleNext') = 1 /\ doubleNext'[1] = 0
        /\ prev' \in Seq(Nat) /\ Len(prev') = 1 /\ prev'[1] = 0
    BY <1>1, <1>4, <2>2, AppendProperties DEF DoubleInv
  <2> QED BY <1>3, <1>4, <2>2, <2>3 DEF DoubleInv
<1>5. CASE len > 0
  <2>1. /\ Double!size > 0 /\ doubleHead = 1 /\ 1 \in 1..len
        /\ doubleNext \in Seq(Nat) /\ Len(doubleNext) = len /\ prev \in Seq(Nat) /\ Len(prev) = len
    BY <1>1, <1>5, SizeOfEmpty DEF DoubleInv
  <2>2. doubleHead' = 1
    BY <2>1 DEF Double!add_element, Double!NULL
  <2>3. CASE element[1].i # new
    <3>1. /\ doubleNext' = Append([doubleNext EXCEPT ![1] = len + 1], 0)
          /\ prev' = Append(prev, 1)
      <4>1. Double!size # 0 /\ ~ Double!int_search(new)
        BY <2>1, <2>3 DEF Double!int_search
      <4> QED BY <1>1, <2>1, <4>1 DEF Double!add_element, Double!BackPointer, Double!NULL
    <3>2. [doubleNext EXCEPT ![1] = len + 1] \in Seq(Nat) /\ Len([doubleNext EXCEPT ![1] = len + 1]) = len
      BY <1>1, <2>1, ExceptSeq
    <3>3. /\ doubleNext' \in Seq(Nat) /\ Len(doubleNext') = len + 1
          /\ doubleNext'[1] = len + 1 /\ doubleNext'[len + 1] = 0
      BY <2>1, <3>1, <3>2, AppendProperties
    <3>4. /\ prev' \in Seq(Nat) /\ Len(prev') = len + 1
          /\ prev'[1] = 0 /\ prev'[len + 1] = 1
      BY <1>1, <1>5, <2>1, <3>1, AppendProperties DEF DoubleInv
    <3>5. element'[len + 1].i # element'[1].i /\ len + 1 \in 2..(len + 1)
      BY <1>1, <1>3, <1>5, <2>1, <2>3
    <3> QED BY SMTT(30), <1>1, <1>3, <2>2, <3>3, <3>4, <3>5 DEF DoubleInv
  <2>4. CASE element[1].i = new
    <3>1. doubleNext' = Append(doubleNext, 0) /\ prev' = Append(prev, 0)
      <4>1. Double!size # 0 /\ Double!int_search(new)
        BY <2>1, <2>4 DEF Double!int_search
      <4> QED BY <4>1 DEF Double!add_element, Double!NULL
    <3>2. /\ doubleNext' \in Seq(Nat) /\ Len(doubleNext') = len + 1
          /\ prev' \in Seq(Nat) /\ Len(prev') = len + 1
          /\ \A e \in 1..len : doubleNext'[e] = doubleNext[e] /\ prev'[e] = prev[e]
      BY <2>1, <3>1, AppendProperties
    <3>3. \A e \in 2..len : e \in 1..len /\ e \in 2..(len + 1)
      BY <1>1
    <3>4. prev[1] = 0 /\ (doubleNext[1] = 0
            \/ /\ doubleNext[1] \in 2..len
               /\ doubleNext[doubleNext[1]] = 0
               /\ prev[doubleNext[1]] = 1
               /\ element[doubleNext[1]].i # element[1].i)
      BY <1>1, <1>5 DEF DoubleInv
    <3>5. /\ doubleNext'[1] = doubleNext[1] /\ prev'[1] = 0 /\ element'[1] = element[1]
      BY <1>3, <2>1, <3>2, <3>4
    <3>6. CASE doubleNext[1] = 0
      BY <1>3, <2>2, <3>2, <3>5, <3>6 DEF DoubleInv
    <3>7. CASE doubleNext[1] # 0
      <4>1. PICK e \in 2..len : e = doubleNext[1]
        BY <3>4, <3>7
      <4>2. e \in 1..len /\ e \in 2..(len + 1)
        BY <3>3
      <4>3. doubleNext'[e] = 0 /\ prev'[e] = 1 /\ element'[e].i # element'[1].i
        BY <1>3, <3>2, <3>4, <3>5, <3>7, <4>1, <4>2
      <4> QED BY <1>3, <2>2, <3>2, <3>5, <4>1, <4>2, <4>3 DEF DoubleInv
    <3> QED BY <3>6, <3>7
  <2> QED BY <2>3, <2>4
<1> QED BY <1>1, <1>4, <1>5

LEMMA DoubleStart == Double!Init => DoubleInv
<1> SUFFICES ASSUME Double!Init PROVE DoubleInv
  OBVIOUS
<1>1. element = << >> /\ doubleNext = << >> /\ prev = << >> /\ doubleHead = 0
  BY DEF Double!Init, Double!make_list, Double!NULL
<1> QED BY <1>1 DEF DoubleInv

LEMMA DoubleAlways == DoubleInv /\ [Double!Next]_doubleVars => DoubleInv'
<1> SUFFICES ASSUME DoubleInv, [Double!Next]_doubleVars PROVE DoubleInv'
  OBVIOUS
<1>1. ASSUME NEW new \in Numbers, NEW string \in Strings, Double!add_element(new, string)
      PROVE  DoubleInv'
  BY <1>1, AddKeepsDoubleInv
<1>2. CASE UNCHANGED <<element, doubleNext, prev, doubleHead>>
  BY <1>2 DEF DoubleInv
<1> QED
  BY <1>1, <1>2 DEF Double!Next, Double!Command, Double!delete_element, Double!lookup_element,
                    Double!delete_list, Double!vars, doubleVars

(* What is on the list: the head and the one behind it.                    *)
LEMMA OnTheList ==
  ASSUME DoubleInv
  PROVE  LinksAgree /\ NumbersDiffer
<1>1. PICK len \in Nat : len = Len(element)
  BY LenProperties DEF DoubleInv
<1>2. CASE len = 0
  <2>1. Double!OnList = {}
    BY <1>1, <1>2 DEF DoubleInv, Double!OnList, Double!NULL
  <2> QED BY <2>1 DEF LinksAgree, NumbersDiffer, Double!LinksAgree, Double!NumbersDiffer
<1>3. CASE len > 0
  <2>1. /\ doubleHead = 1 /\ Double!OnList = {1, doubleNext[1]} \ {0}
        /\ prev[1] = 0
        /\ doubleNext[1] = 0
             \/ /\ doubleNext[1] \in 2..len
                /\ doubleNext[doubleNext[1]] = 0
                /\ prev[doubleNext[1]] = 1
                /\ element[doubleNext[1]].i # element[1].i
    BY <1>1, <1>3 DEF DoubleInv, Double!OnList, Double!NULL
  <2>2. \A e \in Double!OnList : e = 1 \/ e = doubleNext[1]
    BY <2>1
  <2>3. Double!LinksAgree
    BY <1>1, <2>1, <2>2 DEF Double!LinksAgree, Double!NULL
  <2>4. Double!NumbersDiffer
    BY <2>1, <2>2 DEF Double!NumbersDiffer
  <2> QED BY <2>3, <2>4 DEF LinksAgree, NumbersDiffer
<1> QED BY <1>1, <1>2, <1>3

(* The pointers of the doubly linked list agree in both directions, and    *)
(* the list ends, after any additions.                                     *)
THEOREM PointersAgree == AllSpec => []LinksAgree
<1>1. AllInit => DoubleInv
  BY DoubleStart DEF AllInit
<1>2. DoubleInv /\ [AllNext]_allVars => DoubleInv'
  BY EachStep, DoubleAlways
<1>3. DoubleInv => LinksAgree
  BY OnTheList
<1> QED BY <1>1, <1>2, <1>3, PTL DEF AllSpec

(* No number is on the doubly linked list twice, although the search sees  *)
(* only the head.                                                          *)
THEOREM EachNumberOnce == AllSpec => []NumbersDiffer
<1>1. AllInit => DoubleInv
  BY DoubleStart DEF AllInit
<1>2. DoubleInv /\ [AllNext]_allVars => DoubleInv'
  BY EachStep, DoubleAlways
<1>3. DoubleInv => NumbersDiffer
  BY OnTheList
<1> QED BY <1>1, <1>2, <1>3, PTL DEF AllSpec

-----------------------------------------------------------------------------
(* The table.  What AllBut keeps is any sequence whose elements stand in   *)
(* this order in the given one, at the places where another id is found.   *)
Places(id, from, to, at) ==
  /\ at \in [1..Len(to) -> 1..Len(from)]
  /\ \A x, y \in 1..Len(to) : x < y => at[x] < at[y]
  /\ \A x \in 1..Len(to) : from[at[x]] = to[x] /\ to[x].id # id
  /\ \A k \in 1..Len(from) : from[k].id # id => \E x \in 1..Len(to) : at[x] = k

(* How many of the kept ones stand among the first k.                      *)
LEMMA PlacesBefore ==
  ASSUME NEW len \in Nat, NEW kept \in Nat,
         NEW at \in [1..kept -> 1..len],
         \A x, y \in 1..kept : x < y => at[x] < at[y],
         NEW k \in 0..len
  PROVE  \E j \in 0..kept : \A x \in 1..kept : x \leq j <=> at[x] \leq k
<1> DEFINE T == {x \in 1..kept : at[x] \leq k}
<1>1. CASE T = {}
  <2>1. \A x \in 1..kept : ~ (x \leq 0) /\ ~ (at[x] \leq k)
    BY <1>1
  <2>2. 0 \in 0..kept /\ \A x \in 1..kept : x \leq 0 <=> at[x] \leq k
    BY <2>1
  <2> QED BY <2>2
<1>2. CASE T # {}
  <2>1. IsFiniteSet(T) /\ T \in SUBSET Nat
    <3>1. IsFiniteSet(1..kept)
      BY FS_Interval
    <3> QED BY <3>1, FS_Subset
  <2>2. PICK j \in T : \A x \in T : x \leq j
    <3> HIDE DEF T
    <3> QED BY <1>2, <2>1, LargestNatural
  <2>3. ASSUME NEW x \in 1..kept, x \leq j
        PROVE  at[x] \leq k
    <3>1. at[j] \leq k /\ j \in 1..kept /\ at[x] \in Nat /\ at[j] \in Nat
      BY <2>2
    <3>2. CASE x = j
      BY <3>1, <3>2
    <3>3. CASE x < j
      BY <3>1, <3>3
    <3> QED BY <2>3, <3>1, <3>2, <3>3
  <2>4. ASSUME NEW x \in 1..kept, at[x] \leq k
        PROVE  x \leq j
    BY <2>2, <2>4
  <2>5. j \in 0..kept
    BY <2>2
  <2> QED BY <2>3, <2>4, <2>5
<1> QED BY <1>1, <1>2

LEMMA AllButKeeps ==
  ASSUME NEW id, NEW S, NEW from \in Seq(S), NEW to \in Seq(S), NEW at, Places(id, from, to, at)
  PROVE  Table!AllBut(id, from) = to
<1>1. PICK len \in Nat : len = Len(from)
  BY LenProperties
<1>2. PICK total \in Nat : total = Len(to)
  BY LenProperties
<1>3. /\ at \in [1..total -> 1..len]
      /\ \A x, y \in 1..total : x < y => at[x] < at[y]
      /\ \A x \in 1..total : from[at[x]] = to[x] /\ to[x].id # id
      /\ \A k \in 1..len : from[k].id # id => \E x \in 1..total : at[x] = k
  BY <1>1, <1>2 DEF Places
<1> DEFINE Cut(k, j) == \A x \in 1..total : x \leq j <=> at[x] \leq k
           count == [k \in 0..len |-> CHOOSE j \in 0..total : Cut(k, j)]
           kept == [k \in 0..len |-> [x \in 1..count[k] |-> to[x]]]
           Keep(f) == [k \in 0..len |->
             IF k = 0 THEN << >>
             ELSE IF from[k].id = id THEN f[k - 1] ELSE Append(f[k - 1], from[k])]
<1>4. \A k \in 0..len : count[k] \in 0..total /\ Cut(k, count[k])
  BY <1>3, PlacesBefore
<1>5. ASSUME NEW k \in 0..len, NEW j \in 0..total, Cut(k, j)
      PROVE  count[k] = j
  <2>1. PICK c \in 0..total : c = count[k]
    BY <1>4
  <2>2. \A x \in 1..total : x \leq c <=> x \leq j
    BY <1>4, <1>5, <2>1
  <2>3. CASE c < j
    <3>1. j \in 1..total /\ ~ (j \leq c)
      BY <2>3
    <3> QED BY <2>2, <3>1
  <2>4. CASE j < c
    <3>1. c \in 1..total /\ ~ (c \leq j) /\ c \leq c
      BY <2>4
    <3> QED BY <2>2, <3>1
  <2> QED BY <2>1, <2>3, <2>4
<1>6. count[0] = 0 /\ count[len] = total
  <2>1. Cut(0, 0) /\ Cut(len, total)
    BY <1>3
  <2>2. 0 \in 0..len /\ len \in 0..len /\ 0 \in 0..total /\ total \in 0..total
    OBVIOUS
  <2> HIDE DEF Cut, count
  <2> QED BY <1>5, <2>1, <2>2
<1> HIDE DEF count
<1>7. ASSUME NEW k \in 1..len, from[k].id = id
      PROVE  count[k] = count[k - 1]
  <2>1. \A x \in 1..total : at[x] # k /\ at[x] \in 1..len
    BY <1>3, <1>7
  <2>2. k - 1 \in 0..len /\ k \in 0..len
    OBVIOUS
  <2>3. \A x \in 1..total : at[x] \leq k <=> at[x] \leq k - 1
    BY <2>1
  <2>4. Cut(k, count[k - 1])
    BY <1>4, <2>2, <2>3
  <2>5. count[k - 1] \in 0..total
    BY <1>4, <2>2
  <2> HIDE DEF Cut
  <2> QED BY <1>5, <2>2, <2>4, <2>5
<1>8. ASSUME NEW k \in 1..len, from[k].id # id
      PROVE  count[k - 1] \in Nat /\ count[k] = count[k - 1] + 1 /\ to[count[k]] = from[k] /\ count[k] \in 1..total
  <2>1. PICK x \in 1..total : at[x] = k
    BY <1>3, <1>8
  <2>2. k - 1 \in 0..len /\ k \in 0..len /\ x \in 0..total /\ x - 1 \in 0..total
    OBVIOUS
  <2>3. ASSUME NEW y \in 1..total
        PROVE  (y \leq x <=> at[y] \leq k) /\ (y \leq x - 1 <=> at[y] \leq k - 1)
    <3>1. at[y] \in 1..len /\ (y < x => at[y] < at[x]) /\ (x < y => at[x] < at[y])
      BY <1>3
    <3>2. y < x \/ y = x \/ x < y
      OBVIOUS
    <3> QED BY <2>1, <3>1, <3>2
  <2>4. Cut(k, x) /\ Cut(k - 1, x - 1)
    BY <2>3
  <2>5. count[k] = x /\ count[k - 1] = x - 1
    <3> HIDE DEF Cut
    <3> QED BY <1>5, <2>2, <2>4
  <2>6. to[x] = from[k]
    BY <1>3, <2>1
  <2> QED BY <2>2, <2>5, <2>6
<1>9. \A k \in 0..len : kept[k] \in Seq(S) /\ Len(kept[k]) = count[k]
  <2>1. \A x \in 1..total : to[x] \in S
    BY <1>2, ElementOfSeq
  <2>2. \A k \in 0..len : count[k] \in Nat /\ \A x \in 1..count[k] : x \in 1..total
    BY <1>4
  <2> QED BY <2>1, <2>2
<1>10. ASSUME NEW k \in 0..len
       PROVE  kept[k] = IF k = 0 THEN << >> ELSE IF from[k].id = id THEN kept[k - 1] ELSE Append(kept[k - 1], from[k])
  <2>1. CASE k = 0
    <3>1. kept[0] \in Seq(S) /\ Len(kept[0]) = 0
      BY <1>6, <1>9, <2>1
    <3> HIDE DEF kept
    <3> QED BY <2>1, <3>1, EmptySeq
  <2>2. CASE k # 0 /\ from[k].id = id
    <3>1. k \in 1..len /\ k - 1 \in 0..len
      BY <1>1, <2>2
    <3> QED BY <1>7, <2>2, <3>1
  <2>3. CASE k # 0 /\ from[k].id # id
    <3>1. k \in 1..len /\ k - 1 \in 0..len
      BY <1>1, <2>3
    <3>2. PICK c \in Nat : c = count[k - 1] /\ count[k] = c + 1 /\ to[c + 1] = from[k]
      BY <1>8, <2>3, <3>1
    <3>3. from[k] \in S
      BY <1>1, <3>1, ElementOfSeq
    <3>4. kept[k - 1] = [x \in 1..c |-> to[x]] /\ kept[k] = [x \in 1..(c + 1) |-> to[x]]
      BY <3>1, <3>2
    <3>5. /\ kept[k - 1] \in Seq(S) /\ Len(kept[k - 1]) = c
          /\ kept[k] \in Seq(S) /\ Len(kept[k]) = c + 1
      BY <1>9, <3>1, <3>2
    <3> HIDE DEF kept
    <3>6. /\ Append(kept[k - 1], from[k]) \in Seq(S)
          /\ Len(Append(kept[k - 1], from[k])) = c + 1
          /\ \A x \in 1..c : Append(kept[k - 1], from[k])[x] = kept[k - 1][x]
          /\ Append(kept[k - 1], from[k])[c + 1] = from[k]
      BY <3>3, <3>5, AppendProperties
    <3>7. \A x \in 1..(c + 1) : kept[k][x] = Append(kept[k - 1], from[k])[x]
      <4>1. \A x \in 1..(c + 1) : x \in 1..c \/ x = c + 1
        OBVIOUS
      <4> QED BY <3>2, <3>4, <3>6, <4>1
    <3>8. kept[k] = Append(kept[k - 1], from[k])
      BY <3>5, <3>6, <3>7, SeqEqual
    <3> QED BY <2>3, <3>8
  <2> QED BY <2>1, <2>2, <2>3
<1>11. kept = Keep(kept)
  <2>1. kept = [k \in 0..len |-> kept[k]]
    OBVIOUS
  <2> HIDE DEF kept
  <2> QED BY <1>10, <2>1
<1>12. kept[len] = to
  <2>1. kept[len] \in Seq(S) /\ Len(kept[len]) = total /\ \A x \in 1..total : kept[len][x] = to[x]
    BY <1>6, <1>9
  <2> HIDE DEF kept
  <2> QED BY <1>2, <2>1, SeqEqual
<1> HIDE DEF kept
<1> DEFINE found == CHOOSE f : f = Keep(f)
<1>13. found = Keep(found)
  <2> HIDE DEF Keep
  <2> QED BY <1>11
<1>14. Table!AllBut(id, from) = found[len]
  BY <1>1 DEF Table!AllBut
<1> HIDE DEF found
<1>15. \A k \in 0..len : found[k] = kept[k]
  <2> DEFINE Differ == {k \in 0..len : found[k] # kept[k]}
  <2> SUFFICES ASSUME Differ # {} PROVE FALSE
    OBVIOUS
  <2>1. Differ \in SUBSET Nat
    OBVIOUS
  <2>2. PICK k \in Differ : \A m \in Differ : k \leq m
    <3> HIDE DEF Differ
    <3> QED BY <2>1, LeastNatural
  <2>3. k \in 0..len /\ k \in Nat /\ found[k] # kept[k]
    BY <2>2
  <2>4. found[k] = IF k = 0 THEN << >> ELSE IF from[k].id = id THEN found[k - 1] ELSE Append(found[k - 1], from[k])
    BY <1>13, <2>3
  <2>5. k # 0
    BY <1>10, <2>3, <2>4
  <2>6. k - 1 \in 0..len /\ ~ (k \leq k - 1)
    BY <2>3, <2>5
  <2>7. found[k - 1] = kept[k - 1]
    BY <2>2, <2>6
  <2> QED BY <1>10, <2>3, <2>4, <2>7
<1> QED BY <1>12, <1>14, <1>15

(* The employees stand in the table in the order of the staff, in front of *)
(* the next free slot; what employeesTemp holds in the last slot, the one  *)
(* that a removal copies back, is empty.                                   *)
Employee == [name : Names \cup {""}, id : Ids \cup {0}, salary : Salaries \cup {0}]

Stand(at) ==
  /\ at \in [1..Len(staff) -> Table!Slots]
  /\ \A x, y \in 1..Len(staff) : x < y => at[x] < at[y]
  /\ \A x \in 1..Len(staff) : employees[at[x]] = staff[x] /\ staff[x].id # 0
  /\ \A slot \in Table!Slots : employees[slot].id # 0 => \E x \in 1..Len(staff) : at[x] = slot

(* Behind the table there is room for one.                                 *)
Seated ==
  /\ beyond \in Seq(Employee)
  /\ index \leq MaxEmployees => beyond = << >>
  /\ Len(beyond) \leq 1

StaffInv ==
  ~ zeroRemoved =>
    /\ staff \in Seq(Employee)
    /\ employees \in [Table!Slots -> Employee]
    /\ employeesTemp \in [Table!Slots -> Employee]
    /\ index \in Nat
    /\ \E at : Stand(at)
    /\ \A x, y \in 1..Len(staff) : staff[x].id = staff[y].id => x = y
    /\ \A slot \in Table!Slots : slot \geq index => employees[slot].id = 0
    /\ employeesTemp[MaxEmployees - 1].id = 0
    /\ Seated

LEMMA StaffStart == Table!Init => StaffInv
<1> SUFFICES ASSUME Table!Init PROVE StaffInv
  OBVIOUS
<1>1. MaxEmployees \in Nat \ {0, 1}
  BY ExercisesAssumption DEF ExercisesAssumption
<1>2. staff = << >> /\ index = 0 /\ Len(staff) = 0
  BY DEF Table!Init
<1>3. Table!Empty \in Employee /\ Table!Empty.id = 0
  BY DEF Table!Empty, Employee
<1>4. /\ employees \in [Table!Slots -> Employee] /\ employeesTemp \in [Table!Slots -> Employee]
      /\ \A slot \in Table!Slots : employees[slot].id = 0 /\ employeesTemp[slot].id = 0
  BY <1>3 DEF Table!Init, Table!init_records
<1>5. MaxEmployees - 1 \in Table!Slots
  BY <1>1 DEF Table!Slots
<1> DEFINE at == [x \in 1..0 |-> 0]
<1>6. Stand(at)
  BY <1>2, <1>4 DEF Stand
<1>7. \E places : Stand(places)
  BY <1>6
<1>8. staff \in Seq(Employee)
  BY <1>2
<1>9. Seated
  <2>1. beyond = << >>
    BY DEF Table!Init
  <2>2. << >> \in Seq(Employee) /\ Len(<< >>) = 0
    OBVIOUS
  <2> QED BY <2>1, <2>2 DEF Seated
<1> QED BY <1>2, <1>4, <1>5, <1>7, <1>8, <1>9 DEF StaffInv

(* An employee is added behind all the others.                             *)
LEMMA AddKeepsStaffInv ==
  ASSUME StaffInv,
         NEW name \in Names, NEW id \in Ids, NEW salary \in Salaries,
         Table!add_employee(name, id, salary)
  PROVE  StaffInv'
<1> SUFFICES ASSUME ~ zeroRemoved' PROVE StaffInv'
  BY DEF StaffInv
<1> DEFINE newcomer == [name |-> name, id |-> id, salary |-> salary]
<1>1. PICK max \in Nat : max = MaxEmployees /\ max > 1 /\ Table!Slots = 0..(max - 1) /\ max - 1 \in Table!Slots
  BY ExercisesAssumption DEF ExercisesAssumption, Table!Slots
<1>2. zeroRemoved' = zeroRemoved /\ employeesTemp' = employeesTemp /\ ~ zeroRemoved
  BY DEF Table!add_employee
<1>3. /\ staff \in Seq(Employee)
      /\ employees \in [Table!Slots -> Employee]
      /\ employeesTemp \in [Table!Slots -> Employee]
      /\ index \in Nat
      /\ \A x, y \in 1..Len(staff) : staff[x].id = staff[y].id => x = y
      /\ \A slot \in Table!Slots : slot \geq index => employees[slot].id = 0
      /\ employeesTemp[MaxEmployees - 1].id = 0
      /\ Seated
  BY <1>2 DEF StaffInv
<1>4. PICK at : Stand(at)
  BY <1>2 DEF StaffInv
<1>5. CASE Table!AddResult(id) # 0
  <2>1. UNCHANGED <<employees, index, staff, beyond>>
    BY <1>5 DEF Table!add_employee
  <2>2. Stand(at)'
    BY <1>4, <2>1 DEF Stand, Table!Slots
  <2>3. Seated'
    BY <1>3, <2>1 DEF Seated
  <2> QED BY <1>2, <1>3, <2>1, <2>2, <2>3 DEF StaffInv, Table!Slots
<1>7. newcomer \in Employee
  BY DEF Employee
<1>8. CASE Table!AddResult(id) = 0 /\ index \geq max
  <2>1. index = max
    BY <1>1, <1>3, <1>8 DEF Table!AddResult
  <2>2. /\ employees' = [x \in Table!Slots |-> IF x = index THEN newcomer ELSE employees[x]]
        /\ index' = index + 1 /\ staff' = staff /\ beyond' = Append(beyond, newcomer)
    BY <1>1, <1>8, <2>1 DEF Table!add_employee
  <2> HIDE DEF newcomer
  <2>3. \A x \in Table!Slots : x # index
    BY <1>1, <2>1
  <2>4. employees' = employees
    <3>1. employees = [x \in Table!Slots |-> employees[x]]
      BY <1>3
    <3>2. employees' = [x \in Table!Slots |-> employees[x]]
      BY <2>2, <2>3
    <3> QED BY <3>1, <3>2
  <2>5. Stand(at)'
    BY <1>4, <2>2, <2>4 DEF Stand, Table!Slots
  <2>6. beyond = << >> /\ beyond \in Seq(Employee)
    BY <1>1, <1>3, <2>1 DEF Seated
  <2>7. beyond' \in Seq(Employee) /\ Len(beyond') = 1
    <3>1. Len(beyond) = 0
      BY <2>6
    <3> QED BY <1>7, <2>2, <2>6, <3>1, AppendProperties
  <2>8. Seated'
    <3>1. index' = max + 1 /\ ~ (index' \leq MaxEmployees)
      BY <1>1, <2>1, <2>2
    <3> QED BY <2>7, <3>1 DEF Seated
  <2>9. \A slot \in Table!Slots : slot \geq index' => employees'[slot].id = 0
    BY <1>1, <2>1, <2>2
  <2>10. index' \in Nat
    BY <1>3, <2>2
  <2> QED BY <1>2, <1>3, <2>2, <2>4, <2>5, <2>8, <2>9, <2>10 DEF StaffInv, Table!Slots
<1>6. CASE Table!AddResult(id) = 0 /\ index < max
  <2>1. index < max /\ index \in Table!Slots
    BY <1>1, <1>3, <1>6
  <2>2. \A slot \in Table!Slots : employees[slot].id # id
    BY <1>1, <1>3, <1>6, <2>1 DEF Table!AddResult, Table!Taken
  <2>3. id # 0
    BY <1>1, <1>3, <2>1, <2>2
  <2>4. /\ employees' = [x \in Table!Slots |-> IF x = index THEN newcomer ELSE employees[x]]
        /\ index' = index + 1
        /\ staff' = Append(staff, newcomer)
        /\ beyond' = beyond
    BY <1>1, <1>6 DEF Table!add_employee
  <2>5. newcomer \in Employee /\ newcomer.id = id
    BY DEF Employee
  <2> HIDE DEF newcomer
  <2>6. PICK len \in Nat : len = Len(staff)
    BY <1>3, LenProperties
  <2>7. /\ at \in [1..len -> Table!Slots]
        /\ \A x, y \in 1..len : x < y => at[x] < at[y]
        /\ \A x \in 1..len : employees[at[x]] = staff[x] /\ staff[x].id # 0
        /\ \A slot \in Table!Slots : employees[slot].id # 0 => \E x \in 1..len : at[x] = slot
        /\ \A x, y \in 1..len : staff[x].id = staff[y].id => x = y
    BY <1>3, <1>4, <2>6 DEF Stand
  <2>8. /\ staff' \in Seq(Employee) /\ Len(staff') = len + 1
        /\ \A x \in 1..len : staff'[x] = staff[x]
        /\ staff'[len + 1] = newcomer
    BY <1>3, <2>4, <2>5, <2>6, AppendProperties
  <2>9. \A x \in 1..len : at[x] < index /\ at[x] # index
    <3> SUFFICES ASSUME NEW x \in 1..len PROVE at[x] < index /\ at[x] # index
      OBVIOUS
    <3>1. at[x] \in Table!Slots /\ employees[at[x]].id # 0
      BY <2>7
    <3>2. ~ (at[x] \geq index)
      BY <1>3, <3>1
    <3> QED BY <1>1, <1>3, <3>1, <3>2
  <2>10. PICK later : later = [x \in 1..(len + 1) |-> IF x = len + 1 THEN index ELSE at[x]]
    OBVIOUS
  <2>11. \A x \in 1..(len + 1) : x \in 1..len \/ x = len + 1
    OBVIOUS
  <2>12. /\ later \in [1..(len + 1) -> Table!Slots]
         /\ later[len + 1] = index
         /\ \A x \in 1..len : later[x] = at[x] /\ x # len + 1 /\ x \in 1..(len + 1)
    BY <2>1, <2>7, <2>11, <2>10
  <2>13. \A x, y \in 1..(len + 1) : x < y => later[x] < later[y]
    <3> SUFFICES ASSUME NEW x \in 1..(len + 1), NEW y \in 1..(len + 1), x < y
                 PROVE  later[x] < later[y]
      OBVIOUS
    <3>1. x \in 1..len
      OBVIOUS
    <3>2. CASE y = len + 1
      BY <2>9, <2>12, <3>1, <3>2
    <3>3. CASE y \in 1..len
      BY <2>7, <2>12, <3>1, <3>3
    <3> QED BY <2>11, <3>2, <3>3
  <2>14. \A x \in 1..(len + 1) : employees'[later[x]] = staff'[x] /\ staff'[x].id # 0
    <3>1. employees'[index] = newcomer
      BY <2>1, <2>4
    <3>2. \A x \in 1..len : employees'[at[x]] = employees[at[x]]
      BY <2>4, <2>7, <2>9
    <3> QED BY <2>3, <2>5, <2>7, <2>8, <2>11, <2>12, <3>1, <3>2
  <2>15. ASSUME NEW slot \in Table!Slots, employees'[slot].id # 0
         PROVE  \E x \in 1..(len + 1) : later[x] = slot
    <3>1. CASE slot = index
      BY <2>12, <3>1
    <3>2. CASE slot # index
      <4>1. employees[slot].id # 0
        BY <2>4, <2>15, <3>2
      <4>2. PICK x \in 1..len : at[x] = slot
        BY <2>7, <4>1
      <4> QED BY <2>12, <4>2
    <3> QED BY <3>1, <3>2
  <2>16. Stand(later)'
    <3>1. \A slot \in Table!Slots : employees'[slot].id # 0 => \E x \in 1..Len(staff') : later[x] = slot
      BY <2>8, <2>15
    <3>2. /\ later \in [1..Len(staff') -> Table!Slots]
          /\ \A x, y \in 1..Len(staff') : x < y => later[x] < later[y]
          /\ \A x \in 1..Len(staff') : employees'[later[x]] = staff'[x] /\ staff'[x].id # 0
      BY <2>8, <2>12, <2>13, <2>14
    <3>3. Table!Slots' = Table!Slots
      BY DEF Table!Slots
    <3> QED BY <3>1, <3>2, <3>3 DEF Stand
  <2>17. ASSUME NEW x \in 1..(len + 1), NEW y \in 1..(len + 1), staff'[x].id = staff'[y].id
         PROVE  x = y
    <3>1. \A z \in 1..len : staff'[z].id # id
      BY <2>2, <2>7, <2>8
    <3>2. staff'[len + 1].id = id
      BY <2>5, <2>8
    <3>3. CASE x \in 1..len /\ y \in 1..len
      BY <2>7, <2>8, <2>17, <3>3
    <3> QED BY <2>11, <2>17, <3>1, <3>2, <3>3
  <2>18. employees' \in [Table!Slots -> Employee] /\ index' \in Nat
    BY <1>3, <2>4, <2>5
  <2>19. ASSUME NEW slot \in Table!Slots, slot \geq index'
         PROVE  employees'[slot].id = 0
    <3>1. slot \geq index /\ slot # index
      BY <1>1, <1>3, <2>4, <2>19
    <3> QED BY <1>3, <2>4, <3>1
  <2>20. Seated'
    <3>1. beyond = << >>
      BY <1>1, <1>3, <2>1 DEF Seated
    <3>2. << >> \in Seq(Employee) /\ Len(<< >>) = 0
      OBVIOUS
    <3> QED BY <2>4, <3>1, <3>2 DEF Seated
  <2> QED BY <1>2, <1>3, <2>8, <2>16, <2>17, <2>18, <2>19, <2>20 DEF StaffInv, Table!Slots
<1> QED BY <1>1, <1>3, <1>5, <1>6, <1>8

(* The table without its first employee, who is the only one with this id: *)
(* the others move up by one slot.                                         *)
LEMMA WithoutTheFirst ==
  ASSUME NEW id, employees \in [Table!Slots -> Employee], employees[0].id = id,
         \A slot \in Table!Slots : employees[slot].id = id => slot = 0
  PROVE  Table!Without(id) = [x \in Table!Slots |->
           IF x < MaxEmployees - 1 THEN employees[x + 1] ELSE employeesTemp[x]]
<1>1. PICK max \in Nat : max = MaxEmployees /\ max > 1 /\ Table!Slots = 0..(max - 1)
  BY ExercisesAssumption DEF ExercisesAssumption, Table!Slots
<1>2. PICK from : from = Table!AsSequence(employees)
  OBVIOUS
<1>3. from = [k \in 1..max |-> employees[k - 1]]
  BY <1>1, <1>2 DEF Table!AsSequence
<1>4. PICK to : to = [k \in 1..(max - 1) |-> employees[k]]
  OBVIOUS
<1>5. PICK at : at = [k \in 1..(max - 1) |-> k + 1]
  OBVIOUS
<1>6. from \in Seq(Employee) /\ Len(from) = max
  <2>1. \A k \in 1..max : k - 1 \in Table!Slots
    BY <1>1
  <2> QED BY <1>3, <2>1
<1>7. to \in Seq(Employee) /\ Len(to) = max - 1
  <2>1. \A k \in 1..(max - 1) : k \in Table!Slots
    BY <1>1
  <2>2. max - 1 \in Nat
    BY <1>1
  <2> QED BY <1>4, <2>1, <2>2
<1>8. Places(id, from, to, at)
  <2>1. at \in [1..(max - 1) -> 1..max]
    BY <1>5
  <2>2. \A x, y \in 1..(max - 1) : x < y => at[x] < at[y]
    BY <1>5
  <2>3. ASSUME NEW x \in 1..(max - 1)
        PROVE  from[at[x]] = to[x] /\ to[x].id # id
    <3>1. x \in Table!Slots /\ x # 0 /\ at[x] = x + 1 /\ x + 1 \in 1..max /\ (x + 1) - 1 = x
      BY <1>1, <1>5
    <3> QED BY <1>3, <1>4, <3>1
  <2>4. ASSUME NEW k \in 1..max, from[k].id # id
        PROVE  \E x \in 1..(max - 1) : at[x] = k
    <3>1. k # 1
      BY <1>3, <2>4
    <3>2. k - 1 \in 1..(max - 1) /\ (k - 1) + 1 = k
      BY <3>1
    <3> QED BY <1>5, <3>2
  <2> QED BY <1>6, <1>7, <2>1, <2>2, <2>3, <2>4 DEF Places
<1>9. Table!AllBut(id, Table!AsSequence(employees)) = to
  BY <1>2, <1>6, <1>7, <1>8, AllButKeeps
<1>10. Table!Without(id) = [x \in Table!Slots |-> IF x < Len(to) THEN to[x + 1] ELSE employeesTemp[x]]
  BY <1>9 DEF Table!Without
<1>11. \A x \in Table!Slots : x < max - 1 => to[x + 1] = employees[x + 1]
  BY <1>1, <1>4
<1> QED BY <1>1, <1>7, <1>10, <1>11

(* A removal takes out the first employee, or nobody.                      *)
LEMMA RemoveKeepsStaffInv ==
  ASSUME StaffInv, NEW id \in Ids, Table!remove_employee(id)
  PROVE  StaffInv'
<1> SUFFICES ASSUME ~ zeroRemoved' PROVE StaffInv'
  BY DEF StaffInv
<1>1. PICK max \in Nat : /\ max = MaxEmployees /\ max > 1 /\ Table!Slots = 0..(max - 1)
                         /\ max - 1 \in Table!Slots /\ 0 \in Table!Slots
  BY ExercisesAssumption DEF ExercisesAssumption, Table!Slots
<1>2. ~ zeroRemoved /\ index' = index /\ beyond' = beyond
  BY DEF Table!remove_employee
<1>3. /\ staff \in Seq(Employee)
      /\ employees \in [Table!Slots -> Employee]
      /\ employeesTemp \in [Table!Slots -> Employee]
      /\ index \in Nat
      /\ \A x, y \in 1..Len(staff) : staff[x].id = staff[y].id => x = y
      /\ \A slot \in Table!Slots : slot \geq index => employees[slot].id = 0
      /\ employeesTemp[MaxEmployees - 1].id = 0
      /\ Seated
  BY <1>2 DEF StaffInv
<1>7. Seated'
  BY <1>2, <1>3 DEF Seated
<1>4. PICK at : Stand(at)
  BY <1>2 DEF StaffInv
<1>5. CASE employees[0].id # id
  <2>1. UNCHANGED <<employees, employeesTemp, staff>>
    BY <1>5 DEF Table!remove_employee
  <2>2. Stand(at)'
    BY <1>4, <2>1 DEF Stand, Table!Slots
  <2> QED BY <1>2, <1>3, <1>7, <2>1, <2>2 DEF StaffInv, Table!Slots
<1>6. CASE employees[0].id = id
  <2>1. /\ employees' = Table!Without(id) /\ employeesTemp' = Table!Without(id)
        /\ staff' = Table!AllBut(id, staff) /\ id # 0
    BY <1>6 DEF Table!remove_employee
  <2>2. PICK len \in Nat : len = Len(staff)
    BY <1>3, LenProperties
  <2>3. /\ at \in [1..len -> Table!Slots]
        /\ \A x, y \in 1..len : x < y => at[x] < at[y]
        /\ \A x \in 1..len : employees[at[x]] = staff[x] /\ staff[x].id # 0
        /\ \A slot \in Table!Slots : employees[slot].id # 0 => \E x \in 1..len : at[x] = slot
        /\ \A x, y \in 1..len : staff[x].id = staff[y].id => x = y
    BY <1>3, <1>4, <2>2 DEF Stand
  <2>4. len > 0 /\ at[1] = 0
    <3>1. PICK x \in 1..len : at[x] = 0
      BY <1>1, <1>6, <2>1, <2>3
    <3>2. 1 \in 1..len /\ at[1] \in 0..(max - 1) /\ (1 < x => at[1] < at[x])
      BY <1>1, <2>3
    <3>3. x = 1
      BY <3>1, <3>2
    <3> QED BY <3>1, <3>3
  <2>5. staff[1].id = id /\ \A x \in 1..len : x # 1 => staff[x].id # id
    BY <1>6, <2>3, <2>4
  <2>6. \A slot \in Table!Slots : employees[slot].id = id => slot = 0
    <3> SUFFICES ASSUME NEW slot \in Table!Slots, employees[slot].id = id PROVE slot = 0
      OBVIOUS
    <3>1. PICK x \in 1..len : at[x] = slot
      BY <2>1, <2>3
    <3>2. staff[x].id = id
      BY <2>3, <3>1
    <3> QED BY <2>4, <2>5, <3>1, <3>2
  <2>7. PICK moved : moved = [x \in Table!Slots |-> IF x < max - 1 THEN employees[x + 1] ELSE employeesTemp[x]]
    OBVIOUS
  <2>8. Table!Without(id) = moved
    BY <1>1, <1>3, <1>6, <2>6, <2>7, WithoutTheFirst
  <2>9. \A x \in Table!Slots : x < max - 1 => x + 1 \in Table!Slots
    BY <1>1
  <2>10. /\ moved \in [Table!Slots -> Employee]
         /\ moved[max - 1] = employeesTemp[max - 1]
         /\ \A x \in Table!Slots : x < max - 1 => moved[x] = employees[x + 1]
         /\ \A x \in Table!Slots : x = max - 1 \/ x < max - 1
    BY <1>1, <1>3, <2>7, <2>9
  <2>11. PICK rest : rest = [x \in 1..(len - 1) |-> staff[x + 1]]
    OBVIOUS
  <2>12. \A x \in 1..(len - 1) : x + 1 \in 1..len /\ x + 1 # 1
    BY <2>2
  <2>13. rest \in Seq(Employee) /\ Len(rest) = len - 1
    <3>1. \A x \in 1..len : staff[x] \in Employee
      BY <1>3, <2>2, ElementOfSeq
    <3>2. len - 1 \in Nat
      BY <2>2, <2>4
    <3> QED BY <2>11, <2>12, <3>1, <3>2
  <2>14. staff' = rest
    <3>1. PICK behind : behind = [x \in 1..(len - 1) |-> x + 1]
      OBVIOUS
    <3>2. /\ behind \in [1..(len - 1) -> 1..len]
          /\ \A x, y \in 1..(len - 1) : x < y => behind[x] < behind[y]
          /\ \A x \in 1..(len - 1) : staff[behind[x]] = rest[x] /\ rest[x].id # id
      BY <2>5, <2>11, <2>12, <3>1
    <3>3. ASSUME NEW k \in 1..len, staff[k].id # id
          PROVE  \E x \in 1..(len - 1) : behind[x] = k
      <4>1. k # 1
        BY <2>5, <3>3
      <4>2. k - 1 \in 1..(len - 1) /\ (k - 1) + 1 = k
        BY <4>1
      <4> QED BY <3>1, <4>2
    <3>4. Places(id, staff, rest, behind)
      BY <2>2, <2>13, <3>2, <3>3 DEF Places
    <3> QED BY <1>3, <2>1, <2>13, <3>4, AllButKeeps
  <2>15. \A x \in 1..(len - 1) : /\ at[x + 1] - 1 \in Table!Slots /\ at[x + 1] - 1 < max - 1
                                 /\ (at[x + 1] - 1) + 1 = at[x + 1]
    <3> SUFFICES ASSUME NEW x \in 1..(len - 1)
                 PROVE  /\ at[x + 1] - 1 \in Table!Slots /\ at[x + 1] - 1 < max - 1
                        /\ (at[x + 1] - 1) + 1 = at[x + 1]
      OBVIOUS
    <3>1. at[1] < at[x + 1]
      <4>1. 1 \in 1..len /\ 1 < x + 1
        BY <2>2, <2>4
      <4> QED BY <2>3, <2>12, <4>1
    <3>2. at[x + 1] \in 0..(max - 1)
      BY <1>1, <2>3, <2>12
    <3> QED BY <1>1, <2>4, <3>1, <3>2
  <2>16. PICK later : later = [x \in 1..(len - 1) |-> at[x + 1] - 1]
    OBVIOUS
  <2>17. later \in [1..(len - 1) -> Table!Slots]
    BY <2>15, <2>16
  <2>18. \A x, y \in 1..(len - 1) : x < y => later[x] < later[y]
    <3> SUFFICES ASSUME NEW x \in 1..(len - 1), NEW y \in 1..(len - 1), x < y
                 PROVE  later[x] < later[y]
      OBVIOUS
    <3>1. at[x + 1] < at[y + 1]
      <4>1. x + 1 < y + 1
        OBVIOUS
      <4> QED BY <2>3, <2>12, <4>1
    <3>2. at[x + 1] \in 0..(max - 1) /\ at[y + 1] \in 0..(max - 1)
      BY <1>1, <2>3, <2>12
    <3> QED BY <2>16, <3>1, <3>2
  <2>19. \A x \in 1..(len - 1) : moved[later[x]] = rest[x] /\ rest[x].id # 0
    <3> SUFFICES ASSUME NEW x \in 1..(len - 1)
                 PROVE  moved[later[x]] = rest[x] /\ rest[x].id # 0
      OBVIOUS
    <3>1. moved[at[x + 1] - 1] = employees[at[x + 1]]
      BY <2>10, <2>15
    <3> QED BY <2>3, <2>11, <2>12, <2>16, <3>1
  <2>20. ASSUME NEW slot \in Table!Slots, moved[slot].id # 0
         PROVE  \E x \in 1..(len - 1) : later[x] = slot
    <3>1. slot < max - 1
      BY <1>1, <1>3, <2>10, <2>20
    <3>2. slot + 1 \in Table!Slots /\ employees[slot + 1].id # 0
      BY <2>9, <2>10, <2>20, <3>1
    <3>3. PICK x \in 1..len : at[x] = slot + 1
      BY <2>3, <3>2
    <3>4. x # 1
      BY <1>1, <2>4, <3>3
    <3>5. x - 1 \in 1..(len - 1) /\ (x - 1) + 1 = x
      BY <2>2, <3>4
    <3>6. later[x - 1] = slot
      BY <1>1, <2>16, <3>3, <3>5
    <3> QED BY <3>5, <3>6
  <2>21. Table!Slots' = Table!Slots
    BY DEF Table!Slots
  <2>22. Stand(later)'
    <3>1. employees' = moved /\ staff' = rest /\ Len(staff') = len - 1
      BY <2>1, <2>8, <2>13, <2>14
    <3>2. \A slot \in Table!Slots : moved[slot].id # 0 => \E x \in 1..(len - 1) : later[x] = slot
      BY <2>20
    <3> QED BY <2>17, <2>18, <2>19, <2>21, <3>1, <3>2 DEF Stand
  <2>23. \A x, y \in 1..(len - 1) : rest[x].id = rest[y].id => x = y
    <3> SUFFICES ASSUME NEW x \in 1..(len - 1), NEW y \in 1..(len - 1), rest[x].id = rest[y].id
                 PROVE  x = y
      OBVIOUS
    <3>1. x + 1 = y + 1
      BY <2>3, <2>11, <2>12
    <3> QED BY <3>1
  <2>24. \A slot \in Table!Slots : slot \geq index => moved[slot].id = 0
    <3> SUFFICES ASSUME NEW slot \in Table!Slots, slot \geq index PROVE moved[slot].id = 0
      OBVIOUS
    <3>1. CASE slot = max - 1
      BY <1>1, <1>3, <2>10, <3>1
    <3>2. CASE slot < max - 1
      <4>1. slot + 1 \in Table!Slots /\ slot + 1 \geq index
        BY <1>1, <1>3, <2>9, <3>2
      <4> QED BY <1>3, <2>10, <3>2, <4>1
    <3> QED BY <2>10, <3>1, <3>2
  <2>25. moved[MaxEmployees - 1].id = 0
    BY <1>1, <1>3, <2>10
  <2> QED BY <1>2, <1>3, <1>7, <2>1, <2>8, <2>10, <2>13, <2>14, <2>21, <2>22, <2>23, <2>24, <2>25 DEF StaffInv
<1> QED BY <1>5, <1>6

LEMMA StaffAlways ==
  StaffInv /\ [Table!Next]_tableVars => StaffInv'
<1> SUFFICES ASSUME StaffInv, [Table!Next]_tableVars PROVE StaffInv'
  OBVIOUS
<1>1. CASE Table!AddOne
  <2>1. PICK name \in Names, id \in Ids, salary \in Salaries :
          Table!add_employee(name, id, salary)
    BY <1>1 DEF Table!AddOne
  <2> QED BY <2>1, AddKeepsStaffInv
<1>2. CASE Table!RemoveOne
  BY <1>2, RemoveKeepsStaffInv DEF Table!RemoveOne
<1>3. CASE UNCHANGED tableVars
  <2>1. UNCHANGED <<employees, employeesTemp, index, staff, beyond, zeroRemoved>>
    BY <1>3 DEF tableVars
  <2>2. Table!Slots' = Table!Slots
    BY DEF Table!Slots
  <2>3. ASSUME ~ zeroRemoved
        PROVE  \E at : Stand(at)'
    <3>1. PICK at : Stand(at)
      BY <2>3 DEF StaffInv
    <3> QED BY <2>1, <2>2, <3>1 DEF Stand
  <2>4. Seated => Seated'
    BY <2>1 DEF Seated
  <2> QED BY <2>1, <2>2, <2>3, <2>4 DEF StaffInv
<1> QED BY <1>1, <1>2, <1>3 DEF Table!Next

LEMMA SalaryAsInt ==
  ASSUME NEW paid \in Salaries \cup {0}
  PROVE  IF paid < Word \div 2 THEN Table!ToInt(paid) = paid ELSE Table!ToInt(paid) < 0
<1>1. Word \in Nat \ {0, 1} /\ paid \in 0..(Word - 1)
  BY ExercisesAssumption DEF ExercisesAssumption
<1> QED BY <1>1 DEF Table!ToInt

(* The table is the staff, and every salary that of its employee.          *)
LEMMA TheTableStands ==
  ASSUME StaffInv
  PROVE  TableIsStaff /\ SalaryIsStaffs
<1> SUFFICES ASSUME ~ zeroRemoved PROVE TableIsStaff /\ SalaryIsStaffs
  BY DEF TableIsStaff, SalaryIsStaffs, Table!TableIsStaff, Table!SalaryIsStaffs
<1>1. PICK max \in Nat : max = MaxEmployees /\ max > 1 /\ Table!Slots = 0..(max - 1)
  BY ExercisesAssumption DEF ExercisesAssumption, Table!Slots
<1>2. PICK at : Stand(at)
  BY DEF StaffInv
<1>3. staff \in Seq(Employee) /\ employees \in [Table!Slots -> Employee]
  BY DEF StaffInv
<1>4. PICK len \in Nat : len = Len(staff) /\ DOMAIN staff = 1..len
  BY <1>3, LenProperties
<1>5. /\ at \in [1..len -> Table!Slots]
      /\ \A x, y \in 1..len : x < y => at[x] < at[y]
      /\ \A x \in 1..len : employees[at[x]] = staff[x] /\ staff[x].id # 0
      /\ \A slot \in Table!Slots : employees[slot].id # 0 => \E x \in 1..len : at[x] = slot
      /\ \A x, y \in 1..len : staff[x].id = staff[y].id => x = y
  BY <1>2, <1>4 DEF Stand, StaffInv
<1>6. Table!TableIsStaff
  <2>1. PICK from : from = Table!AsSequence(employees)
    OBVIOUS
  <2>2. from = [k \in 1..max |-> employees[k - 1]]
    BY <1>1, <2>1 DEF Table!AsSequence
  <2>3. \A k \in 1..max : k - 1 \in Table!Slots
    BY <1>1
  <2>4. from \in Seq(Employee) /\ Len(from) = max
    BY <1>3, <2>2, <2>3
  <2>5. PICK places : places = [x \in 1..len |-> at[x] + 1]
    OBVIOUS
  <2>6. \A x \in 1..len : at[x] \in 0..(max - 1) /\ at[x] + 1 \in 1..max /\ (at[x] + 1) - 1 = at[x]
    <3> SUFFICES ASSUME NEW x \in 1..len
                 PROVE  at[x] \in 0..(max - 1) /\ at[x] + 1 \in 1..max /\ (at[x] + 1) - 1 = at[x]
      OBVIOUS
    <3>1. at[x] \in 0..(max - 1)
      BY <1>1, <1>5
    <3> QED BY <3>1
  <2>7. places \in [1..len -> 1..max]
    BY <2>5, <2>6
  <2>8. \A x, y \in 1..len : x < y => places[x] < places[y]
    BY <1>5, <2>5, <2>6
  <2>9. \A x \in 1..len : from[places[x]] = staff[x] /\ staff[x].id # 0
    BY <1>5, <2>2, <2>5, <2>6
  <2>10. ASSUME NEW k \in 1..max, from[k].id # 0
         PROVE  \E x \in 1..len : places[x] = k
    <3>1. employees[k - 1].id # 0 /\ (k - 1) + 1 = k
      BY <2>2, <2>10
    <3>2. PICK x \in 1..len : at[x] = k - 1
      BY <1>5, <2>3, <3>1
    <3> QED BY <2>5, <3>1, <3>2
  <2>11. Places(0, from, staff, places)
    BY <1>4, <2>4, <2>7, <2>8, <2>9, <2>10 DEF Places
  <2>12. Table!AllBut(0, from) = staff
    BY <1>3, <2>4, <2>11, AllButKeeps
  <2>13. Len(beyond) \leq 1
    BY DEF StaffInv, Seated
  <2> QED BY <2>1, <2>12, <2>13 DEF Table!TableIsStaff
<1>7. ASSUME NEW id \in Ids \ {0}
      PROVE  IF \E x \in DOMAIN staff : staff[x].id = id
             THEN LET paid == staff[CHOOSE x \in DOMAIN staff : staff[x].id = id].salary
                  IN  IF paid < Word \div 2 THEN Table!get_salary(id) = paid
                      ELSE Table!get_salary(id) < 0
             ELSE Table!get_salary(id) = -1
  <2>1. CASE \E x \in 1..len : staff[x].id = id
    <3>1. PICK x \in 1..len : staff[x].id = id
      BY <2>1
    <3>2. (CHOOSE y \in DOMAIN staff : staff[y].id = id) = x
      BY <1>4, <1>5, <3>1
    <3>3. PICK slot \in Table!Slots : slot = at[x]
      BY <1>5
    <3>4. employees[slot] = staff[x]
      BY <1>5, <3>3
    <3>5. \A y \in Table!Slots : employees[y].id = id => y = slot
      <4> SUFFICES ASSUME NEW y \in Table!Slots, employees[y].id = id PROVE y = slot
        OBVIOUS
      <4>1. PICK z \in 1..len : at[z] = y
        BY <1>5, <1>7
      <4>2. staff[z].id = staff[x].id
        BY <1>5, <3>1, <4>1
      <4> QED BY <1>5, <3>3, <4>1, <4>2
    <3>6. \A y \in 0..(slot - 1) : employees[y].id # id
      <4> SUFFICES ASSUME NEW y \in 0..(slot - 1) PROVE employees[y].id # id
        OBVIOUS
      <4>1. y \in Table!Slots /\ y # slot
        BY <1>1
      <4> QED BY <3>5, <4>1
    <3>7. (CHOOSE y \in Table!Slots : employees[y].id = id
             /\ \A z \in 0..(y - 1) : employees[z].id # id) = slot
      BY <3>1, <3>4, <3>5, <3>6
    <3>8. \E y \in Table!Slots : employees[y].id = id
      BY <3>1, <3>4
    <3>9. Table!get_salary(id) = Table!ToInt(staff[x].salary)
      BY <3>4, <3>7, <3>8 DEF Table!get_salary
    <3>10. PICK paid : paid = staff[x].salary
      OBVIOUS
    <3>11. paid \in Salaries \cup {0}
      <4>1. staff[x] \in Employee
        BY <1>3, <1>4, <3>1, ElementOfSeq
      <4> QED BY <3>10, <4>1 DEF Employee
    <3>12. IF paid < Word \div 2 THEN Table!ToInt(paid) = paid ELSE Table!ToInt(paid) < 0
      BY <3>11, SalaryAsInt
    <3> QED BY <1>4, <2>1, <3>2, <3>9, <3>10, <3>12
  <2>2. CASE ~ \E x \in 1..len : staff[x].id = id
    <3>1. ~ \E y \in Table!Slots : employees[y].id = id
      BY <1>5, <1>7, <2>2
    <3>2. Table!get_salary(id) = -1
      BY <3>1 DEF Table!get_salary
    <3> QED BY <1>4, <2>2, <3>2
  <2> QED BY <2>1, <2>2
<1>8. Table!SalaryIsStaffs
  BY <1>7 DEF Table!SalaryIsStaffs
<1> QED BY <1>6, <1>8 DEF TableIsStaff, SalaryIsStaffs

LEMMA StaffInvHolds == AllSpec => []StaffInv
<1>1. AllInit => StaffInv
  BY StaffStart DEF AllInit
<1>2. StaffInv /\ [AllNext]_allVars => StaffInv'
  BY EachStep, StaffAlways
<1> QED BY <1>1, <1>2, PTL DEF AllSpec

(* However many commands there are, the table holds the employees it gave  *)
(* a slot and did not say it removed, in their order, and one at most is   *)
(* said to be added and has no slot, as long as id 0 is not removed.       *)
THEOREM TableHoldsStaff == AllSpec => []TableIsStaff
<1>1. StaffInv => TableIsStaff
  BY TheTableStands
<1> QED BY <1>1, StaffInvHolds, PTL

(* Under the same condition an employee with a slot is found with the true *)
(* salary if that is below half of Word, and with a negative number        *)
(* otherwise.                                                              *)
THEOREM SalariesAreFound == AllSpec => []SalaryIsStaffs
<1>1. StaffInv => SalaryIsStaffs
  BY TheTableStands
<1> QED BY <1>1, StaffInvHolds, PTL

-----------------------------------------------------------------------------
(* The factorial.  What ToInt makes of an int is the int.                  *)
LEMMA ToIntKeeps ==
  ASSUME NEW x \in 0..MaxInt
  PROVE  Number!ToInt(x) = x
<1>1. PICK width \in Nat : width = 2 * (MaxInt + 1) /\ width > 0 /\ MaxInt \in Nat
  BY ExercisesAssumption DEF ExercisesAssumption
<1>2. PICK y \in Nat : y = x + MaxInt + 1 /\ y < width
  BY <1>1
<1>3. y % width = y
  <2> DEFINE quotient == y \div width
             rest == y % width
  <2>1. quotient \in Nat /\ rest \in Nat /\ y = width * quotient + rest /\ rest < width
    BY <1>1, <1>2
  <2> HIDE DEF quotient
  <2>2. CASE quotient = 0
    BY <2>1, <2>2
  <2>3. CASE quotient \geq 1
    <3>1. width * quotient \geq width * 1
      BY <1>1, <2>1, <2>3
    <3> QED BY <1>2, <2>1, <3>1
  <2> QED BY <2>1, <2>2, <2>3
<1>4. Number!ToInt(x) = (y % width) - MaxInt - 1
  BY <1>1, <1>2 DEF Number!ToInt
<1> QED BY <1>1, <1>2, <1>3, <1>4

LEMMA ToIntType ==
  ASSUME NEW x \in Int
  PROVE  Number!ToInt(x) \in Int
<1>1. PICK width \in Nat : width = 2 * (MaxInt + 1) /\ MaxInt \in Nat /\ width > 0
  BY ExercisesAssumption DEF ExercisesAssumption
<1>2. (x + MaxInt + 1) % width \in Int
  BY <1>1
<1> QED BY <1>1, <1>2 DEF Number!ToInt

(* factorial() has a result for every int.                                 *)
FactorialTurn(m, before) ==
  IF m < 2 THEN 1
  ELSE IF Number!Overflowed(Number!ToInt(m * before), m) THEN -2 ELSE Number!ToInt(m * before)

LEMMA FactorialUnfold ==
  /\ \A m \in Int : m < 0 => Number!factorial[m] = -1
  /\ Number!factorial[0] = 1
  /\ \A m \in Nat : /\ Number!factorial[m] \in Int
                     /\ Number!factorial[m + 1] = FactorialTurn(m + 1, Number!factorial[m])
<1>1. PICK Rule : Rule = [p \in Nat \X Int |-> FactorialTurn(p[1] + 1, p[2])]
  OBVIOUS
<1>2. Rule \in [Nat \X Int -> Int]
  <2>1. ASSUME NEW p \in Nat \X Int
        PROVE  FactorialTurn(p[1] + 1, p[2]) \in Int
    <3>1. (p[1] + 1) * p[2] \in Int
      OBVIOUS
    <3> QED BY <3>1, ToIntType DEF FactorialTurn
  <2> QED BY <1>1, <2>1
<1>3. PICK f \in [Nat -> Int] : f[0] = 1 /\ \A k \in Nat : f[k + 1] = Rule[<<k, f[k]>>]
  <2>1. 1 \in Int
    OBVIOUS
  <2>2. \E f \in [Nat -> Int] : Follows(f, 1, Rule)
    BY <1>2, <2>1, RecursionOverNat
  <2> QED BY <2>2 DEF Follows
<1>4. ASSUME NEW k \in Nat
      PROVE  f[k + 1] = FactorialTurn(k + 1, f[k])
  <2>1. <<k, f[k]>> \in Nat \X Int
    OBVIOUS
  <2>2. Rule[<<k, f[k]>>] = FactorialTurn(k + 1, f[k])
    BY <1>1, <2>1
  <2> QED BY <1>3, <2>2
<1> DEFINE Fact(g) == [m \in Int |->
             IF m < 0 THEN -1
             ELSE IF m \in {0, 1} THEN 1
             ELSE IF Number!Overflowed(Number!ToInt(m * g[m - 1]), m) THEN -2 ELSE Number!ToInt(m * g[m - 1])]
           whole == [m \in Int |-> IF m < 0 THEN -1 ELSE f[m]]
           fact == CHOOSE g : g = Fact(g)
<1>5. ASSUME NEW m \in Int
      PROVE  whole[m] = IF m < 0 THEN -1
             ELSE IF m \in {0, 1} THEN 1
             ELSE IF Number!Overflowed(Number!ToInt(m * whole[m - 1]), m) THEN -2 ELSE Number!ToInt(m * whole[m - 1])
  <2>1. CASE m < 0
    BY <2>1
  <2>2. CASE m = 0
    BY <1>3, <2>2
  <2>3. CASE m = 1
    <3>1. f[0 + 1] = FactorialTurn(0 + 1, f[0])
      BY <1>4
    <3>2. f[1] = 1
      BY <3>1 DEF FactorialTurn
    <3> QED BY <2>3, <3>2
  <2>4. CASE m > 1
    <3>1. PICK k \in Nat : m = k + 1 /\ m - 1 = k
      <4>1. m - 1 \in Nat /\ m = (m - 1) + 1
        BY <2>4
      <4> QED BY <4>1
    <3>2. f[m] = FactorialTurn(m, f[m - 1])
      BY <1>4, <3>1
    <3>3. whole[m] = f[m] /\ whole[m - 1] = f[m - 1]
      BY <2>4, <3>1
    <3> HIDE DEF whole
    <3>4. ~ (m < 0) /\ m \notin {0, 1} /\ ~ (m < 2)
      BY <2>4
    <3> QED BY <3>2, <3>3, <3>4 DEF FactorialTurn
  <2> QED BY <2>1, <2>2, <2>3, <2>4
<1>6. whole = Fact(whole)
  <2>1. whole = [m \in Int |-> whole[m]]
    OBVIOUS
  <2> HIDE DEF whole
  <2> QED BY <1>5, <2>1
<1>7. fact = Fact(fact)
  <2> HIDE DEF Fact
  <2> QED BY <1>6
<1>8. Number!factorial = fact
  BY DEF Number!factorial
<1> HIDE DEF fact
<1>9. ASSUME NEW m \in Int
      PROVE  fact[m] = IF m < 0 THEN -1
             ELSE IF m \in {0, 1} THEN 1
             ELSE IF Number!Overflowed(Number!ToInt(m * fact[m - 1]), m) THEN -2 ELSE Number!ToInt(m * fact[m - 1])
  BY <1>7
<1>10. fact[0] = 1
  BY <1>9
<1>11. ASSUME NEW m \in Nat
       PROVE  fact[m + 1] = FactorialTurn(m + 1, fact[m])
  <2>1. (m + 1) - 1 = m /\ m + 1 \in Int /\ ~ (m + 1 < 0) /\ (m + 1 \in {0, 1} <=> m + 1 < 2)
    OBVIOUS
  <2> QED BY <1>9, <2>1 DEF FactorialTurn
<1>12. \A m \in Nat : fact[m] \in Int
  <2> SUFFICES ASSUME NEW m \in Nat PROVE fact[m] \in Int
    OBVIOUS
  <2> DEFINE Bad == {k \in Nat : fact[k] \notin Int}
  <2> SUFFICES ASSUME Bad # {} PROVE FALSE
    OBVIOUS
  <2>3. PICK k \in Bad : \A l \in Bad : k \leq l
    <3>1. Bad \in SUBSET Nat
      OBVIOUS
    <3> HIDE DEF Bad
    <3> QED BY <3>1, LeastNatural
  <2>4. k \in Nat /\ fact[k] \notin Int
    BY <2>3
  <2>5. k # 0
    BY <1>10, <2>4
  <2>6. PICK l \in Nat : k = l + 1
    <3>1. k - 1 \in Nat /\ k = (k - 1) + 1
      BY <2>4, <2>5
    <3> QED BY <3>1
  <2>7. fact[l] \in Int
    <3>1. ~ (k \leq l)
      BY <2>6
    <3>2. l \notin Bad
      <4> HIDE DEF Bad
      <4> QED BY <2>3, <3>1
    <3> QED BY <3>2
  <2>8. k * fact[l] \in Int
    BY <2>4, <2>7
  <2>9. FactorialTurn(k, fact[l]) \in Int
    BY <2>8, ToIntType DEF FactorialTurn
  <2> QED BY <1>11, <2>4, <2>6, <2>9
<1> QED BY <1>8, <1>9, <1>10, <1>11, <1>12

(* The reference: the product of the numbers up to m, or too much.         *)
ProductTurn(m, before) == IF before > MaxInt \div m THEN MaxInt + 1 ELSE m * before

LEMMA ProductUnfold ==
  /\ Number!Product[0] = 1
  /\ \A m \in Nat : /\ Number!Product[m] \in Nat
                     /\ Number!Product[m + 1] = ProductTurn(m + 1, Number!Product[m])
<1>1. PICK Rule : Rule = [p \in Nat \X Nat |-> ProductTurn(p[1] + 1, p[2])]
  OBVIOUS
<1>2. Rule \in [Nat \X Nat -> Nat]
  <2>1. ASSUME NEW p \in Nat \X Nat
        PROVE  ProductTurn(p[1] + 1, p[2]) \in Nat
    <3>1. (p[1] + 1) * p[2] \in Nat
      OBVIOUS
    <3> QED BY <3>1, ExercisesAssumption DEF ProductTurn, ExercisesAssumption
  <2> QED BY <1>1, <2>1
<1>3. PICK f \in [Nat -> Nat] : f[0] = 1 /\ \A k \in Nat : f[k + 1] = Rule[<<k, f[k]>>]
  <2>1. 1 \in Nat
    OBVIOUS
  <2>2. \E f \in [Nat -> Nat] : Follows(f, 1, Rule)
    BY <1>2, <2>1, RecursionOverNat
  <2> QED BY <2>2 DEF Follows
<1>4. ASSUME NEW k \in Nat
      PROVE  f[k + 1] = ProductTurn(k + 1, f[k])
  <2>1. <<k, f[k]>> \in Nat \X Nat
    OBVIOUS
  <2>2. Rule[<<k, f[k]>>] = ProductTurn(k + 1, f[k])
    BY <1>1, <2>1
  <2> QED BY <1>3, <2>2
<1> DEFINE Prod(g) == [m \in Nat |->
             IF m = 0 THEN 1 ELSE IF g[m - 1] > MaxInt \div m THEN MaxInt + 1 ELSE m * g[m - 1]]
           prod == CHOOSE g : g = Prod(g)
<1>5. ASSUME NEW m \in Nat
      PROVE  f[m] = IF m = 0 THEN 1 ELSE IF f[m - 1] > MaxInt \div m THEN MaxInt + 1 ELSE m * f[m - 1]
  <2>1. CASE m = 0
    BY <1>3, <2>1
  <2>2. CASE m # 0
    <3>1. PICK k \in Nat : m = k + 1 /\ m - 1 = k
      <4>1. m - 1 \in Nat /\ m = (m - 1) + 1
        BY <2>2
      <4> QED BY <4>1
    <3>2. f[m] = ProductTurn(m, f[m - 1])
      BY <1>4, <3>1
    <3> QED BY <2>2, <3>2 DEF ProductTurn
  <2> QED BY <2>1, <2>2
<1>6. f = Prod(f)
  <2>1. f = [m \in Nat |-> f[m]]
    OBVIOUS
  <2> QED BY <1>5, <2>1
<1>7. prod = Prod(prod)
  <2> HIDE DEF Prod
  <2> QED BY <1>6
<1>8. Number!Product = prod
  BY DEF Number!Product
<1> HIDE DEF prod
<1>9. ASSUME NEW m \in Nat
      PROVE  prod[m] = IF m = 0 THEN 1 ELSE IF prod[m - 1] > MaxInt \div m THEN MaxInt + 1 ELSE m * prod[m - 1]
  BY <1>7
<1>10. prod[0] = 1
  BY <1>9
<1>11. ASSUME NEW m \in Nat
       PROVE  prod[m + 1] = ProductTurn(m + 1, prod[m])
  <2>1. (m + 1) - 1 = m /\ m + 1 \in Nat /\ m + 1 # 0
    OBVIOUS
  <2> QED BY <1>9, <2>1 DEF ProductTurn
<1>12. \A m \in Nat : prod[m] = f[m]
  <2> DEFINE Differ == {m \in Nat : prod[m] # f[m]}
  <2> SUFFICES ASSUME Differ # {} PROVE FALSE
    OBVIOUS
  <2>1. PICK k \in Differ : \A l \in Differ : k \leq l
    <3>1. Differ \in SUBSET Nat
      OBVIOUS
    <3> HIDE DEF Differ
    <3> QED BY <3>1, LeastNatural
  <2>2. k \in Nat /\ prod[k] # f[k]
    BY <2>1
  <2>3. k # 0
    BY <1>3, <1>10, <2>2
  <2>4. PICK l \in Nat : k = l + 1
    <3>1. k - 1 \in Nat /\ k = (k - 1) + 1
      BY <2>2, <2>3
    <3> QED BY <3>1
  <2>5. prod[l] = f[l]
    <3>1. ~ (k \leq l)
      BY <2>4
    <3>2. l \notin Differ
      <4> HIDE DEF Differ
      <4> QED BY <2>1, <3>1
    <3> QED BY <3>2
  <2> QED BY <1>4, <1>11, <2>2, <2>4, <2>5
<1> QED BY <1>8, <1>10, <1>11, <1>12

(* A product that is an int is what factorial() computes: so was every     *)
(* product before it, and none of them was taken for one that wrapped.     *)
LEMMA FactorialIsProduct ==
  ASSUME NEW m \in Nat, Number!Product[m] \leq MaxInt
  PROVE  Number!factorial[m] = Number!Product[m] /\ Number!Product[m] \geq 1
<1> DEFINE Right(k) == Number!factorial[k] = Number!Product[k] /\ Number!Product[k] \geq 1
           Wrong == {k \in Nat : Number!Product[k] \leq MaxInt /\ ~ Right(k)}
<1> SUFFICES ASSUME Wrong # {} PROVE FALSE
  OBVIOUS
<1>1. PICK k \in Wrong : \A l \in Wrong : k \leq l
  <2>1. Wrong \in SUBSET Nat
    OBVIOUS
  <2> HIDE DEF Wrong
  <2> QED BY <2>1, LeastNatural
<1>2. k \in Nat /\ Number!Product[k] \leq MaxInt /\ ~ Right(k)
  BY <1>1
<1>3. k # 0
  BY <1>2, FactorialUnfold, ProductUnfold
<1>4. PICK l \in Nat : k = l + 1
  <2>1. k - 1 \in Nat /\ k = (k - 1) + 1
    BY <1>2, <1>3
  <2> QED BY <2>1
<1>5. l \notin Wrong
  <2>1. ~ (k \leq l)
    BY <1>4
  <2> HIDE DEF Wrong
  <2> QED BY <1>1, <2>1
<1>6. MaxInt \in Nat
  BY ExercisesAssumption DEF ExercisesAssumption
<1>7. PICK before \in Nat : before = Number!Product[l]
  BY ProductUnfold
<1>8. Number!Product[k] = k * before /\ k * before \leq MaxInt
  <2>1. Number!Product[k] = ProductTurn(k, before)
    BY <1>4, <1>7, ProductUnfold
  <2>2. Number!Product[k] # MaxInt + 1
    <3>1. Number!Product[k] \in Nat
      BY <1>2, ProductUnfold
    <3> QED BY <1>2, <1>6, <3>1
  <2> QED BY <1>2, <2>1, <2>2 DEF ProductTurn
<1>9. before \leq k * before
  <2>1. k \geq 1 /\ k \in Nat
    BY <1>2, <1>3
  <2>2. 1 * before \leq k * before
    BY <1>7, <2>1
  <2> QED BY <1>7, <2>2
<1>10. Right(l)
  <2>1. k * before \in Nat
    BY <1>2, <1>7
  <2>2. before \leq MaxInt
    BY <1>6, <1>7, <1>8, <1>9, <2>1
  <2> QED BY <1>5, <1>7, <2>2
<1>11. before \geq 1 /\ Number!factorial[l] = before
  BY <1>7, <1>10
<1>12. k * before \in 0..MaxInt /\ k * before \geq k
  <2>1. k * before \in Nat
    BY <1>2, <1>7
  <2>2. k * before \geq k * 1
    BY <1>2, <1>7, <1>11
  <2> QED BY <1>2, <1>6, <1>8, <2>1, <2>2
<1>13. Number!factorial[k] = FactorialTurn(k, before)
  BY <1>4, <1>7, <1>11, FactorialUnfold
<1>14. Number!factorial[k] = k * before
  <2>1. CASE k < 2
    <3>1. k = 1 /\ before = 1
      <4>1. k = 1 /\ l = 0
        BY <1>2, <1>3, <1>4, <2>1
      <4> QED BY <1>7, <4>1, ProductUnfold
    <3> QED BY <1>13, <3>1 DEF FactorialTurn
  <2>2. CASE ~ (k < 2)
    <3>1. Number!ToInt(k * before) = k * before
      BY <1>12, ToIntKeeps
    <3>2. ~ Number!Overflowed(k * before, k)
      BY <1>2, <1>12 DEF Number!Overflowed
    <3> QED BY <1>13, <2>2, <3>1, <3>2 DEF FactorialTurn
  <2> QED BY <2>1, <2>2
<1>15. k * before \geq 1
  BY <1>2, <1>3, <1>12
<1> QED BY <1>2, <1>8, <1>14, <1>15

(* Whatever a product wraps around to, factorial() tells it from a         *)
(* negative argument: it is no smaller than the argument, or -2.           *)
LEMMA FactorialVerdict ==
  ASSUME NEW m \in Nat
  PROVE  Number!Verdict(Number!factorial[m]) \in {"success", "overflow"}
<1>1. Number!factorial[m] = -2 \/ (Number!factorial[m] \in Int /\ Number!factorial[m] \geq 0)
  <2>1. CASE m = 0
    BY <2>1, FactorialUnfold
  <2>2. CASE m # 0
    <3>1. PICK l \in Nat : m = l + 1
      <4>1. m - 1 \in Nat /\ m = (m - 1) + 1
        BY <2>2
      <4> QED BY <4>1
    <3>2. PICK before \in Int : before = Number!factorial[l]
      BY FactorialUnfold
    <3>3. Number!factorial[m] = FactorialTurn(m, before) /\ Number!factorial[m] \in Int
      BY <3>1, <3>2, FactorialUnfold
    <3>4. PICK acc1 \in Int : acc1 = Number!ToInt(m * before)
      <4>1. m * before \in Int
        OBVIOUS
      <4> QED BY <4>1, ToIntType
    <3> QED BY <3>3, <3>4 DEF FactorialTurn, Number!Overflowed
  <2> QED BY <2>1, <2>2
<1> QED BY <1>1 DEF Number!Verdict

(* A factorial that is an int is printed as it is, and a negative argument *)
(* and no other is reported as one.  Whether a product that wrapped around *)
(* is reported as an overflow is not said: it is not always                *)
(* (cp1-problem1.c:46-66).                                                 *)
THEOREM FittingFactorialsAreRight == AllSpec => []FittingFactorials
<1>1. AllInit => FittingFactorials
  BY DEF AllInit, Number!Init, FittingFactorials, Number!FittingFactorials
<1>2. FittingFactorials /\ [AllNext]_allVars => FittingFactorials'
  <2> SUFFICES ASSUME FittingFactorials, [Number!Next]_answer PROVE FittingFactorials'
    BY EachStep
  <2>1. ASSUME NEW m \in Int,
               answer' = [call |-> "factorial", n |-> m,
                          verdict |-> Number!Verdict(Number!factorial[m]), text |-> <<Number!factorial[m]>>]
        PROVE  FittingFactorials'
    <3>1. /\ answer'.n = m /\ answer'.verdict = Number!Verdict(Number!factorial[m])
          /\ answer'.text = <<Number!factorial[m]>>
      BY <2>1
    <3>2. CASE m < 0
      <4>1. Number!Verdict(-1) = "negative"
        BY DEF Number!Verdict
      <4>2. Number!factorial[m] = -1
        BY <3>2, FactorialUnfold
      <4>3. /\ answer'.verdict = "negative" /\ answer'.n < 0 /\ ~ (answer'.n \geq 0)
            /\ answer'.verdict # "unknown"
        BY <3>1, <3>2, <4>1, <4>2
      <4> QED BY <4>3 DEF FittingFactorials, Number!FittingFactorials
    <3>3. CASE ~ (m < 0)
      <4>1. m \in Nat
        BY <3>3
      <4>2. Number!Verdict(Number!factorial[m]) \in {"success", "overflow"}
        BY <4>1, FactorialVerdict
      <4>3. ASSUME Number!Product[m] \leq MaxInt
            PROVE  Number!Verdict(Number!factorial[m]) = "success" /\ Number!factorial[m] = Number!Product[m]
        <5>1. Number!factorial[m] = Number!Product[m] /\ Number!Product[m] \geq 1 /\ Number!Product[m] \in Nat
          BY <4>1, <4>3, FactorialIsProduct, ProductUnfold
        <5> QED BY <5>1 DEF Number!Verdict
      <4>4. /\ answer'.verdict # "negative" /\ ~ (answer'.n < 0) /\ answer'.verdict # "unknown"
            /\ answer'.n = m
        BY <3>1, <3>3, <4>2
      <4>5. Number!Product[answer'.n] \leq MaxInt =>
              answer'.verdict = "success" /\ answer'.text = <<Number!Product[answer'.n]>>
        BY <3>1, <4>3
      <4> QED BY <4>4, <4>5 DEF FittingFactorials, Number!FittingFactorials
    <3> QED BY <3>2, <3>3
  <2>2. CASE Number!Factorial
    BY <2>1, <2>2, ExercisesAssumption DEF Number!Factorial, ExercisesAssumption
  <2>3. CASE Number!Say
    <3>1. answer'.call = "itoaaa"
      BY <2>3 DEF Number!Say
    <3> QED BY <3>1 DEF FittingFactorials, Number!FittingFactorials
  <2>4. CASE answer' = answer
    BY <2>4 DEF FittingFactorials, Number!FittingFactorials
  <2> QED BY <2>2, <2>3, <2>4 DEF Number!Next
<1> QED BY <1>1, <1>2, PTL DEF AllSpec

-----------------------------------------------------------------------------
(* The numbers in English.  A power that goes leaves two smaller numbers.  *)
LEMMA PowerSplits ==
  ASSUME NEW p \in Number!Powers, NEW x \in Nat, Number!Goes(p, x)
  PROVE  /\ x \div p \in Nat /\ x % p \in Nat /\ x = p * (x \div p) + (x % p)
         /\ x % p < p /\ p \leq x /\ x \div p < x /\ x \div p \geq 1
<1>1. p \in Nat /\ p \geq 100
  BY DEF Number!Powers
<1>2. PICK quotient, rest : quotient = x \div p /\ rest = x % p
  OBVIOUS
<1>3. quotient \in Nat /\ rest \in Nat /\ x = p * quotient + rest /\ rest < p
  BY <1>1, <1>2
<1>4. quotient \geq 1
  BY <1>2, <1>3 DEF Number!Goes
<1>5. p * quotient \geq p /\ p * quotient > quotient
  <2>1. (p - 1) * quotient \in Nat /\ p * quotient = (p - 1) * quotient + quotient
    BY <1>1, <1>3
  <2>2. p * (quotient - 1) \in Nat /\ p * quotient = p * (quotient - 1) + p
    BY <1>1, <1>3, <1>4
  <2>3. (p - 1) * quotient > 0
    <3>1. (p - 1) * quotient = (p - 2) * quotient + quotient /\ (p - 2) * quotient \in Nat
      BY <1>1, <1>3
    <3> QED BY <1>3, <1>4, <3>1
  <2> QED BY <1>1, <1>3, <2>1, <2>2, <2>3
<1>6. p \leq x /\ quotient < x
  <2>1. PICK all \in Int : all = p * quotient
    BY <1>1, <1>3
  <2>2. x = all + rest /\ all \geq p /\ all > quotient
    BY <1>3, <1>5, <2>1
  <2> QED BY <1>1, <1>3, <2>1, <2>2
<1> QED BY <1>2, <1>3, <1>4, <1>6

(* A power does not go into what is smaller, and goes into the others.     *)
LEMMA PowersGo ==
  ASSUME NEW p \in Number!Powers, NEW x \in Nat
  PROVE  Number!Goes(p, x) <=> p \leq x
<1>1. p \in Nat /\ p \geq 100
  BY DEF Number!Powers
<1>2. PICK quotient, rest : quotient = x \div p /\ rest = x % p
  OBVIOUS
<1>3. quotient \in Nat /\ rest \in Nat /\ x = p * quotient + rest /\ rest < p
  BY <1>1, <1>2
<1>4. ASSUME p \leq x PROVE Number!Goes(p, x)
  <2>1. quotient # 0
    BY <1>1, <1>3, <1>4
  <2> QED BY <1>2, <1>3, <2>1 DEF Number!Goes
<1> QED BY <1>4, PowerSplits

(* PowerIn() is the largest power that is no larger than the number.       *)
LEMMA LargestPower ==
  ASSUME NEW x \in Nat, x \geq 100
  PROVE  /\ Number!PowerIn(x) \in Number!Powers
         /\ Number!PowerIn(x) \leq x
         /\ \A q \in Number!Powers : q > Number!PowerIn(x) => x < q
<1> DEFINE Fits(p) == /\ p \in Number!Powers /\ Number!Goes(p, x)
                      /\ \A q \in Number!Powers : q > p => ~ Number!Goes(q, x)
<1>1. \A p \in Number!Powers : (Number!Goes(p, x) <=> p \leq x) /\ p \in Nat
  BY PowersGo DEF Number!Powers
<1>2. \E p : p \in Number!Powers /\ p \leq x /\ \A q \in Number!Powers : q > p => ~ (q \leq x)
  <2>1. Number!Powers = {1000000000, 1000000, 1000, 100}
    BY DEF Number!Powers
  <2>2. CASE x \geq 1000000000
    BY <2>1, <2>2
  <2>3. CASE x \geq 1000000 /\ x < 1000000000
    BY <2>1, <2>3
  <2>4. CASE x \geq 1000 /\ x < 1000000
    BY <2>1, <2>4
  <2>5. CASE x < 1000
    BY <2>1, <2>5
  <2> QED BY <2>2, <2>3, <2>4, <2>5
<1>3. \E p : Fits(p)
  BY <1>1, <1>2
<1>4. Number!PowerIn(x) = CHOOSE p : Fits(p)
  BY DEF Number!PowerIn
<1>5. Fits(Number!PowerIn(x))
  <2> HIDE DEF Fits
  <2> QED BY <1>3, <1>4
<1> QED BY <1>1, <1>5

(* itoaaaHelper() has a text for every int: it asks itself only about the  *)
(* opposite of a negative number and about smaller numbers.                *)
Texts == Seq(Int) \ {<< >>}

HelperTurn(x, helper) ==
  IF x < 0 THEN <<Number!Negative>> \o helper[-x]
  ELSE IF x \geq 100
  THEN helper[x \div Number!PowerIn(x)] \o <<Number!PowerIn(x)>> \o helper[x % Number!PowerIn(x)]
  ELSE IF Number!HasTens(x)
  THEN <<Number!tens[x \div 10]>> \o IF x % 10 # 0 THEN <<Number!digits[x % 10]>> ELSE << >>
  ELSE <<Number!digits[x]>>

LEMMA TextsJoin ==
  ASSUME NEW s1 \in Seq(Int), NEW t1 \in Seq(Int), s1 # << >> \/ t1 # << >>
  PROVE  s1 \o t1 \in Texts
<1>1. Len(s1) > 0 \/ Len(t1) > 0
  BY EmptySeq
<1>2. s1 \o t1 \in Seq(Int) /\ Len(s1 \o t1) = Len(s1) + Len(t1)
  BY ConcatProperties
<1>3. Len(s1 \o t1) # 0
  BY <1>1, <1>2
<1> QED BY <1>2, <1>3 DEF Texts

LEMMA HundredGoes ==
  ASSUME NEW x \in Nat
  PROVE  (\E p \in Number!Powers : Number!Goes(p, x)) <=> x \geq 100
<1>1. 100 \in Number!Powers /\ \A p \in Number!Powers : p \in Nat /\ p \geq 100
  BY DEF Number!Powers
<1> QED BY <1>1, PowersGo

LEMMA TensAndDigits ==
  ASSUME NEW x \in 0..99
  PROVE  /\ Number!HasTens(x) => /\ Number!tens[x \div 10] = 10 * (x \div 10)
                                 /\ x % 10 # 0 => Number!digits[x % 10] = x % 10
                                 /\ x \div 10 \in 2..9 /\ x % 10 \in 0..9 /\ 10 * (x \div 10) + (x % 10) = x
         /\ ~ Number!HasTens(x) => Number!digits[x] = x
<1>1. ASSUME x > 19
      PROVE  x \div 10 \in 2..9 /\ x % 10 \in 0..9 /\ 10 * (x \div 10) + (x % 10) = x
  BY <1>1
<1>2. \A y \in 0..19 : Number!digits[y] = y
  BY DEF Number!digits, Number!NoWord
<1>3. \A y \in 2..9 : Number!tens[y] = 10 * y
  BY DEF Number!tens
<1> QED BY <1>1, <1>2, <1>3 DEF Number!HasTens

(* What a text is made from: one word, or the texts of two smaller ones.   *)
SizeOf == [x \in Int |-> IF x < 0 THEN 2 * (-x) + 1 ELSE 2 * x]

LEMMA SmallerOnes ==
  ASSUME NEW x \in Int
  PROVE  /\ x < 0 => -x \in Int /\ SizeOf[-x] < SizeOf[x]
         /\ x \geq 100 => /\ x \div Number!PowerIn(x) \in Int /\ SizeOf[x \div Number!PowerIn(x)] < SizeOf[x]
                          /\ x % Number!PowerIn(x) \in Int /\ SizeOf[x % Number!PowerIn(x)] < SizeOf[x]
                          /\ Number!PowerIn(x) \in Int
<1>1. CASE x < 0
  BY <1>1 DEF SizeOf
<1>2. ASSUME x \geq 100
      PROVE  /\ x \div Number!PowerIn(x) \in Nat /\ x \div Number!PowerIn(x) < x
             /\ x % Number!PowerIn(x) \in Nat /\ x % Number!PowerIn(x) < x
             /\ Number!PowerIn(x) \in Nat
  <2>1. PICK p : p = Number!PowerIn(x)
    OBVIOUS
  <2>2. p \in Number!Powers /\ p \leq x /\ x \in Nat
    BY <1>2, <2>1, LargestPower
  <2>3. p \in Nat
    BY <2>2 DEF Number!Powers
  <2>4. Number!Goes(p, x)
    BY <2>2, PowersGo
  <2>5. x \div p \in Nat /\ x \div p < x /\ x % p \in Nat /\ x % p < p
    BY <2>2, <2>4, PowerSplits
  <2>6. x % p < x
    BY <2>2, <2>3, <2>5
  <2> QED BY <2>1, <2>3, <2>5, <2>6
<1>3. \A y \in Nat : SizeOf[y] = 2 * y
  BY DEF SizeOf
<1>4. ASSUME x \geq 100, NEW y \in Nat, y < x
      PROVE  SizeOf[y] < SizeOf[x]
  <2>1. SizeOf[x] = 2 * x /\ SizeOf[y] = 2 * y
    BY <1>3, <1>4
  <2> QED BY <1>4, <2>1
<1>5. CASE x \geq 100
  BY <1>2, <1>4, <1>5
<1> QED BY <1>1, <1>5

LEMMA TurnType ==
  ASSUME NEW x \in Int, NEW g \in [Int -> Texts]
  PROVE  HelperTurn(x, g) \in Texts
<1>1. \A y \in Int : g[y] \in Seq(Int) /\ g[y] # << >>
  BY DEF Texts
<1>2. CASE x < 0
  <2>1. <<Number!Negative>> \in Seq(Int) /\ g[-x] \in Seq(Int) /\ g[-x] # << >>
    BY <1>1 DEF Number!Negative
  <2> QED BY <1>2, <2>1, TextsJoin DEF HelperTurn
<1>3. CASE x \geq 100
  <2>1. PICK p : p = Number!PowerIn(x)
    OBVIOUS
  <2>2. g[x \div p] \in Seq(Int) /\ g[x % p] \in Seq(Int) /\ g[x % p] # << >> /\ p \in Int
    BY <1>1, <1>3, <2>1, SmallerOnes
  <2>3. g[x \div p] \o <<p>> \in Seq(Int)
    BY <2>2
  <2>4. (g[x \div p] \o <<p>>) \o g[x % p] \in Texts
    BY <2>2, <2>3, TextsJoin
  <2>5. ~ (x < 0)
    BY <1>3
  <2> QED BY <1>3, <2>1, <2>4, <2>5 DEF HelperTurn
<1>4. CASE x \in 0..99
  <2>1. ~ (x < 0) /\ ~ (x \geq 100)
    BY <1>4
  <2>2. CASE ~ Number!HasTens(x)
    <3>1. HelperTurn(x, g) = <<x>>
      BY <1>4, <2>1, <2>2, TensAndDigits DEF HelperTurn
    <3> QED BY <3>1 DEF Texts
  <2>3. CASE Number!HasTens(x)
    <3>1. PICK t1 : t1 = <<10 * (x \div 10)>>
      OBVIOUS
    <3>2. PICK t2 : t2 = IF x % 10 # 0 THEN <<x % 10>> ELSE << >>
      OBVIOUS
    <3>3. HelperTurn(x, g) = t1 \o t2
      BY <1>4, <2>1, <2>3, <3>1, <3>2, TensAndDigits DEF HelperTurn
    <3>4. t1 \in Seq(Int) /\ t1 # << >> /\ t2 \in Seq(Int)
      <4>1. 10 * (x \div 10) \in Int /\ x % 10 \in Int
        OBVIOUS
      <4> QED BY <3>1, <3>2, <4>1
    <3> QED BY <3>3, <3>4, TextsJoin
  <2> QED BY <2>2, <2>3
<1> QED BY <1>2, <1>3, <1>4

LEMMA TurnAsksSmaller ==
  ASSUME NEW g, NEW h, NEW x \in Int, \A y \in Int : SizeOf[y] < SizeOf[x] => g[y] = h[y]
  PROVE  HelperTurn(x, g) = HelperTurn(x, h)
<1>1. x < 0 => g[-x] = h[-x]
  BY SmallerOnes
<1>2. x \geq 100 => /\ g[x \div Number!PowerIn(x)] = h[x \div Number!PowerIn(x)]
                    /\ g[x % Number!PowerIn(x)] = h[x % Number!PowerIn(x)]
  BY SmallerOnes
<1> QED BY <1>1, <1>2 DEF HelperTurn

LEMMA HelperUnfold ==
  /\ Number!itoaaaHelper \in [Int -> Texts]
  /\ \A x \in Int : Number!itoaaaHelper[x] = HelperTurn(x, Number!itoaaaHelper)
<1>1. PICK Body : Body = [g \in [Int -> Texts] |-> [x \in Int |-> HelperTurn(x, g)]]
  OBVIOUS
<1>2. Body \in [[Int -> Texts] -> [Int -> Texts]]
  BY <1>1, TurnType
<1>3. \A g \in [Int -> Texts] : \A x \in Int : Body[g][x] = HelperTurn(x, g)
  BY <1>1
<1>4. SizeOf \in [Int -> Nat]
  BY DEF SizeOf
<1>5. [x \in Int |-> <<0>>] \in [Int -> Texts]
  BY DEF Texts
<1>6. PICK base : base = [x \in Int |-> <<0>>]
  OBVIOUS
<1>7. AsksSmaller(Int, Texts, SizeOf, base, Body)
  <2>1. \A g, h \in [Int -> Texts] : \A x \in Int :
          (\A y \in Int : SizeOf[y] < SizeOf[x] => g[y] = h[y]) => Body[g][x] = Body[h][x]
    BY <1>3, TurnAsksSmaller
  <2> QED BY <1>2, <1>6, <1>4, <1>5, <2>1 DEF AsksSmaller
<1>8. PICK f \in [Int -> Texts] : f = Body[f]
  BY <1>7, RecursionOverSize
<1> DEFINE Helper(g) == [x \in Int |->
             IF x < 0 THEN <<Number!Negative>> \o g[-x]
             ELSE IF \E p \in Number!Powers : Number!Goes(p, x)
             THEN LET p == Number!PowerIn(x)
                  IN  g[x \div p] \o <<p>> \o g[x % p]
             ELSE IF Number!HasTens(x)
             THEN <<Number!tens[x \div 10]>> \o IF x % 10 # 0 THEN <<Number!digits[x % 10]>> ELSE << >>
             ELSE <<Number!digits[x]>>]
           helper == CHOOSE g : g = Helper(g)
<1>9. Number!itoaaaHelper = helper
  BY DEF Number!itoaaaHelper
<1>10. \A g : \A x \in Int : Helper(g)[x] = HelperTurn(x, g)
  <2> TAKE g
  <2> TAKE x \in Int
  <2>1. CASE x < 0
    BY <2>1 DEF HelperTurn
  <2>2. CASE ~ (x < 0)
    <3>1. (\E p \in Number!Powers : Number!Goes(p, x)) <=> x \geq 100
      <4>1. x \in Nat
        BY <2>2
      <4> QED BY <4>1, HundredGoes
    <3> QED BY <2>2, <3>1 DEF HelperTurn
  <2> QED BY <2>1, <2>2
<1>11. \A g : Helper(g) = [x \in Int |-> Helper(g)[x]]
  OBVIOUS
<1> HIDE DEF Helper
<1>12. \E g : g = Helper(g)
  <2>1. f = [x \in Int |-> HelperTurn(x, f)]
    BY <1>1, <1>8
  <2>2. Helper(f) = [x \in Int |-> HelperTurn(x, f)]
    BY <1>10, <1>11
  <2> QED BY <2>1, <2>2
<1>13. helper = Helper(helper)
  BY <1>12
<1> HIDE DEF helper
<1>14. helper = [x \in Int |-> helper[x]] /\ \A x \in Int : helper[x] = HelperTurn(x, helper)
  BY <1>10, <1>11, <1>13
<1>15. \A x \in Int : f[x] = HelperTurn(x, f)
  BY <1>3, <1>8
<1> DEFINE Differ == {k \in Nat : \E x \in Int : SizeOf[x] = k /\ helper[x] # f[x]}
<1>16. Differ = {}
  <2> SUFFICES ASSUME Differ # {} PROVE FALSE
    OBVIOUS
  <2>1. Differ \in SUBSET Nat
    OBVIOUS
  <2>2. PICK k \in Differ : \A l \in Differ : k \leq l
    <3> HIDE DEF Differ
    <3> QED BY <2>1, LeastNatural
  <2>3. PICK x \in Int : SizeOf[x] = k /\ helper[x] # f[x]
    BY <2>2
  <2>4. ASSUME NEW y \in Int, SizeOf[y] < SizeOf[x]
        PROVE  helper[y] = f[y]
    <3>1. SizeOf[y] \in Nat /\ SizeOf[x] \in Nat
      BY <1>4
    <3>2. SizeOf[y] \notin Differ
      <4>1. ~ (k \leq SizeOf[y])
        BY <2>3, <2>4, <3>1
      <4> HIDE DEF Differ
      <4> QED BY <2>2, <4>1
    <3> QED BY <3>1, <3>2
  <2>5. HelperTurn(x, helper) = HelperTurn(x, f)
    BY <2>4, TurnAsksSmaller
  <2> QED BY <1>14, <1>15, <2>3, <2>5
<1>17. \A x \in Int : helper[x] = f[x]
  <2> SUFFICES ASSUME NEW x \in Int PROVE helper[x] = f[x]
    OBVIOUS
  <2>1. SizeOf[x] \in Nat
    BY <1>4
  <2> QED BY <1>16, <2>1
<1>18. helper = f
  BY <1>14, <1>17
<1> QED BY <1>9, <1>14, <1>18, <1>8

(* A reader goes through a text word by word.                              *)
Readers == [sum : Int, group : Int]

At(a, b) == [sum |-> a, group |-> b]

Hears(text, h, h2) ==
  \E st \in [0..Len(text) -> Readers] :
    /\ st[0] = h /\ st[Len(text)] = h2
    /\ \A k \in 1..Len(text) : st[k] = Number!Hear(st[k - 1], text[k])

LEMMA SmallMeans ==
  ASSUME NEW a \in Int, NEW b \in Int, NEW w \in Nat, w < 100, NEW c, c = b + w
  PROVE  Number!Hear(At(a, b), w) = At(a, c)
<1>1. w \notin {100, 1000, 1000000, 1000000000, Number!Zero, Number!Negative}
  BY DEF Number!Zero, Number!Negative
<1> QED BY <1>1 DEF At, Number!Hear, Number!NoWord

LEMMA HundredMeans ==
  ASSUME NEW a \in Int, NEW b \in Int, NEW c, c = b * 100
  PROVE  Number!Hear(At(a, b), 100) = At(a, c)
<1> QED BY DEF At, Number!Hear, Number!NoWord, Number!Zero, Number!Negative

LEMMA PowerMeans ==
  ASSUME NEW a \in Int, NEW b \in Int, NEW p \in Number!Powers \ {100}, NEW c, c = a + b * p
  PROVE  Number!Hear(At(a, b), p) = At(c, 0)
<1>1. p \in {1000, 1000000, 1000000000} /\ p \notin {100, Number!NoWord, Number!Zero, Number!Negative}
  BY DEF Number!Powers, Number!Zero, Number!Negative, Number!NoWord
<1> QED BY <1>1 DEF At, Number!Hear

LEMMA SignMeans ==
  ASSUME NEW h, NEW w \in {Number!Zero, Number!Negative}
  PROVE  Number!Hear(h, w) = h
<1> QED BY DEF Number!Hear

LEMMA HearsWord ==
  ASSUME NEW w, NEW h \in Readers, Number!Hear(h, w) \in Readers
  PROVE  Hears(<<w>>, h, Number!Hear(h, w))
<1>1. PICK text : text = <<w>>
  OBVIOUS
<1>2. Len(text) = 1 /\ text[1] = w
  BY <1>1
<1>3. PICK st : st = [k \in 0..1 |-> IF k = 0 THEN h ELSE Number!Hear(h, w)]
  OBVIOUS
<1>4. st \in [0..1 -> Readers] /\ st[0] = h /\ st[1] = Number!Hear(h, w)
  BY <1>3
<1>5. \A k \in 1..1 : st[k] = Number!Hear(st[k - 1], text[k])
  BY <1>2, <1>4
<1>6. Hears(text, h, Number!Hear(h, w))
  BY <1>2, <1>4, <1>5 DEF Hears
<1> QED BY <1>1, <1>6

LEMMA HearsBoth ==
  ASSUME NEW s1 \in Seq(Int), NEW t1 \in Seq(Int), NEW h1, NEW h2, NEW h3,
         Hears(s1, h1, h2), Hears(t1, h2, h3)
  PROVE  Hears(s1 \o t1, h1, h3)
<1>1. PICK m \in Nat, l \in Nat : m = Len(s1) /\ l = Len(t1)
  OBVIOUS
<1>2. PICK both \in Seq(Int) : both = s1 \o t1
  BY ConcatProperties
<1>3. /\ Len(both) = m + l
      /\ \A k \in 1..m : both[k] = s1[k]
      /\ \A k \in (m + 1)..(m + l) : both[k] = t1[k - m]
  BY <1>1, <1>2, ConcatProperties
<1>4. PICK st \in [0..m -> Readers] :
        st[0] = h1 /\ st[m] = h2 /\ \A k \in 1..m : st[k] = Number!Hear(st[k - 1], s1[k])
  BY <1>1 DEF Hears
<1>5. PICK su \in [0..l -> Readers] :
        su[0] = h2 /\ su[l] = h3 /\ \A k \in 1..l : su[k] = Number!Hear(su[k - 1], t1[k])
  BY <1>1 DEF Hears
<1>6. PICK sv : sv = [k \in 0..(m + l) |-> IF k \leq m THEN st[k] ELSE su[k - m]]
  OBVIOUS
<1>7. /\ \A k \in 0..m : sv[k] = st[k]
      /\ \A k \in m..(m + l) : sv[k] = su[k - m]
  <2>1. \A k \in 0..m : k \in 0..(m + l) /\ k \leq m
    OBVIOUS
  <2>2. ASSUME NEW k \in m..(m + l) PROVE sv[k] = su[k - m]
    <3>1. k \in 0..(m + l) /\ (k \leq m => k = m /\ k - m = 0)
      OBVIOUS
    <3> QED BY <1>4, <1>5, <1>6, <3>1
  <2> QED BY <1>6, <2>1, <2>2
<1>8. sv \in [0..(m + l) -> Readers]
  <2>1. \A k \in 0..(m + l) : sv[k] \in Readers
    BY <1>4, <1>5, <1>6
  <2> QED BY <1>6, <2>1
<1>9. sv[0] = h1 /\ sv[m + l] = h3
  <2>1. 0 \in 0..m /\ m + l \in m..(m + l) /\ (m + l) - m = l
    OBVIOUS
  <2> QED BY <1>4, <1>5, <1>7, <2>1
<1>10. ASSUME NEW k \in 1..(m + l)
       PROVE  sv[k] = Number!Hear(sv[k - 1], both[k])
  <2>1. CASE k \leq m
    <3>1. k \in 0..m /\ k - 1 \in 0..m /\ k \in 1..m
      BY <2>1
    <3> QED BY <1>3, <1>4, <1>7, <3>1
  <2>2. CASE ~ (k \leq m)
    <3>1. k \in m..(m + l) /\ k - 1 \in m..(m + l) /\ k \in (m + 1)..(m + l)
          /\ k - m \in 1..l /\ (k - 1) - m = (k - m) - 1
      BY <2>2
    <3> QED BY <1>3, <1>5, <1>7, <3>1
  <2> QED BY <2>1, <2>2
<1>11. Hears(both, h1, h3)
  BY <1>3, <1>8, <1>9, <1>10 DEF Hears
<1> QED BY <1>2, <1>11

LEMMA WhatIsHeard ==
  ASSUME NEW text \in Seq(Int), NEW h, Hears(text, At(0, 0), h)
  PROVE  Number!Heard(text) = (h.sum + h.group) * (IF Head(text) = Number!Negative THEN -1 ELSE 1)
<1>1. PICK m \in Nat : m = Len(text)
  OBVIOUS
<1>2. PICK st \in [0..m -> Readers] :
        st[0] = At(0, 0) /\ st[m] = h /\ \A k \in 1..m : st[k] = Number!Hear(st[k - 1], text[k])
  BY <1>1 DEF Hears
<1> DEFINE Turn(g) == [k \in 0..m |-> IF k = 0 THEN [sum |-> 0, group |-> 0]
                                      ELSE Number!Hear(g[k - 1], text[k])]
           heard == CHOOSE g : g = Turn(g)
<1>3. st = Turn(st)
  <2>1. ASSUME NEW k \in 0..m PROVE st[k] = Turn(st)[k]
    <3>1. k = 0 \/ k \in 1..m
      OBVIOUS
    <3> QED BY <1>2, <3>1 DEF At
  <2>2. st = [k \in 0..m |-> st[k]] /\ Turn(st) = [k \in 0..m |-> Turn(st)[k]]
    BY <1>2
  <2> HIDE DEF Turn
  <2> QED BY <2>1, <2>2
<1>4. heard = Turn(heard)
  <2> HIDE DEF Turn
  <2> QED BY <1>3
<1>5. Number!Heard(text) = (heard[m].sum + heard[m].group) * (IF Head(text) = Number!Negative THEN -1 ELSE 1)
  BY <1>1 DEF Number!Heard
<1> HIDE DEF heard
<1>6. /\ heard[0] = [sum |-> 0, group |-> 0]
      /\ \A k \in 1..m : heard[k] = Number!Hear(heard[k - 1], text[k])
  <2>1. \A k \in 0..m : heard[k] = IF k = 0 THEN [sum |-> 0, group |-> 0] ELSE Number!Hear(heard[k - 1], text[k])
    BY <1>4
  <2>2. 0 \in 0..m /\ \A k \in 1..m : k \in 0..m /\ k # 0
    OBVIOUS
  <2> QED BY <2>1, <2>2
<1> DEFINE Same == {k \in Nat : k \leq m => heard[k] = st[k]}
<1>7. Nat \subseteq Same
  <2>1. 0 \in Same
    BY <1>2, <1>6 DEF At
  <2>2. ASSUME NEW k \in Nat, k \in Same PROVE k + 1 \in Same
    <3>1. CASE k + 1 \leq m
      <4>1. k + 1 \in 1..m /\ (k + 1) - 1 = k /\ heard[k] = st[k]
        BY <2>2, <3>1
      <4>2. heard[k + 1] = st[k + 1]
        BY <1>2, <1>6, <4>1
      <4> QED BY <4>2
    <3>2. CASE ~ (k + 1 \leq m)
      BY <3>2
    <3> QED BY <3>1, <3>2
  <2> HIDE DEF Same
  <2> QED BY <2>1, <2>2, AllNumbers
<1>8. heard[m] = h
  BY <1>2, <1>7
<1> QED BY <1>5, <1>8

(* Up to ninety-nine; with hundreds; with the powers behind which the      *)
(* reader starts anew.                                                     *)
Name(x) == Number!itoaaaHelper[x]

Said(x) ==
  \A a \in Int : \E h \in Readers : Hears(Name(x), At(a, 0), h) /\ h.sum + h.group = a + x

LEMMA WordSaid ==
  ASSUME NEW w \in Nat, w < 100, NEW a \in Int, NEW b \in Int, NEW c \in Int, c = b + w
  PROVE  Hears(<<w>>, At(a, b), At(a, c))
<1>1. At(a, b) \in Readers /\ At(a, c) \in Readers
  BY DEF At, Readers
<1>2. Number!Hear(At(a, b), w) = At(a, c)
  BY SmallMeans
<1>3. Hears(<<w>>, At(a, b), Number!Hear(At(a, b), w))
  BY <1>1, <1>2, HearsWord
<1> QED BY <1>2, <1>3

LEMMA SmallSaid ==
  ASSUME NEW x \in Nat, x < 100, NEW a \in Int, NEW b \in Int, NEW c \in Int, c = b + x
  PROVE  Hears(Name(x), At(a, b), At(a, c))
<1>1. Name(x) = HelperTurn(x, Number!itoaaaHelper)
  BY HelperUnfold DEF Name
<1>2. ~ (x < 0) /\ ~ (x \geq 100) /\ x \in 0..99
  OBVIOUS
<1>3. CASE ~ Number!HasTens(x)
  <2>1. Name(x) = <<x>>
    BY <1>1, <1>2, <1>3, TensAndDigits DEF HelperTurn
  <2>2. Hears(<<x>>, At(a, b), At(a, c))
    BY WordSaid
  <2> QED BY <2>1, <2>2
<1>4. CASE Number!HasTens(x)
  <2>1. PICK t, d : t = 10 * (x \div 10) /\ d = x % 10
    OBVIOUS
  <2>2. t \in Nat /\ t < 100 /\ d \in Nat /\ d < 100 /\ t + d = x
    <3>1. x \div 10 \in 2..9 /\ x % 10 \in 0..9 /\ 10 * (x \div 10) + (x % 10) = x
      BY <1>2, <1>4, TensAndDigits
    <3> QED BY <2>1, <3>1
  <2>3. Name(x) = <<t>> \o IF d # 0 THEN <<d>> ELSE << >>
    <3>1. Number!tens[x \div 10] = t /\ (d # 0 => Number!digits[x % 10] = d)
      BY <1>2, <1>4, <2>1, TensAndDigits
    <3> QED BY <1>1, <1>2, <1>4, <2>1, <3>1 DEF HelperTurn
  <2>4. PICK m \in Int : m = b + t /\ c = m + d
    BY <2>2
  <2>5. Hears(<<t>>, At(a, b), At(a, m))
    BY <2>2, <2>4, WordSaid
  <2>6. CASE d = 0
    <3>1. Name(x) = <<t>>
      BY <2>3, <2>6
    <3>2. m = c
      BY <2>4, <2>6
    <3> QED BY <2>5, <3>1, <3>2
  <2>7. CASE d # 0
    <3>1. Hears(<<d>>, At(a, m), At(a, c))
      BY <2>2, <2>4, WordSaid
    <3>2. <<t>> \in Seq(Int) /\ <<d>> \in Seq(Int)
      BY <2>2
    <3>3. Hears(<<t>> \o <<d>>, At(a, b), At(a, c))
      BY <2>5, <3>1, <3>2, HearsBoth
    <3>4. Name(x) = <<t>> \o <<d>>
      BY <2>3, <2>7
    <3> QED BY <3>3, <3>4
  <2> QED BY <2>6, <2>7
<1> QED BY <1>3, <1>4

LEMMA PowerSaid ==
  ASSUME NEW x \in Nat, x \geq 100, NEW h1, NEW h2 \in Readers, NEW h3,
         Hears(Name(x \div Number!PowerIn(x)), h1, h2),
         Number!Hear(h2, Number!PowerIn(x)) \in Readers,
         Hears(Name(x % Number!PowerIn(x)), Number!Hear(h2, Number!PowerIn(x)), h3)
  PROVE  Hears(Name(x), h1, h3)
<1>1. PICK p \in Int : p = Number!PowerIn(x)
  BY SmallerOnes
<1>2. PICK before, behind : before = Name(x \div p) /\ behind = Name(x % p)
  OBVIOUS
<1>3. before \in Seq(Int) /\ behind \in Seq(Int) /\ <<p>> \in Seq(Int)
  <2>1. x \div p \in Int /\ x % p \in Int
    BY <1>1, SmallerOnes
  <2>2. \A y \in Int : Name(y) \in Seq(Int)
    BY HelperUnfold DEF Name, Texts
  <2>3. <<p>> \in Seq(Int)
    OBVIOUS
  <2> QED BY <1>2, <2>1, <2>2, <2>3
<1>4. Name(x) = (before \o <<p>>) \o behind
  <2>1. ~ (x < 0)
    OBVIOUS
  <2>2. Name(x) = HelperTurn(x, Number!itoaaaHelper)
    BY HelperUnfold DEF Name
  <2>3. /\ before = Number!itoaaaHelper[x \div Number!PowerIn(x)]
        /\ behind = Number!itoaaaHelper[x % Number!PowerIn(x)]
    BY <1>1, <1>2 DEF Name
  <2> QED BY <1>1, <2>1, <2>2, <2>3 DEF HelperTurn
<1>5. Hears(<<p>>, h2, Number!Hear(h2, p))
  BY <1>1, HearsWord
<1>6. before \o <<p>> \in Seq(Int)
  BY <1>3, ConcatProperties
<1>7. Hears(before, h1, h2) /\ Hears(behind, Number!Hear(h2, p), h3)
  BY <1>1, <1>2
<1>8. Hears(before \o <<p>>, h1, Number!Hear(h2, p))
  BY <1>3, <1>5, <1>7, HearsBoth
<1>9. Hears((before \o <<p>>) \o behind, h1, h3)
  BY <1>3, <1>6, <1>7, <1>8, HearsBoth
<1> QED BY <1>4, <1>9

LEMMA PowerIs ==
  ASSUME NEW x \in Nat
  PROVE  /\ x \geq 100 /\ x < 1000 => Number!PowerIn(x) = 100
         /\ x \geq 1000 /\ x < 1000000 => Number!PowerIn(x) = 1000
         /\ x \geq 1000000 /\ x < 1000000000 => Number!PowerIn(x) = 1000000
         /\ x \geq 1000000000 => Number!PowerIn(x) = 1000000000
<1> SUFFICES ASSUME x \geq 100
             PROVE  /\ x \geq 100 /\ x < 1000 => Number!PowerIn(x) = 100
                    /\ x \geq 1000 /\ x < 1000000 => Number!PowerIn(x) = 1000
                    /\ x \geq 1000000 /\ x < 1000000000 => Number!PowerIn(x) = 1000000
                    /\ x \geq 1000000000 => Number!PowerIn(x) = 1000000000
  OBVIOUS
<1>1. PICK p : p = Number!PowerIn(x)
  OBVIOUS
<1>2. p \in Number!Powers /\ p \leq x /\ \A q \in Number!Powers : q > p => x < q
  BY <1>1, LargestPower
<1> QED BY <1>1, <1>2 DEF Number!Powers

LEMMA HundredsSaid ==
  ASSUME NEW x \in Nat, x < 1000, NEW a \in Int
  PROVE  Hears(Name(x), At(a, 0), At(a, x))
<1>1. CASE x < 100
  BY <1>1, SmallSaid
<1>2. CASE x \geq 100
  <2>1. Number!PowerIn(x) = 100
    BY <1>2, PowerIs
  <2>2. x \div 100 \in Nat /\ x \div 100 < 100 /\ x % 100 \in Nat /\ x % 100 < 100
        /\ (x \div 100) * 100 + (x % 100) = x
    OBVIOUS
  <2>3. PICK d, r1 : d = x \div 100 /\ r1 = x % 100
    OBVIOUS
  <2>4. d \in Nat /\ d < 100 /\ r1 \in Nat /\ r1 < 100
    BY <2>2, <2>3
  <2>5. PICK m \in Int : m = d * 100 /\ x = m + r1
    BY <2>2, <2>3, <2>4
  <2>6. Hears(Name(d), At(a, 0), At(a, d))
    BY <2>4, SmallSaid
  <2>7. Number!Hear(At(a, d), 100) = At(a, m)
    BY <2>4, <2>5, HundredMeans
  <2>8. Hears(Name(r1), At(a, m), At(a, x))
    BY <2>4, <2>5, SmallSaid
  <2>9. At(a, d) \in Readers /\ At(a, m) \in Readers
    BY <2>4 DEF At, Readers
  <2>10. /\ Hears(Name(x \div Number!PowerIn(x)), At(a, 0), At(a, d))
         /\ Number!Hear(At(a, d), Number!PowerIn(x)) = At(a, m)
         /\ Hears(Name(x % Number!PowerIn(x)), At(a, m), At(a, x))
    BY <2>1, <2>3, <2>6, <2>7, <2>8
  <2> QED BY <1>2, <2>9, <2>10, PowerSaid
<1> QED BY <1>1, <1>2

LEMMA LargeSaid ==
  ASSUME NEW x \in Nat, x \geq 1000,
         x \div Number!PowerIn(x) \in Nat, x \div Number!PowerIn(x) < 1000, Said(x % Number!PowerIn(x))
  PROVE  Said(x)
<1> SUFFICES ASSUME NEW a \in Int
             PROVE  \E h \in Readers : Hears(Name(x), At(a, 0), h) /\ h.sum + h.group = a + x
  BY DEF Said
<1>1. PICK p, d, r1 : p = Number!PowerIn(x) /\ d = x \div p /\ r1 = x % p
  OBVIOUS
<1>2. x = p * d + r1 /\ r1 \in Int /\ p \in Nat /\ d \in Nat /\ d < 1000
  <2>1. p \in Number!Powers /\ p \leq x
    BY <1>1, LargestPower
  <2>2. Number!Goes(p, x)
    BY <2>1, PowersGo
  <2>3. r1 \in Nat /\ x = p * d + r1
    BY <1>1, <2>1, <2>2, PowerSplits
  <2>4. p \in Nat
    BY <2>1 DEF Number!Powers
  <2>5. d \in Nat /\ d < 1000
    BY <1>1
  <2> QED BY <2>3, <2>4, <2>5
<1>3. d \in Nat /\ d < 1000 /\ d \in Int /\ r1 \in Int
  BY <1>2
<1>4. PICK b \in Int : b = a + d * p /\ b + r1 = a + x
  BY <1>2
<1>5. Hears(Name(d), At(a, 0), At(a, d))
  BY <1>3, HundredsSaid
<1>6. Number!Hear(At(a, d), p) = At(b, 0)
  <2>1. p \in Number!Powers /\ p # 100
    <3>1. p \in Number!Powers /\ \A q \in Number!Powers : q > p => x < q
      BY <1>1, LargestPower
    <3>2. 1000 \in Number!Powers
      BY DEF Number!Powers
    <3> QED BY <3>1, <3>2
  <2> QED BY <1>3, <1>4, <2>1, PowerMeans
<1>7. PICK h \in Readers : Hears(Name(r1), At(b, 0), h) /\ h.sum + h.group = b + r1
  BY <1>1, <1>4 DEF Said
<1>8. At(a, d) \in Readers /\ At(b, 0) \in Readers
  BY <1>3 DEF At, Readers
<1>9. Hears(Name(x), At(a, 0), h)
  <2>1. /\ Hears(Name(x \div Number!PowerIn(x)), At(a, 0), At(a, d))
        /\ Number!Hear(At(a, d), Number!PowerIn(x)) = At(b, 0)
        /\ Hears(Name(x % Number!PowerIn(x)), At(b, 0), h)
    BY <1>1, <1>5, <1>6, <1>7
  <2> QED BY <1>8, <2>1, PowerSaid
<1> QED BY <1>4, <1>7, <1>9

LEMMA EachIsSaid ==
  ASSUME NEW x \in Nat, x \leq 2147483647
  PROVE  Said(x)
<1>1. ASSUME NEW y \in Nat, y < 1000
      PROVE  Said(y)
  <2> SUFFICES ASSUME NEW a \in Int
               PROVE  \E h \in Readers : Hears(Name(y), At(a, 0), h) /\ h.sum + h.group = a + y
    BY DEF Said
  <2>1. Hears(Name(y), At(a, 0), At(a, y))
    BY <1>1, HundredsSaid
  <2>2. At(a, y) \in Readers /\ At(a, y).sum + At(a, y).group = a + y
    BY DEF At, Readers
  <2> QED BY <2>1, <2>2
<1>2. ASSUME NEW y \in Nat, y < 1000000
      PROVE  Said(y)
  <2>1. CASE y \geq 1000
    <3>1. y \div 1000 \in Nat /\ y \div 1000 < 1000 /\ y % 1000 \in Nat /\ y % 1000 < 1000
      BY <1>2, <2>1
    <3>2. Number!PowerIn(y) = 1000
      BY <1>2, <2>1, PowerIs
    <3> QED BY <1>1, <3>1, <3>2, LargeSaid
  <2> QED BY <1>1, <2>1
<1>3. ASSUME NEW y \in Nat, y < 1000000000
      PROVE  Said(y)
  <2>1. CASE y \geq 1000000
    <3>1. y \div 1000000 \in Nat /\ y \div 1000000 < 1000 /\ y % 1000000 \in Nat /\ y % 1000000 < 1000000
      BY <1>3, <2>1
    <3>2. Number!PowerIn(y) = 1000000
      BY <1>3, <2>1, PowerIs
    <3> QED BY <1>2, <3>1, <3>2, LargeSaid
  <2> QED BY <1>2, <2>1
<1>4. CASE x \geq 1000000000
  <2>1. x \div 1000000000 \in Nat /\ x \div 1000000000 < 1000 /\ x % 1000000000 \in Nat /\ x % 1000000000 < 1000000000
    BY <1>4
  <2>2. Number!PowerIn(x) = 1000000000
    BY <1>4, PowerIs
  <2> QED BY <1>3, <2>1, <2>2, LargeSaid
<1> QED BY <1>3, <1>4

(* No name of a number that is not negative begins with the word of one.   *)
LEMMA HeadOfJoined ==
  ASSUME NEW s1 \in Texts, NEW t1 \in Seq(Int)
  PROVE  Head(s1 \o t1) = Head(s1)
<1>1. s1 \in Seq(Int) /\ s1 # << >>
  BY DEF Texts
<1>2. Len(s1) \in Nat /\ Len(s1) # 0
  BY <1>1, EmptySeq
<1>3. (s1 \o t1)[1] = s1[1]
  <2>1. 1 \in 1..Len(s1)
    BY <1>2
  <2> QED BY <1>1, <2>1, ConcatProperties
<1>4. PICK both \in Seq(Int) : both = s1 \o t1
  BY <1>1, ConcatProperties
<1>5. Head(both) = both[1] /\ Head(s1) = s1[1]
  OBVIOUS
<1> QED BY <1>3, <1>4, <1>5

Bare(text) == text \in Texts /\ Head(text) # Number!Negative

LEMMA WordIsBare ==
  ASSUME NEW w \in Nat, NEW t1 \in Seq(Int)
  PROVE  Bare(<<w>>) /\ Bare(<<w>> \o t1)
<1>1. PICK word : word = <<w>>
  OBVIOUS
<1>2. word \in Texts
  BY <1>1 DEF Texts
<1>3. Head(word) = w
  BY <1>1
<1>4. w # Number!Negative
  BY DEF Number!Negative
<1>5. word \in Seq(Int) /\ word # << >>
  BY <1>2 DEF Texts
<1>6. word \o t1 \in Texts
  BY <1>5, TextsJoin
<1>7. Head(word \o t1) = w
  BY <1>2, <1>3, HeadOfJoined
<1> QED BY <1>1, <1>2, <1>3, <1>4, <1>6, <1>7 DEF Bare

LEMMA SmallNameIsBare ==
  ASSUME NEW x \in Nat, x < 100
  PROVE  Bare(Name(x))
<1>1. Name(x) = HelperTurn(x, Number!itoaaaHelper)
  BY HelperUnfold DEF Name
<1>2. ~ (x < 0) /\ ~ (x \geq 100) /\ x \in 0..99
  OBVIOUS
<1>3. << >> \in Seq(Int)
  OBVIOUS
<1>4. CASE ~ Number!HasTens(x)
  <2>1. Name(x) = <<x>>
    BY <1>1, <1>2, <1>4, TensAndDigits DEF HelperTurn
  <2> QED BY <1>3, <2>1, WordIsBare
<1>5. CASE Number!HasTens(x)
  <2>1. PICK t \in Nat, d \in Nat : t = 10 * (x \div 10) /\ d = x % 10
    BY <1>2, <1>5, TensAndDigits
  <2>2. PICK behind \in Seq(Int) : behind = IF d # 0 THEN <<d>> ELSE << >>
    <3>1. <<d>> \in Seq(Int)
      OBVIOUS
    <3> QED BY <1>3, <3>1
  <2>3. Name(x) = <<t>> \o behind
    <3>1. Number!tens[x \div 10] = t /\ (d # 0 => Number!digits[x % 10] = d)
      BY <1>2, <1>5, <2>1, TensAndDigits
    <3> QED BY <1>1, <1>2, <1>5, <2>1, <2>2, <3>1 DEF HelperTurn
  <2> QED BY <2>3, WordIsBare
<1> QED BY <1>4, <1>5

LEMMA LargeNameIsBare ==
  ASSUME NEW x \in Nat, x \geq 100, Bare(Name(x \div Number!PowerIn(x)))
  PROVE  Bare(Name(x))
<1>1. PICK p \in Int : p = Number!PowerIn(x)
  BY SmallerOnes
<1>2. PICK before, behind : before = Name(x \div p) /\ behind = Name(x % p)
  OBVIOUS
<1>3. before \in Seq(Int) /\ behind \in Seq(Int) /\ <<p>> \in Seq(Int)
  <2>1. x \div p \in Int /\ x % p \in Int
    BY <1>1, SmallerOnes
  <2>2. \A y \in Int : Name(y) \in Seq(Int)
    BY HelperUnfold DEF Name, Texts
  <2>3. <<p>> \in Seq(Int)
    OBVIOUS
  <2> QED BY <1>2, <2>1, <2>2, <2>3
<1>4. Name(x) = (before \o <<p>>) \o behind
  <2>1. ~ (x < 0)
    OBVIOUS
  <2>2. Name(x) = HelperTurn(x, Number!itoaaaHelper)
    BY HelperUnfold DEF Name
  <2>3. /\ before = Number!itoaaaHelper[x \div Number!PowerIn(x)]
        /\ behind = Number!itoaaaHelper[x % Number!PowerIn(x)]
    BY <1>1, <1>2 DEF Name
  <2> QED BY <1>1, <2>1, <2>2, <2>3 DEF HelperTurn
<1>5. before \in Texts /\ Head(before) # Number!Negative
  BY <1>1, <1>2 DEF Bare
<1>6. before # << >>
  BY <1>5 DEF Texts
<1>7. before \o <<p>> \in Texts /\ Head(before \o <<p>>) = Head(before)
  BY <1>3, <1>5, <1>6, TextsJoin, HeadOfJoined
<1>8. before \o <<p>> \in Seq(Int) /\ before \o <<p>> # << >>
  BY <1>7 DEF Texts
<1>9. (before \o <<p>>) \o behind \in Texts /\ Head((before \o <<p>>) \o behind) = Head(before \o <<p>>)
  BY <1>3, <1>7, <1>8, TextsJoin, HeadOfJoined
<1> QED BY <1>4, <1>5, <1>7, <1>9 DEF Bare

LEMMA NamesAreBare ==
  ASSUME NEW x \in Nat
  PROVE  Bare(Name(x))
<1> DEFINE Wrong == {y \in Nat : ~ Bare(Name(y))}
<1> SUFFICES ASSUME Wrong # {} PROVE FALSE
  OBVIOUS
<1>1. PICK y \in Wrong : \A z \in Wrong : y \leq z
  <2>1. Wrong \in SUBSET Nat
    OBVIOUS
  <2> HIDE DEF Wrong
  <2> QED BY <2>1, LeastNatural
<1>2. y \in Nat /\ ~ Bare(Name(y))
  OBVIOUS
<1>3. y \geq 100
  BY <1>2, SmallNameIsBare
<1>4. PICK p : p = Number!PowerIn(y)
  OBVIOUS
<1>5. y \div p \in Nat /\ y \div p < y
  <2>1. p \in Number!Powers /\ p \leq y
    BY <1>2, <1>3, <1>4, LargestPower
  <2>2. Number!Goes(p, y)
    BY <1>2, <2>1, PowersGo
  <2> QED BY <1>2, <2>1, <2>2, PowerSplits
<1>6. Bare(Name(y \div p))
  <2>1. ~ (y \leq y \div p)
    BY <1>2, <1>5
  <2>2. y \div p \notin Wrong
    <3> HIDE DEF Wrong
    <3> QED BY <1>1, <2>1
  <2> QED BY <1>5, <2>2
<1> QED BY <1>2, <1>3, <1>4, <1>6, LargeNameIsBare

(* A text with the reader's last number is the number it says.             *)
LEMMA SaidIsHeard ==
  ASSUME NEW x \in Int, NEW magnitude \in Nat, x = magnitude \/ x = -magnitude, Said(magnitude)
  PROVE  Number!Heard(Number!itoaaa(x)) = x
<1>1. PICK h \in Readers : Hears(Name(magnitude), At(0, 0), h) /\ h.sum + h.group = magnitude
  <2>1. 0 \in Int /\ 0 + magnitude = magnitude
    OBVIOUS
  <2>2. PICK h \in Readers : Hears(Name(magnitude), At(0, 0), h) /\ h.sum + h.group = 0 + magnitude
    BY <2>1 DEF Said
  <2> QED BY <2>1, <2>2
<1>2. Name(magnitude) \in Seq(Int) /\ Name(magnitude) \in Texts /\ Head(Name(magnitude)) # Number!Negative
  BY NamesAreBare DEF Bare, Texts
<1>3. At(0, 0) \in Readers
  BY DEF At, Readers
<1>4. CASE x > 0
  <2>1. Number!itoaaa(x) = Name(magnitude)
    BY <1>4 DEF Number!itoaaa, Name
  <2>2. Number!Heard(Name(magnitude)) = (h.sum + h.group) * 1
    BY <1>1, <1>2, WhatIsHeard
  <2> QED BY <1>1, <1>4, <2>1, <2>2
<1>5. CASE x = 0
  <2>1. PICK text : text = <<Number!Zero>>
    OBVIOUS
  <2>2. Number!Hear(At(0, 0), Number!Zero) = At(0, 0)
    BY SignMeans
  <2>3. Hears(text, At(0, 0), At(0, 0))
    BY <1>3, <2>1, <2>2, HearsWord
  <2>4. text \in Seq(Int) /\ Number!itoaaa(x) = text
    BY <1>5, <2>1 DEF Number!itoaaa, Number!Zero
  <2>5. At(0, 0).sum + At(0, 0).group = 0
    BY DEF At
  <2>6. Number!Heard(text) = (At(0, 0).sum + At(0, 0).group) * (IF Head(text) = Number!Negative THEN -1 ELSE 1)
    BY <2>3, <2>4, WhatIsHeard
  <2>7. Number!Heard(text) = 0
    BY <2>5, <2>6
  <2> QED BY <1>5, <2>4, <2>7
<1>6. CASE x < 0
  <2>1. PICK sign : sign = <<Number!Negative>>
    OBVIOUS
  <2>2. sign \in Seq(Int) /\ sign \in Texts /\ Head(sign) = Number!Negative
    BY <2>1 DEF Texts, Number!Negative
  <2>3. Number!itoaaa(x) = sign \o Name(magnitude)
    <3>1. Number!itoaaa(x) = Name(x) /\ -x = magnitude
      BY <1>6 DEF Number!itoaaa, Name
    <3>2. Name(x) = HelperTurn(x, Number!itoaaaHelper)
      BY HelperUnfold DEF Name
    <3> QED BY <1>6, <2>1, <3>1, <3>2 DEF HelperTurn, Name
  <2>4. Number!Hear(At(0, 0), Number!Negative) = At(0, 0)
    BY SignMeans
  <2>5. Hears(sign, At(0, 0), At(0, 0))
    BY <1>3, <2>1, <2>4, HearsWord
  <2>6. Hears(sign \o Name(magnitude), At(0, 0), h)
    BY <1>1, <1>2, <2>2, <2>5, HearsBoth
  <2>7. sign \o Name(magnitude) \in Seq(Int) /\ Head(sign \o Name(magnitude)) = Number!Negative
    BY <1>2, <2>2, HeadOfJoined, ConcatProperties
  <2>8. Number!Heard(sign \o Name(magnitude)) = (h.sum + h.group) * (-1)
    BY <2>6, <2>7, WhatIsHeard
  <2> QED BY <1>1, <1>6, <2>3, <2>8
<1> QED BY <1>4, <1>5, <1>6

LEMMA EachTextIsHeard ==
  ASSUME NEW x \in Int, x \leq 2147483647, -x \leq 2147483647
  PROVE  Number!Heard(Number!itoaaa(x)) = x
<1>1. CASE x < 0
  <2>1. -x \in Nat /\ -x \leq 2147483647 /\ x = -(-x)
    BY <1>1
  <2> QED BY <2>1, EachIsSaid, SaidIsHeard
<1>2. CASE x \geq 0
  <2>1. x \in Nat
    BY <1>2
  <2> QED BY <2>1, EachIsSaid, SaidIsHeard
<1> QED BY <1>1, <1>2

(* Every number of 32 bits but the smallest is put into the words that say *)
(* it, for any set of numbers asked for (cp3-problem1.c:69-125).           *)
THEOREM NumbersAreSaid == AllSpec => []SaysTheNumber
<1>1. AllInit => SaysTheNumber
  BY DEF AllInit, Number!Init, SaysTheNumber, Number!SaysTheNumber
<1>2. SaysTheNumber /\ [AllNext]_allVars => SaysTheNumber'
  <2> SUFFICES ASSUME SaysTheNumber, [Number!Next]_answer PROVE SaysTheNumber'
    BY EachStep
  <2>1. CASE Number!Factorial
    <3>1. answer'.call = "factorial"
      BY <2>1 DEF Number!Factorial
    <3> QED BY <3>1 DEF SaysTheNumber, Number!SaysTheNumber
  <2>2. CASE Number!Say
    <3>1. PICK m \in Spoken :
            answer' = [call |-> "itoaaa", n |-> m, verdict |-> "none", text |-> Number!itoaaa(m)]
      BY <2>2 DEF Number!Say
    <3>2. m \in Int /\ m \leq 2147483647 /\ -m \leq 2147483647
      BY ExercisesAssumption DEF ExercisesAssumption
    <3>3. Number!Heard(Number!itoaaa(m)) = m
      BY <3>2, EachTextIsHeard
    <3>4. answer'.n = m /\ answer'.text = Number!itoaaa(m)
      BY <3>1
    <3>5. Number!Heard(answer'.text) = answer'.n
      BY <3>3, <3>4
    <3> QED BY <3>5 DEF SaysTheNumber, Number!SaysTheNumber
  <2>3. CASE answer' = answer
    BY <2>3 DEF SaysTheNumber, Number!SaysTheNumber
  <2> QED BY <2>1, <2>2, <2>3 DEF Number!Next
<1> QED BY <1>1, <1>2, PTL DEF AllSpec

-----------------------------------------------------------------------------
(* BitOps.  The powers of two exist and double, and outgrow the numbers.   *)
LEMMA PowersDouble ==
  /\ BitsOf!PowerOf2[0] = 1
  /\ \A k \in Nat : /\ BitsOf!PowerOf2[k] \in Nat
                     /\ BitsOf!PowerOf2[k] > k
                     /\ BitsOf!PowerOf2[k + 1] = 2 * BitsOf!PowerOf2[k]
<1>1. PICK Rule : Rule = [p \in Nat \X Nat |-> 2 * p[2]]
  OBVIOUS
<1>2. Rule \in [Nat \X Nat -> Nat]
  BY <1>1
<1>3. PICK f \in [Nat -> Nat] : f[0] = 1 /\ \A k \in Nat : f[k + 1] = 2 * f[k]
  <2>1. 1 \in Nat
    OBVIOUS
  <2>2. PICK f \in [Nat -> Nat] : Follows(f, 1, Rule)
    BY <1>2, <2>1, RecursionOverNat
  <2>3. \A k \in Nat : Rule[<<k, f[k]>>] = 2 * f[k]
    BY <1>1
  <2> QED BY <2>2, <2>3 DEF Follows
<1> DEFINE Doubling(g) == [k \in Nat |-> IF k = 0 THEN 1 ELSE 2 * g[k - 1]]
           power == CHOOSE g : g = Doubling(g)
<1>4. ASSUME NEW m \in Nat
      PROVE  f[m] = IF m = 0 THEN 1 ELSE 2 * f[m - 1]
  <2>1. CASE m # 0
    <3>1. m - 1 \in Nat /\ (m - 1) + 1 = m
      BY <2>1
    <3> QED BY <1>3, <2>1, <3>1
  <2> QED BY <1>3, <2>1
<1>5. f = Doubling(f)
  <2>1. f = [m \in Nat |-> f[m]]
    OBVIOUS
  <2> QED BY <1>4, <2>1
<1>6. power = Doubling(power)
  <2> HIDE DEF Doubling
  <2> QED BY <1>5
<1>7. BitsOf!PowerOf2 = power
  BY DEF BitsOf!PowerOf2
<1> HIDE DEF power
<1>8. ASSUME NEW m \in Nat
      PROVE  power[m] = IF m = 0 THEN 1 ELSE 2 * power[m - 1]
  BY <1>6
<1>9. power[0] = 1
  BY <1>8
<1>10. \A m \in Nat : power[m + 1] = 2 * power[m]
  <2>1. \A m \in Nat : m + 1 \in Nat /\ m + 1 # 0 /\ (m + 1) - 1 = m
    OBVIOUS
  <2> QED BY <1>8, <2>1
<1> DEFINE Small == {k \in Nat : ~ (power[k] \in Nat /\ power[k] > k)}
<1>11. Small = {}
  <2> SUFFICES ASSUME Small # {} PROVE FALSE
    OBVIOUS
  <2>1. PICK k \in Small : \A l \in Small : k \leq l
    <3>1. Small \in SUBSET Nat
      OBVIOUS
    <3> HIDE DEF Small
    <3> QED BY <3>1, LeastNatural
  <2>2. k \in Nat /\ k # 0
    BY <1>9, <2>1
  <2>3. k - 1 \in Nat /\ (k - 1) + 1 = k /\ ~ (k \leq k - 1)
    BY <2>2
  <2>4. k - 1 \notin Small
    <3> HIDE DEF Small
    <3> QED BY <2>1, <2>3
  <2>5. power[k - 1] \in Nat /\ power[k - 1] > k - 1
    BY <2>3, <2>4
  <2>6. power[k] = 2 * power[k - 1]
    BY <1>10, <2>3
  <2>7. power[k] \in Nat /\ power[k] > k
    BY <2>2, <2>5, <2>6
  <2> QED BY <2>1, <2>7
<1> QED BY <1>7, <1>9, <1>10, <1>11

(* What \div gives.                                                        *)
LEMMA QuotientIs ==
  ASSUME NEW x \in Int, NEW d \in Nat \ {0}, NEW q \in Int, d * q \leq x, x < d * q + d
  PROVE  x \div d = q
<1>1. PICK e \in Int : e = x \div d
  OBVIOUS
<1>2. PICK m \in Int : m = d * e
  OBVIOUS
<1>3. m \leq x /\ x < m + d
  BY <1>1, <1>2
<1>4. d * (e - q) < d /\ d * (q - e) < d
  <2>1. d * (e - q) = d * e - d * q /\ d * (q - e) = d * q - d * e
    BY SMT
  <2>2. PICK l \in Int : l = d * q
    OBVIOUS
  <2> QED BY <1>2, <1>3, <2>1, <2>2
<1>5. ASSUME NEW a \in Int, d * a < d
      PROVE  a < 1
  <2> SUFFICES ASSUME a \geq 1 PROVE FALSE
    OBVIOUS
  <2>1. d * a \geq d * 1
    OBVIOUS
  <2> QED BY <1>5, <2>1
<1>6. e - q < 1 /\ q - e < 1
  BY <1>4, <1>5
<1> QED BY <1>1, <1>6

LEMMA HalveThenDivide ==
  ASSUME NEW x \in Int, NEW d \in Nat \ {0}
  PROVE  x \div (2 * d) = (x \div 2) \div d
<1>1. PICK y \in Int : y = x \div 2
  OBVIOUS
<1>2. PICK q \in Int : q = y \div d
  OBVIOUS
<1>3. PICK m \in Int : m = d * q
  OBVIOUS
<1>4. m \leq y /\ y < m + d
  BY <1>2, <1>3
<1>5. 2 * m \leq x /\ x < 2 * m + 2 * d
  BY <1>1, <1>4
<1>6. (2 * d) * q = 2 * m
  <2>1. (2 * d) * q = 2 * (d * q)
    OBVIOUS
  <2> QED BY <1>3, <2>1
<1>7. 2 * d \in Nat \ {0}
  OBVIOUS
<1>8. x \div (2 * d) = q
  BY <1>5, <1>6, <1>7, QuotientIs
<1> QED BY <1>1, <1>2, <1>8

(* The bits of a number: the last one, and the others as those of its half. *)
BitsIn == [x \in Int |-> [k \in Nat |-> BitsOf!Bit(x, k)]]

LEMMA BitsOfHalf ==
  ASSUME NEW x \in Int
  PROVE  /\ BitsIn[x][0] = x % 2
         /\ \A k \in Nat : /\ BitsIn[x][k] \in {0, 1}
                            /\ BitsIn[x][k] = BitsOf!Bit(x, k)
                            /\ BitsIn[x][k + 1] = BitsIn[x \div 2][k]
<1>1. ASSUME NEW z \in Int, NEW k \in Nat
      PROVE  BitsIn[z][k] = (z \div BitsOf!PowerOf2[k]) % 2 /\ BitsIn[z][k] = BitsOf!Bit(z, k)
  BY DEF BitsIn, BitsOf!Bit
<1>2. BitsIn[x][0] = x % 2
  <2>1. x \div 1 = x
    OBVIOUS
  <2>2. BitsIn[x][0] = (x \div BitsOf!PowerOf2[0]) % 2
    BY <1>1
  <2> QED BY <2>1, <2>2, PowersDouble
<1>3. ASSUME NEW k \in Nat
      PROVE  BitsIn[x][k] \in {0, 1} /\ BitsIn[x][k + 1] = BitsIn[x \div 2][k]
  <2>1. PICK d \in Nat \ {0} : d = BitsOf!PowerOf2[k]
    BY PowersDouble
  <2>2. BitsOf!PowerOf2[k + 1] = 2 * d
    BY <2>1, PowersDouble
  <2>3. BitsIn[x][k] \in {0, 1}
    <3>1. PICK e \in Int : e = x \div d
      OBVIOUS
    <3>2. e % 2 \in {0, 1}
      OBVIOUS
    <3> QED BY <1>1, <2>1, <3>1, <3>2
  <2>4. k + 1 \in Nat /\ x \div 2 \in Int
    OBVIOUS
  <2>5. BitsIn[x][k + 1] = (x \div (2 * d)) % 2
    BY <1>1, <2>2, <2>4
  <2>6. BitsIn[x \div 2][k] = ((x \div 2) \div d) % 2
    BY <1>1, <2>1, <2>4
  <2> QED BY <2>3, <2>5, <2>6, HalveThenDivide
<1> QED BY <1>1, <1>2, <1>3

(* A number less than a power of two has no bit there.                     *)
LEMMA NoHighBit ==
  ASSUME NEW k \in Nat, NEW x \in 0..(BitsOf!PowerOf2[k] - 1)
  PROVE  BitsIn[x][k] = 0
<1>1. PICK d \in Nat \ {0} : d = BitsOf!PowerOf2[k]
  BY PowersDouble
<1>2. x \div d = 0
  BY <1>1, QuotientIs
<1>3. BitsIn[x][k] = BitsOf!Bit(x, k)
  <2>1. x \in Int
    BY <1>1
  <2> QED BY <2>1, BitsOfHalf
<1>4. BitsOf!Bit(x, k) = (x \div d) % 2
  BY <1>1 DEF BitsOf!Bit
<1> QED BY <1>2, <1>3, <1>4

(* Doubling a number moves its bits up, and so does a power of two.        *)
LEMMA BitsOfDouble ==
  ASSUME NEW x \in Int, NEW b \in {0, 1}
  PROVE  /\ BitsIn[2 * x + b][0] = b
         /\ \A k \in Nat : BitsIn[2 * x + b][k + 1] = BitsIn[x][k]
<1>1. 2 * x + b \in Int /\ (2 * x + b) \div 2 = x /\ (2 * x + b) % 2 = b
  OBVIOUS
<1> QED BY <1>1, BitsOfHalf

LEMMA BitsMovedUp ==
  ASSUME NEW x \in Int, NEW m \in Nat, NEW k \in Nat
  PROVE  BitsIn[x * BitsOf!PowerOf2[m]][k] = IF k < m THEN 0 ELSE BitsIn[x][k - m]
<1> DEFINE Moves(l) == \A j \in Nat : BitsIn[x * BitsOf!PowerOf2[l]][j] = IF j < l THEN 0 ELSE BitsIn[x][j - l]
           Wrong == {l \in Nat : ~ Moves(l)}
<1> SUFFICES ASSUME Wrong # {} PROVE FALSE
  OBVIOUS
<1>1. PICK l \in Wrong : \A o \in Wrong : l \leq o
  <2>1. Wrong \in SUBSET Nat
    OBVIOUS
  <2> HIDE DEF Wrong
  <2> QED BY <2>1, LeastNatural
<1>2. l \in Nat /\ ~ Moves(l)
  BY <1>1
<1>3. Moves(0)
  <2>1. x * 1 = x
    OBVIOUS
  <2>2. \A j \in Nat : ~ (j < 0) /\ j - 0 = j
    OBVIOUS
  <2>3. x * BitsOf!PowerOf2[0] = x
    BY <2>1, PowersDouble
  <2>4. ASSUME NEW j \in Nat
        PROVE  BitsIn[x * BitsOf!PowerOf2[0]][j] = IF j < 0 THEN 0 ELSE BitsIn[x][j - 0]
    <3>1. BitsIn[x * BitsOf!PowerOf2[0]][j] = BitsIn[x][j]
      BY <2>3
    <3> QED BY <2>2, <3>1
  <2> QED BY <2>4
<1>4. PICK o \in Nat : l = o + 1
  <2>1. l # 0
    BY <1>2, <1>3
  <2>2. l - 1 \in Nat /\ l = (l - 1) + 1
    BY <1>2, <2>1
  <2> QED BY <2>2
<1>5. Moves(o)
  <2>1. ~ (l \leq o)
    BY <1>4
  <2>2. o \notin Wrong
    <3> HIDE DEF Wrong
    <3> QED BY <1>1, <2>1
  <2> QED BY <2>2
<1>6. PICK y \in Int : y = x * BitsOf!PowerOf2[o]
  <2>1. BitsOf!PowerOf2[o] \in Int
    BY PowersDouble
  <2> QED BY <2>1
<1>7. x * BitsOf!PowerOf2[l] = 2 * y + 0
  <2>1. PICK d \in Nat : d = BitsOf!PowerOf2[o]
    BY PowersDouble
  <2>2. BitsOf!PowerOf2[l] = 2 * d
    BY <1>4, <2>1, PowersDouble
  <2>3. x * (2 * d) = 2 * (x * d)
    OBVIOUS
  <2> QED BY <1>6, <2>1, <2>2, <2>3
<1>8. \A j \in Nat : BitsIn[y][j] = IF j < o THEN 0 ELSE BitsIn[x][j - o]
  BY <1>5, <1>6
<1>9. ASSUME NEW j \in Nat
      PROVE  BitsIn[2 * y + 0][j] = IF j < l THEN 0 ELSE BitsIn[x][j - l]
  <2>1. CASE j = 0
    <3>1. BitsIn[2 * y + 0][0] = 0
      BY BitsOfDouble
    <3>2. j < l
      BY <1>4, <2>1
    <3> QED BY <2>1, <3>1, <3>2
  <2>2. CASE j # 0
    <3>1. PICK i1 \in Nat : j = i1 + 1
      <4>1. j - 1 \in Nat /\ j = (j - 1) + 1
        BY <2>2
      <4> QED BY <4>1
    <3>2. BitsIn[2 * y + 0][j] = BitsIn[y][i1]
      BY <3>1, BitsOfDouble
    <3>3. (i1 < o <=> j < l) /\ i1 - o = j - l
      BY <1>4, <3>1
    <3> QED BY <1>8, <3>2, <3>3
  <2> QED BY <2>1, <2>2
<1> QED BY <1>2, <1>7, <1>9

LEMMA EvenAdded ==
  ASSUME NEW y \in Int, NEW e \in Int
  PROVE  /\ y + 2 * e \in Int /\ y \div 2 \in Int
         /\ (y + 2 * e) % 2 = y % 2 /\ (y + 2 * e) \div 2 = (y \div 2) + e
  OBVIOUS

(* What an int keeps of a number are its low bits.                         *)
Wraps(far, m) == \E c \in Int : far = BitsOf!PowerOf2[m] * c

LEMMA BitsFarBelow ==
  ASSUME NEW m \in Nat, NEW x \in Int, NEW far \in Int, Wraps(far, m), NEW k \in 0..(m - 1)
  PROVE  BitsIn[x + far][k] = BitsIn[x][k]
<1>0. PICK c \in Int : far = BitsOf!PowerOf2[m] * c
  BY DEF Wraps
<1> DEFINE Keeps(l) == \A y \in Int, j \in 0..(l - 1) :
                          BitsIn[y + BitsOf!PowerOf2[l] * c][j] = BitsIn[y][j]
           Wrong == {l \in Nat : ~ Keeps(l)}
<1> SUFFICES ASSUME Wrong # {} PROVE FALSE
  <2>1. ASSUME Keeps(m)
        PROVE  BitsIn[x + far][k] = BitsIn[x][k]
    BY <1>0, <2>1
  <2> QED BY <2>1
<1>1. PICK l \in Wrong : \A o \in Wrong : l \leq o
  <2>1. Wrong \in SUBSET Nat
    OBVIOUS
  <2> HIDE DEF Wrong
  <2> QED BY <2>1, LeastNatural
<1>2. l \in Nat /\ ~ Keeps(l)
  BY <1>1
<1>3. Keeps(0)
  <2>1. 0..(0 - 1) = {}
    OBVIOUS
  <2> QED BY <2>1
<1>4. PICK o \in Nat : l = o + 1
  <2>1. l # 0
    BY <1>2, <1>3
  <2>2. l - 1 \in Nat /\ l = (l - 1) + 1
    BY <1>2, <2>1
  <2> QED BY <2>2
<1>5. Keeps(o)
  <2>1. ~ (l \leq o)
    BY <1>4
  <2>2. o \notin Wrong
    <3> HIDE DEF Wrong
    <3> QED BY <1>1, <2>1
  <2> QED BY <2>2
<1>6. PICK d \in Nat : d = BitsOf!PowerOf2[o] /\ BitsOf!PowerOf2[l] = 2 * d
  BY <1>4, PowersDouble
<1>7. PICK e \in Int : e = d * c /\ (2 * d) * c = 2 * e
  <2>1. (2 * d) * c = 2 * (d * c) /\ d * c \in Int
    OBVIOUS
  <2> QED BY <2>1
<1>8. ASSUME NEW y \in Int, NEW j \in 0..(l - 1)
      PROVE  BitsIn[y + 2 * e][j] = BitsIn[y][j]
  <2>1. /\ y + 2 * e \in Int /\ y \div 2 \in Int
        /\ (y + 2 * e) % 2 = y % 2 /\ (y + 2 * e) \div 2 = (y \div 2) + e
    BY EvenAdded
  <2>2. PICK w \in Int : w = y + 2 * e
    BY <2>1
  <2>3. w % 2 = y % 2 /\ w \div 2 = (y \div 2) + e
    BY <2>1, <2>2
  <2>4. CASE j = 0
    <3>1. BitsIn[w][0] = w % 2 /\ BitsIn[y][0] = y % 2
      BY BitsOfHalf
    <3> QED BY <2>4, <2>2, <2>3, <3>1
  <2>5. CASE j # 0
    <3>1. PICK i1 \in 0..(o - 1) : j = i1 + 1
      <4>1. j - 1 \in 0..(o - 1) /\ j = (j - 1) + 1
        BY <1>4, <2>5
      <4> QED BY <4>1
    <3>2. BitsIn[y + 2 * e][j] = BitsIn[(y \div 2) + e][i1] /\ BitsIn[y][j] = BitsIn[y \div 2][i1]
      <4>1. i1 \in Nat
        BY <3>1
      <4>2. BitsIn[w][i1 + 1] = BitsIn[w \div 2][i1] /\ BitsIn[y][i1 + 1] = BitsIn[y \div 2][i1]
        BY <4>1, BitsOfHalf
      <4> QED BY <2>2, <2>3, <3>1, <4>2
    <3>3. ASSUME NEW z \in Int
          PROVE  BitsIn[z + e][i1] = BitsIn[z][i1]
      <4>1. BitsIn[z + BitsOf!PowerOf2[o] * c][i1] = BitsIn[z][i1]
        BY <1>5
      <4>2. BitsOf!PowerOf2[o] * c = e
        BY <1>6, <1>7
      <4> QED BY <4>1, <4>2
    <3> QED BY <2>2, <3>2, <3>3
  <2> QED BY <2>4, <2>5
<1>9. Keeps(l)
  <2>1. BitsOf!PowerOf2[l] * c = 2 * e
    BY <1>6, <1>7
  <2> QED BY <1>8, <2>1
<1> QED BY <1>2, <1>9

(* An int has room for as many ones as it has bits.                        *)
LEMMA HalfOfTheInts ==
  \E h \in Nat : /\ BitsOf!Half = h
                  /\ h = BitsOf!PowerOf2[Bits - 1]
                  /\ BitsOf!PowerOf2[Bits] = 2 * h
                  /\ h \geq Bits
                  /\ Bits \in Nat /\ Bits - 1 \in Nat
                  /\ BitsOf!Ints = (-h)..(h - 1)
<1>1. Bits \in Nat /\ Bits - 1 \in Nat /\ (Bits - 1) + 1 = Bits
  BY ExercisesAssumption DEF ExercisesAssumption
<1>2. PICK h \in Nat : h = BitsOf!PowerOf2[Bits - 1] /\ h > Bits - 1
  BY <1>1, PowersDouble
<1>3. BitsOf!PowerOf2[Bits] = 2 * h
  BY <1>1, <1>2, PowersDouble
<1>4. BitsOf!Half = h /\ BitsOf!Ints = (-h)..(h - 1)
  BY <1>2 DEF BitsOf!Half, BitsOf!Ints
<1>5. h \geq Bits
  BY <1>1, <1>2
<1> QED BY <1>1, <1>2, <1>3, <1>4, <1>5

LEMMA IntKeepsBits ==
  ASSUME NEW x \in Int
  PROVE  /\ BitsOf!ToInt(x) \in Int
         /\ x \in BitsOf!Ints => BitsOf!ToInt(x) = x
         /\ \A k \in 0..(Bits - 1) : BitsIn[BitsOf!ToInt(x)][k] = BitsIn[x][k]
<1>1. PICK h \in Nat : /\ BitsOf!Half = h /\ BitsOf!PowerOf2[Bits] = 2 * h
                       /\ h \geq 1 /\ Bits \in Nat /\ BitsOf!Ints = (-h)..(h - 1)
  <2>1. PICK h \in Nat : /\ BitsOf!Half = h /\ BitsOf!PowerOf2[Bits] = 2 * h
                         /\ h \geq Bits /\ Bits \in Nat /\ BitsOf!Ints = (-h)..(h - 1)
    BY HalfOfTheInts
  <2>2. h \geq 1
    BY <2>1, ExercisesAssumption DEF ExercisesAssumption
  <2> QED BY <2>1, <2>2
<1>2. PICK d \in Nat \ {0} : d = 2 * h
  BY <1>1
<1>3. PICK t \in Int : t = x + h
  OBVIOUS
<1>4. PICK c \in Int, rest \in Int : /\ c = t \div d /\ rest = t % d
                                     /\ t = d * c + rest /\ 0 \leq rest /\ rest < d
  OBVIOUS
<1>5. BitsOf!ToInt(x) = rest - h
  BY <1>1, <1>2, <1>3, <1>4 DEF BitsOf!ToInt
<1>6. PICK y \in Int : y = rest - h
  OBVIOUS
<1>7. PICK e \in Int : e = d * c
  OBVIOUS
<1>8. x = y + e
  BY <1>3, <1>4, <1>6, <1>7
<1>9. ASSUME NEW k \in 0..(Bits - 1)
      PROVE  BitsIn[y][k] = BitsIn[x][k]
  <2>1. e = BitsOf!PowerOf2[Bits] * c
    BY <1>1, <1>2, <1>7
  <2>2. BitsIn[y + e][k] = BitsIn[y][k]
    <3>1. Wraps(e, Bits)
      BY <2>1 DEF Wraps
    <3>2. Bits \in Nat
      BY <1>1
    <3> QED BY <3>1, <3>2, BitsFarBelow
  <2> QED BY <1>8, <2>2
<1>10. ASSUME x \in BitsOf!Ints
       PROVE  y = x
  <2>1. 0 \leq t /\ t < d
    BY <1>1, <1>2, <1>3, <1>10
  <2>2. t \div d = 0
    <3>1. d * 0 = 0
      OBVIOUS
    <3>2. d * 0 \leq t /\ t < d * 0 + d
      BY <2>1, <3>1
    <3> QED BY <3>2, QuotientIs
  <2>3. e = d * 0 /\ d * 0 = 0
    BY <1>4, <1>7, <2>2
  <2> QED BY <1>8, <2>3
<1> QED BY <1>5, <1>6, <1>9, <1>10

(* The ones of a number are its last bit and the ones of its half.         *)
OnesIn(x) == {k \in 0..(Bits - 1) : BitsIn[x][k] = 1}

LEMMA OnesAreCounted ==
  ASSUME NEW x \in Int
  PROVE  BitsOf!Ones(x) = Cardinality(OnesIn(x)) /\ IsFiniteSet(OnesIn(x))
<1>1. \A k \in 0..(Bits - 1) : BitsIn[x][k] = BitsOf!Bit(x, k)
  <2>1. \A k \in 0..(Bits - 1) : k \in Nat
    OBVIOUS
  <2> QED BY <2>1, BitsOfHalf
<1>2. OnesIn(x) = {k \in 0..(Bits - 1) : BitsOf!Bit(x, k) = 1}
  BY <1>1 DEF OnesIn
<1>3. BitsOf!Ones(x) = Cardinality({k \in 0..(Bits - 1) : BitsOf!Bit(x, k) = 1})
  BY DEF BitsOf!Ones, BitsOf!Cardinality, Cardinality
<1>4. IsFiniteSet(OnesIn(x))
  <2>1. Bits \in Nat
    BY ExercisesAssumption DEF ExercisesAssumption
  <2>2. OnesIn(x) \in SUBSET (0..(Bits - 1))
    BY DEF OnesIn
  <2>3. 0 \in Int /\ Bits - 1 \in Int
    BY <2>1
  <2>4. IsFiniteSet(0..(Bits - 1))
    BY <2>3, FS_Interval
  <2> QED BY <2>2, <2>4, FS_Subset
<1> QED BY <1>2, <1>3, <1>4

LEMMA OnesOfHalf ==
  ASSUME NEW x \in 0..(BitsOf!Half - 1)
  PROVE  /\ BitsOf!Ones(x) \in 0..(Bits - 1)
         /\ x \div 2 \in 0..(BitsOf!Half - 1)
         /\ BitsOf!Ones(x) = (x % 2) + BitsOf!Ones(x \div 2)
<1>1. PICK h \in Nat : /\ BitsOf!Half = h /\ h = BitsOf!PowerOf2[Bits - 1]
                       /\ Bits \in Nat /\ Bits - 1 \in Nat
  BY HalfOfTheInts
<1>2. x \in Int /\ x \div 2 \in Int /\ x \div 2 \in 0..(h - 1)
  BY <1>1
<1>3. BitsIn[x][Bits - 1] = 0 /\ BitsIn[x \div 2][Bits - 1] = 0
  BY <1>1, <1>2, NoHighBit
<1>4. /\ BitsOf!Ones(x) = Cardinality(OnesIn(x)) /\ IsFiniteSet(OnesIn(x))
      /\ BitsOf!Ones(x \div 2) = Cardinality(OnesIn(x \div 2)) /\ IsFiniteSet(OnesIn(x \div 2))
  BY <1>2, OnesAreCounted
<1>5. OnesIn(x) \subseteq 0..(Bits - 2)
  <2>1. ASSUME NEW k \in OnesIn(x)
        PROVE  k \in 0..(Bits - 2)
    <3>1. k \in 0..(Bits - 1) /\ BitsIn[x][k] = 1
      BY DEF OnesIn
    <3>2. k # Bits - 1
      BY <1>3, <3>1
    <3> QED BY <1>1, <3>1, <3>2
  <2> QED BY <2>1
<1>6. Cardinality(OnesIn(x)) \in 0..(Bits - 1)
  <2>1. /\ IsFiniteSet(0..(Bits - 2))
        /\ Cardinality(0..(Bits - 2)) = IF 0 > Bits - 2 THEN 0 ELSE (Bits - 2) - 0 + 1
    <3>1. 0 \in Int /\ Bits - 2 \in Int
      BY <1>1
    <3> QED BY <3>1, FS_Interval
  <2>2. Cardinality(0..(Bits - 2)) \leq Bits - 1
    BY <1>1, <2>1
  <2>3. Cardinality(OnesIn(x)) \leq Cardinality(0..(Bits - 2)) /\ Cardinality(OnesIn(x)) \in Nat
    BY <1>4, <1>5, <2>1, FS_Subset, FS_CardinalityType
  <2> QED BY <1>1, <2>1, <2>2, <2>3, FS_CardinalityType
<1>7. Cardinality(OnesIn(x) \ {0}) = Cardinality(OnesIn(x \div 2))
  <2>1. PICK f : f = [k \in OnesIn(x \div 2) |-> k + 1]
    OBVIOUS
  <2>2. ASSUME NEW k \in OnesIn(x \div 2)
        PROVE  k + 1 \in OnesIn(x) \ {0}
    <3>1. k \in 0..(Bits - 1) /\ BitsIn[x \div 2][k] = 1
      BY DEF OnesIn
    <3>2. k # Bits - 1
      BY <1>3, <3>1
    <3>3. k \in Nat /\ k + 1 \in 0..(Bits - 1) /\ k + 1 # 0
      BY <1>1, <3>1, <3>2
    <3>4. BitsIn[x][k + 1] = 1
      BY <1>2, <3>1, <3>3, BitsOfHalf
    <3> QED BY <3>3, <3>4 DEF OnesIn
  <2>3. ASSUME NEW m \in OnesIn(x) \ {0}
        PROVE  \E k \in OnesIn(x \div 2) : k + 1 = m
    <3>1. m \in 0..(Bits - 1) /\ m # 0 /\ BitsIn[x][m] = 1
      BY DEF OnesIn
    <3>2. PICK k \in 0..(Bits - 1) : k + 1 = m
      <4>1. m - 1 \in 0..(Bits - 1) /\ (m - 1) + 1 = m
        BY <1>1, <3>1
      <4> QED BY <4>1
    <3>3. BitsIn[x \div 2][k] = 1
      <4>1. k \in Nat
        BY <3>2
      <4> QED BY <1>2, <3>1, <3>2, <4>1, BitsOfHalf
    <3> QED BY <3>2, <3>3 DEF OnesIn
  <2>4. \A k \in OnesIn(x \div 2) : k \in Int
    BY DEF OnesIn
  <2>5. f \in Bijection(OnesIn(x \div 2), OnesIn(x) \ {0})
    <3>1. f \in [OnesIn(x \div 2) -> OnesIn(x) \ {0}]
      BY <2>1, <2>2
    <3>2. \A k, m \in OnesIn(x \div 2) : f[k] = f[m] => k = m
      BY <2>1, <2>4
    <3>3. \A m \in OnesIn(x) \ {0} : \E k \in OnesIn(x \div 2) : f[k] = m
      BY <2>1, <2>3
    <3> QED BY <3>1, <3>2, <3>3 DEF Bijection, Injection, Surjection, IsInjective
  <2>6. ExistsBijection(OnesIn(x \div 2), OnesIn(x) \ {0})
    BY <2>5 DEF ExistsBijection
  <2> QED BY <1>4, <2>6, FS_Bijection
<1>8. BitsIn[x][0] = x % 2 /\ x % 2 \in {0, 1}
  BY <1>2, BitsOfHalf
<1>9. 0 \in OnesIn(x) <=> x % 2 = 1
  BY <1>1, <1>8 DEF OnesIn
<1>10. Cardinality(OnesIn(x) \ {0}) = IF 0 \in OnesIn(x) THEN Cardinality(OnesIn(x)) - 1 ELSE Cardinality(OnesIn(x))
  BY <1>4, FS_RemoveElement
<1>11. Cardinality(OnesIn(x)) = (x % 2) + Cardinality(OnesIn(x \div 2))
  BY <1>6, <1>7, <1>8, <1>9, <1>10
<1> QED BY <1>1, <1>2, <1>4, <1>6, <1>11

LEMMA OnesOfNothing == BitsOf!Ones(0) = 0
<1>1. PICK h \in Nat : BitsOf!Half = h /\ h \geq 1
  <2>1. PICK h \in Nat : BitsOf!Half = h /\ h \geq Bits
    BY HalfOfTheInts
  <2>2. h \geq 1
    BY <2>1, ExercisesAssumption DEF ExercisesAssumption
  <2> QED BY <2>1, <2>2
<1>2. \A k \in Nat : BitsIn[0][k] = 0
  <2> SUFFICES ASSUME NEW k \in Nat PROVE BitsIn[0][k] = 0
    OBVIOUS
  <2>1. PICK p \in Nat : p = BitsOf!PowerOf2[k] /\ p > k
    BY PowersDouble
  <2>2. 0 \in 0..(BitsOf!PowerOf2[k] - 1)
    BY <2>1
  <2> QED BY <2>2, NoHighBit
<1>3. OnesIn(0) = {}
  BY <1>2 DEF OnesIn
<1> QED BY <1>3, OnesAreCounted, FS_EmptySet

Weight == [x \in BitsOf!Ints |-> BitsOf!Ones(x)]

LEMMA WeightOfHalf ==
  ASSUME NEW x \in BitsOf!Ints
  PROVE  /\ x \in Int /\ x \div 2 \in BitsOf!Ints
         /\ Weight[x] = BitsOf!Ones(x) /\ Weight[x] \in Nat
         /\ x < 0 => x \div 2 < 0
         /\ x \geq 0 => /\ Weight[x] \in 0..(Bits - 1)
                        /\ x \div 2 \geq 0
                        /\ Weight[x] = (x % 2) + Weight[x \div 2]
         /\ x \div 2 = 0 => x \geq 0 /\ Weight[x] = x % 2
<1>1. PICK h \in Nat : BitsOf!Half = h /\ BitsOf!Ints = (-h)..(h - 1)
  BY HalfOfTheInts
<1>2. /\ x \in Int /\ x \div 2 \in BitsOf!Ints
      /\ x < 0 => x \div 2 < 0
      /\ x \geq 0 => x \div 2 \geq 0
      /\ x \div 2 = 0 => x \geq 0
  BY <1>1
<1>3. /\ Weight[x] = BitsOf!Ones(x) /\ Weight[x \div 2] = BitsOf!Ones(x \div 2)
      /\ BitsOf!Ones(x) \in Nat
  <2>1. BitsOf!Ones(x) \in Nat
    BY <1>2, OnesAreCounted, FS_CardinalityType
  <2> QED BY <1>2, <2>1 DEF Weight
<1>4. ASSUME x \geq 0
      PROVE  Weight[x] \in 0..(Bits - 1) /\ Weight[x] = (x % 2) + Weight[x \div 2]
  <2>1. x \in 0..(BitsOf!Half - 1)
    BY <1>1, <1>4
  <2> QED BY <1>3, <2>1, OnesOfHalf
<1>5. ASSUME x \div 2 = 0
      PROVE  Weight[x] = x % 2
  <2>1. Weight[x \div 2] = 0
    BY <1>3, <1>5, OnesOfNothing
  <2>2. Weight[x] = (x % 2) + 0
    BY <1>2, <1>4, <1>5, <2>1
  <2> QED BY <1>2, <2>2
<1> QED BY <1>2, <1>3, <1>4, <1>5

(* Of the first m arguments, b is the first with the most ones.            *)
Leads(b, m) ==
  /\ b \in 1..m
  /\ \A y \in 1..m : Weight[ints[y]] \leq Weight[ints[b]]
  /\ \A y \in 1..(b - 1) : Weight[ints[y]] < Weight[ints[b]]

(* The ones counted so far and those of what is left are those of the      *)
(* argument; of a negative one a negative number is always left.           *)
TallyInv(x) ==
  /\ n \in BitsOf!Ints
  /\ x < 0 => n < 0
  /\ x \geq 0 => n \geq 0 /\ acc \in Nat /\ acc + Weight[n] = Weight[x]

PairInv ==
  \/ /\ pair = <<1, 2>>
     /\ left # -1 => ints[1] \geq 0
  \/ \E b \in 1..2 : pair = <<b, 3>> /\ Leads(b, 2) /\ ints[1] \geq 0

CountInv ==
  /\ ints \in [1..3 -> BitsOf!Ints]
  /\ pc \in {"idle", "count", "reverse", "done"}
  /\ DOMAIN result = {"most", "reversed"}
  /\ pc = "idle" => pair = <<1, 2>> /\ left = -1 /\ acc = 0
  /\ pc = "count" =>
       /\ PairInv
       /\ left = -1 => TallyInv(ints[pair[1]])
       /\ left # -1 => TallyInv(ints[pair[2]]) /\ left = Weight[ints[pair[1]]]
  /\ pc \in {"reverse", "done"} =>
       /\ ints[1] \geq 0
       /\ \E b \in 1..3 : result.most = ints[b] /\ Leads(b, 3)

LEMMA CountStart == BitsOf!Idle => CountInv
<1> SUFFICES ASSUME BitsOf!Idle PROVE CountInv
  OBVIOUS
<1>1. 0 \in BitsOf!Ints
  <2>1. PICK h \in Nat : h \geq Bits /\ Bits \in Nat /\ BitsOf!Ints = (-h)..(h - 1)
    BY HalfOfTheInts
  <2>2. h \geq 1
    BY <2>1, ExercisesAssumption DEF ExercisesAssumption
  <2> QED BY <2>1, <2>2
<1>2. ints \in [1..3 -> BitsOf!Ints]
  BY <1>1 DEF BitsOf!Idle
<1> QED BY <1>2 DEF BitsOf!Idle, CountInv

LEMMA LeadsOfTwo ==
  ASSUME ints \in [1..3 -> BitsOf!Ints]
  PROVE  Leads(IF Weight[ints[1]] \geq Weight[ints[2]] THEN 1 ELSE 2, 2)
<1>1. Weight[ints[1]] \in Nat /\ Weight[ints[2]] \in Nat
  BY WeightOfHalf
<1>2. 1..2 = {1, 2} /\ 1..0 = {} /\ 1..1 = {1} /\ 1 - 1 = 0 /\ 2 - 1 = 1
  OBVIOUS
<1> QED BY <1>1, <1>2 DEF Leads

LEMMA LeadsOfThree ==
  ASSUME ints \in [1..3 -> BitsOf!Ints], NEW b \in 1..2, Leads(b, 2)
  PROVE  Leads(IF Weight[ints[b]] \geq Weight[ints[3]] THEN b ELSE 3, 3)
<1>1. Weight[ints[b]] \in Nat /\ Weight[ints[3]] \in Nat
  BY WeightOfHalf
<1>2. /\ \A y \in 1..3 : y \in 1..2 \/ y = 3
      /\ 3 - 1 = 2 /\ b \in 1..3 /\ 3 \in 1..3
      /\ \A y \in 1..2 : y = 1 \/ y = 2
  OBVIOUS
<1>3. \A y \in 1..2 : Weight[ints[y]] \in Nat /\ Weight[ints[y]] \leq Weight[ints[b]]
  BY <1>2, WeightOfHalf DEF Leads
<1>4. CASE Weight[ints[b]] \geq Weight[ints[3]]
  BY <1>1, <1>2, <1>3, <1>4 DEF Leads
<1>5. CASE ~ (Weight[ints[b]] \geq Weight[ints[3]])
  <2>1. \A y \in 1..2 : Weight[ints[y]] < Weight[ints[3]]
    BY <1>1, <1>3, <1>5
  <2>2. \A y \in 1..3 : Weight[ints[y]] \leq Weight[ints[3]]
    BY <1>1, <1>2, <1>3, <2>1
  <2>3. Leads(3, 3)
    BY <1>2, <2>1, <2>2 DEF Leads
  <2> QED BY <1>5, <2>3
<1> QED BY <1>4, <1>5

(* A turn of the counting loop.                                            *)
LEMMA TurnKeepsTally ==
  ASSUME NEW x \in BitsOf!Ints, TallyInv(x), BitsOf!CountBit
  PROVE  TallyInv(x)'
<1>1. PICK h \in Nat : h \geq Bits /\ Bits \in Nat /\ BitsOf!Ints = (-h)..(h - 1)
  BY HalfOfTheInts
<1>2. PICK m \in BitsOf!Ints : m = n
  BY DEF TallyInv
<1>3. n' = m \div 2 /\ acc' = BitsOf!ToInt(acc + (m % 2))
  BY <1>2 DEF BitsOf!CountBit, BitsOf!ShiftRight, BitsOf!Counted
<1>4. PICK half \in BitsOf!Ints : half = m \div 2
  BY WeightOfHalf
<1>5. m < 0 => half < 0
  BY <1>4, WeightOfHalf
<1>6. ASSUME x \geq 0
      PROVE  half \geq 0 /\ acc' \in Nat /\ acc' + Weight[half] = Weight[x]
  <2>1. PICK a \in Nat : a = acc /\ a + Weight[m] = Weight[x] /\ m \geq 0
    BY <1>2, <1>6 DEF TallyInv
  <2>2. PICK w \in Nat : w = Weight[half]
    BY WeightOfHalf
  <2>3. PICK bit \in {0, 1} : bit = m % 2
    BY <1>1
  <2>4. Weight[m] = bit + w /\ half \geq 0
    BY <1>4, <2>1, <2>2, <2>3, WeightOfHalf
  <2>5. Weight[x] \in 0..(Bits - 1)
    BY <1>6, WeightOfHalf
  <2>6. a + bit \in BitsOf!Ints
    BY SMTT(30), <1>1, <2>1, <2>2, <2>4, <2>5
  <2>7. acc' = a + bit
    BY <1>3, <2>1, <2>3, <2>6, IntKeepsBits
  <2> QED BY <2>1, <2>2, <2>4, <2>7
<1>7. x < 0 => m < 0
  BY <1>2 DEF TallyInv
<1>8. n' = half
  BY <1>3, <1>4
<1> QED BY <1>5, <1>6, <1>7, <1>8 DEF TallyInv

LEMMA TallyStarts ==
  ASSUME NEW x \in BitsOf!Ints, n' = x, acc' = 0
  PROVE  TallyInv(x)'
<1>1. Weight[x] \in Nat
  BY WeightOfHalf
<1> QED BY <1>1 DEF TallyInv

(* The last turn: no argument is negative whose count ends.                *)
LEMMA TallyEnds ==
  ASSUME NEW x \in BitsOf!Ints, TallyInv(x), BitsOf!ShiftRight(n) = 0
  PROVE  x \geq 0 /\ BitsOf!Counted = Weight[x]
<1>1. PICK m \in BitsOf!Ints : m = n
  BY DEF TallyInv
<1>2. m \geq 0 /\ Weight[m] = m % 2
  BY <1>1, WeightOfHalf DEF BitsOf!ShiftRight
<1>3. x \in Int /\ m \in Int
  BY WeightOfHalf
<1>4. x \geq 0
  BY <1>1, <1>2, <1>3 DEF TallyInv
<1> QED BY <1>1, <1>2, <1>4 DEF TallyInv, BitsOf!Counted

LEMMA LeadsStay ==
  ASSUME NEW b, NEW m, ints' = ints
  PROVE  Leads(b, m)' <=> Leads(b, m)
BY DEF Leads

LEMMA CountAlways == CountInv /\ [BitsOf!Next]_bitVars => CountInv'
<1> SUFFICES ASSUME CountInv, [BitsOf!Next]_bitVars PROVE CountInv'
  OBVIOUS
<1>1. ints \in [1..3 -> BitsOf!Ints]
  BY DEF CountInv
<1>2. CASE BitsOf!main
  <2>1. PICK a, b, c \in BitsOf!Ints : ints' = <<a, b, c>> /\ n' = a
    BY <1>2 DEF BitsOf!main
  <2>2. /\ ints' \in [1..3 -> BitsOf!Ints] /\ ints'[1] = a
        /\ pc' = "count" /\ pair' = <<1, 2>> /\ left' = -1 /\ acc' = 0
        /\ DOMAIN result' = {"most", "reversed"}
    BY <1>2, <2>1 DEF BitsOf!main, CountInv
  <2>3. TallyInv(a)'
    BY <2>1, <2>2, TallyStarts
  <2>4. TallyInv(ints[pair[1]])'
    BY <2>2, <2>3 DEF TallyInv
  <2> QED BY <2>2, <2>4 DEF CountInv, PairInv
<1>3. CASE BitsOf!CountBit
  <2>1. UNCHANGED <<ints, pc, pair, left, result>> /\ pc = "count"
    BY <1>3 DEF BitsOf!CountBit
  <2>2. PairInv /\ PairInv'
    BY <2>1, LeadsStay DEF CountInv, PairInv
  <2>3. pair[1] \in 1..3 /\ pair[2] \in 1..3
    BY <2>2 DEF PairInv
  <2>4. ASSUME left = -1
        PROVE  TallyInv(ints[pair[1]])'
    <3>1. PICK x \in BitsOf!Ints : x = ints[pair[1]]
      BY <1>1, <2>3
    <3>2. TallyInv(x)'
      BY <1>3, <2>1, <2>4, <3>1, TurnKeepsTally DEF CountInv
    <3> QED BY <2>1, <3>1, <3>2 DEF TallyInv
  <2>5. ASSUME left # -1
        PROVE  TallyInv(ints[pair[2]])' /\ left = Weight[ints[pair[1]]]
    <3>1. PICK x \in BitsOf!Ints : x = ints[pair[2]]
      BY <1>1, <2>3
    <3>2. TallyInv(x)'
      BY <1>3, <2>1, <2>5, <3>1, TurnKeepsTally DEF CountInv
    <3> QED BY <2>1, <2>5, <3>1, <3>2 DEF TallyInv, CountInv
  <2> QED BY <2>1, <2>2, <2>4, <2>5 DEF CountInv
<1>4. CASE BitsOf!CountedLeft
  <2>1. /\ UNCHANGED <<ints, pc, pair, result>> /\ pc = "count" /\ left = -1
        /\ left' = BitsOf!Counted /\ n' = ints[pair[2]] /\ acc' = 0
    BY <1>4 DEF BitsOf!CountedLeft
  <2>2. PairInv
    BY <2>1 DEF CountInv
  <2>3. PICK x, y \in BitsOf!Ints : x = ints[pair[1]] /\ y = ints[pair[2]]
    <3>1. pair[1] \in 1..3 /\ pair[2] \in 1..3
      BY <2>2 DEF PairInv
    <3> QED BY <1>1, <3>1
  <2>4. x \geq 0 /\ left' = Weight[x]
    BY <1>4, <2>1, <2>3, TallyEnds DEF CountInv, BitsOf!CountedLeft
  <2>5. TallyInv(y)'
    BY <2>1, <2>3, TallyStarts
  <2>6. TallyInv(ints[pair[2]])' /\ left' = Weight[ints[pair[1]]] /\ left' # -1
    <3>1. Weight[x] \in Nat
      BY WeightOfHalf
    <3> QED BY <2>1, <2>3, <2>4, <2>5, <3>1 DEF TallyInv
  <2>7. PairInv'
    BY <2>1, <2>2, <2>3, <2>4, LeadsStay DEF PairInv
  <2> QED BY <2>1, <2>6, <2>7 DEF CountInv
<1>5. CASE BitsOf!CountedRight
  <2>1. /\ ints' = ints /\ pc = "count" /\ left # -1 /\ left' = -1 /\ acc' = 0
        /\ PairInv /\ TallyInv(ints[pair[2]]) /\ left = Weight[ints[pair[1]]]
        /\ BitsOf!ShiftRight(n) = 0
    BY <1>5 DEF BitsOf!CountedRight, CountInv
  <2>2. CASE pair = <<1, 2>>
    <3>1. /\ pair' = <<BitsOf!Best, 3>> /\ n' = ints[BitsOf!Best]
          /\ UNCHANGED <<pc, result>> /\ ints[1] \geq 0
      BY <1>5, <2>1, <2>2 DEF BitsOf!CountedRight, PairInv
    <3>2. PICK y \in BitsOf!Ints : y = ints[2]
      BY <1>1
    <3>3. BitsOf!Counted = Weight[ints[2]]
      BY <2>1, <2>2, <3>2, TallyEnds
    <3>4. PICK b \in 1..2 : b = BitsOf!Best
      BY <2>2 DEF BitsOf!Best
    <3>5. Leads(b, 2)
      BY <1>1, <2>1, <2>2, <3>3, <3>4, LeadsOfTwo DEF BitsOf!Best
    <3>6. PICK x \in BitsOf!Ints : x = ints[b]
      BY <1>1
    <3>7. TallyInv(x)'
      BY <2>1, <3>1, <3>4, <3>6, TallyStarts
    <3>8. TallyInv(ints[pair[1]])'
      BY <2>1, <3>1, <3>4, <3>6, <3>7 DEF TallyInv
    <3>9. PairInv'
      BY <2>1, <3>1, <3>4, <3>5, LeadsStay DEF PairInv
    <3> QED BY <2>1, <3>1, <3>8, <3>9 DEF CountInv
  <2>3. ASSUME NEW b \in 1..2, pair = <<b, 3>>, Leads(b, 2), ints[1] \geq 0
        PROVE  CountInv'
    <3>1. /\ pc' = "reverse" /\ result' = [result EXCEPT !.most = ints[BitsOf!Best]]
      BY <1>5, <2>1, <2>3 DEF BitsOf!CountedRight
    <3>2. PICK y \in BitsOf!Ints : y = ints[3]
      BY <1>1
    <3>3. BitsOf!Counted = Weight[ints[3]]
      BY <2>1, <2>3, <3>2, TallyEnds
    <3>4. PICK c \in 1..3 : c = BitsOf!Best
      BY <2>3 DEF BitsOf!Best
    <3>5. Leads(c, 3)
      BY <1>1, <2>1, <2>3, <3>3, <3>4, LeadsOfThree DEF BitsOf!Best
    <3>6. result'.most = ints[c] /\ DOMAIN result' = {"most", "reversed"}
      BY <3>1, <3>4 DEF CountInv
    <3> QED BY <2>1, <2>3, <3>1, <3>5, <3>6, LeadsStay DEF CountInv
  <2> QED BY <2>1, <2>2, <2>3 DEF PairInv
<1>6. CASE BitsOf!ReverseBit
  <2>1. UNCHANGED <<ints, pc, result>> /\ pc = "reverse"
    BY <1>6 DEF BitsOf!ReverseBit
  <2> QED BY <2>1, LeadsStay DEF CountInv
<1>7. CASE BitsOf!Reversed
  <2>1. /\ ints' = ints /\ pc = "reverse" /\ pc' = "done"
        /\ result'.most = result.most /\ DOMAIN result' = {"most", "reversed"}
    BY <1>7 DEF BitsOf!Reversed, CountInv
  <2> QED BY <2>1, LeadsStay DEF CountInv
<1>8. CASE UNCHANGED bitVars
  <2>1. UNCHANGED <<ints, pc, pair, left, n, acc, result>>
    BY <1>8 DEF bitVars
  <2>2. PairInv' <=> PairInv
    BY <2>1, LeadsStay DEF PairInv
  <2> QED BY <2>1, <2>2, LeadsStay DEF CountInv, TallyInv
<1>9. CASE BitsOf!Done
  <2>1. UNCHANGED bitVars
    BY <1>9 DEF BitsOf!Done, BitsOf!vars, bitVars
  <2> QED BY <1>8, <2>1
<1> QED BY <1>2, <1>3, <1>4, <1>5, <1>6, <1>7, <1>8, <1>9 DEF BitsOf!Next, BitsOf!Step

(* While m of an argument is left to reverse, with t moves to go: m is the  *)
(* argument's bits above those that v has in reverse.                      *)
Reverses(x, t, m, v) ==
  /\ t \in 0..(Bits - 1)
  /\ v \in Int
  /\ m \in 0..(BitsOf!PowerOf2[t] - 1)
  /\ \A k \in Nat : BitsIn[m][k] = BitsIn[x][k + (Bits - t)]
  /\ \A k \in 0..(Bits - 1 - t) : BitsIn[v][k] = BitsIn[x][(Bits - 1 - t) - k]

LEMMA ReversalStarts ==
  ASSUME NEW x \in BitsOf!Ints, x \geq 0
  PROVE  Reverses(x, Bits - 1, x \div 2, x)
<1>1. PICK h \in Nat : /\ BitsOf!Half = h /\ h = BitsOf!PowerOf2[Bits - 1]
                       /\ Bits \in Nat /\ Bits - 1 \in Nat /\ BitsOf!Ints = (-h)..(h - 1)
  BY HalfOfTheInts
<1>2. x \in Int /\ x \div 2 \in 0..(h - 1)
  BY <1>1
<1>3. /\ Bits - (Bits - 1) = 1 /\ Bits - 1 \in 0..(Bits - 1)
      /\ 0..(Bits - 1 - (Bits - 1)) = {0} /\ (Bits - 1 - (Bits - 1)) - 0 = 0
  BY <1>1
<1>4. \A k \in Nat : BitsIn[x \div 2][k] = BitsIn[x][k + 1]
  BY <1>2, BitsOfHalf
<1> QED BY <1>1, <1>2, <1>3, <1>4 DEF Reverses

LEMMA OneMoreReversed ==
  ASSUME NEW x, NEW t, NEW m, NEW v, Reverses(x, t, m, v), m # 0
  PROVE  /\ BitsOf!ToInt(t - 1) = t - 1
         /\ Reverses(x, t - 1, m \div 2, BitsOf!ToInt(2 * v + (m % 2)))
<1>1. PICK h \in Nat : h \geq Bits /\ Bits \in Nat /\ BitsOf!Ints = (-h)..(h - 1)
  BY HalfOfTheInts
<1>2. t \in 0..(Bits - 1) /\ v \in Int
  BY DEF Reverses
<1>3. PICK p \in Nat : p = BitsOf!PowerOf2[t]
  <2>1. t \in Nat
    BY <1>1, <1>2
  <2> QED BY <2>1, PowersDouble
<1>4. m \in 0..(p - 1) /\ m \in Int
  BY <1>3 DEF Reverses
<1>5. t - 1 \in 0..(Bits - 1)
  <2>1. t # 0
    <3> SUFFICES ASSUME t = 0 PROVE FALSE
      OBVIOUS
    <3>1. p = 1
      BY <1>3, PowersDouble
    <3> QED BY <1>4, <3>1
  <2> QED BY <1>1, <1>2, <2>1
<1>6. BitsOf!ToInt(t - 1) = t - 1
  BY <1>1, <1>5, IntKeepsBits
<1>7. m \div 2 \in 0..(BitsOf!PowerOf2[t - 1] - 1)
  <2>1. t - 1 \in Nat /\ (t - 1) + 1 = t
    BY <1>1, <1>2, <1>5
  <2>2. PICK q \in Nat : q = BitsOf!PowerOf2[t - 1] /\ p = 2 * q
    BY <1>3, <2>1, PowersDouble
  <2> QED BY <1>4, <2>2
<1>8. PICK bit \in {0, 1} : bit = m % 2
  BY <1>4
<1>9. PICK w \in Int : w = BitsOf!ToInt(2 * v + bit)
  BY <1>2, IntKeepsBits
<1>10. \A k \in 0..(Bits - 1) : BitsIn[w][k] = BitsIn[2 * v + bit][k]
  BY <1>2, <1>9, IntKeepsBits
<1>11. ASSUME NEW k \in Nat
       PROVE  BitsIn[m \div 2][k] = BitsIn[x][k + (Bits - (t - 1))]
  <2>1. BitsIn[m \div 2][k] = BitsIn[m][k + 1]
    BY <1>4, BitsOfHalf
  <2>2. BitsIn[m][k + 1] = BitsIn[x][(k + 1) + (Bits - t)]
    BY DEF Reverses
  <2>3. (k + 1) + (Bits - t) = k + (Bits - (t - 1))
    BY <1>1, <1>2
  <2> QED BY <2>1, <2>2, <2>3
<1>12. ASSUME NEW k \in 0..(Bits - 1 - (t - 1))
       PROVE  BitsIn[w][k] = BitsIn[x][(Bits - 1 - (t - 1)) - k]
  <2>1. k \in 0..(Bits - 1) /\ k \in Nat
    BY <1>1, <1>5
  <2>2. BitsIn[w][k] = BitsIn[2 * v + bit][k]
    BY <1>10, <2>1
  <2>3. CASE k = 0
    <3>1. BitsIn[2 * v + bit][0] = bit /\ BitsIn[m][0] = bit
      BY <1>2, <1>4, <1>8, BitsOfDouble, BitsOfHalf
    <3>2. BitsIn[m][0] = BitsIn[x][0 + (Bits - t)]
      BY DEF Reverses
    <3>3. 0 + (Bits - t) = (Bits - 1 - (t - 1)) - 0
      BY <1>1, <1>2
    <3> QED BY <2>2, <2>3, <3>1, <3>2, <3>3
  <2>4. CASE k # 0
    <3>1. PICK j \in Nat : k = j + 1 /\ j \in 0..(Bits - 1 - t)
      <4>1. k - 1 \in Nat /\ k = (k - 1) + 1 /\ k - 1 \in 0..(Bits - 1 - t)
        BY <1>1, <1>2, <2>1, <2>4
      <4> QED BY <4>1
    <3>2. BitsIn[2 * v + bit][j + 1] = BitsIn[v][j]
      BY <1>2, BitsOfDouble
    <3>3. BitsIn[v][j] = BitsIn[x][(Bits - 1 - t) - j]
      BY <3>1 DEF Reverses
    <3>4. (Bits - 1 - t) - j = (Bits - 1 - (t - 1)) - k
      BY <1>1, <1>2, <3>1
    <3> QED BY <2>2, <3>1, <3>2, <3>3, <3>4
  <2> QED BY <2>3, <2>4
<1>13. Reverses(x, t - 1, m \div 2, w)
  BY <1>5, <1>7, <1>11, <1>12 DEF Reverses
<1> QED BY <1>6, <1>8, <1>9, <1>13

LEMMA AllIsReversed ==
  ASSUME NEW x, NEW t, NEW v, Reverses(x, t, 0, v), NEW k \in 0..(Bits - 1)
  PROVE  BitsIn[BitsOf!ToInt(v * BitsOf!PowerOf2[t])][k] = BitsIn[x][Bits - 1 - k]
<1>1. Bits \in Nat
  BY HalfOfTheInts
<1>2. t \in 0..(Bits - 1) /\ v \in Int /\ t \in Nat /\ k \in Nat
  BY <1>1 DEF Reverses
<1>3. PICK w \in Int : w = v * BitsOf!PowerOf2[t]
  <2>1. BitsOf!PowerOf2[t] \in Int
    BY <1>2, PowersDouble
  <2> QED BY <1>2, <2>1
<1>4. BitsIn[BitsOf!ToInt(w)][k] = BitsIn[w][k]
  BY IntKeepsBits
<1>5. BitsIn[w][k] = IF k < t THEN 0 ELSE BitsIn[v][k - t]
  BY <1>2, <1>3, BitsMovedUp
<1>6. CASE k < t
  <2>1. PICK j \in Nat : j = (t - k) - 1 /\ j + (Bits - t) = Bits - 1 - k
    BY <1>1, <1>2, <1>6
  <2>2. BitsIn[0][j] = BitsIn[x][j + (Bits - t)]
    BY DEF Reverses
  <2>3. BitsIn[0][j] = 0
    <3>1. PICK p \in Nat : p = BitsOf!PowerOf2[j] /\ p > j
      BY PowersDouble
    <3>2. 0 \in 0..(BitsOf!PowerOf2[j] - 1)
      BY <3>1
    <3> QED BY <3>2, NoHighBit
  <2> QED BY <1>3, <1>4, <1>5, <1>6, <2>1, <2>2, <2>3
<1>7. CASE ~ (k < t)
  <2>1. PICK j \in 0..(Bits - 1 - t) : j = k - t /\ (Bits - 1 - t) - j = Bits - 1 - k
    <3>1. k - t \in 0..(Bits - 1 - t) /\ (Bits - 1 - t) - (k - t) = Bits - 1 - k
      BY <1>1, <1>2, <1>7
    <3> QED BY <3>1
  <2>2. BitsIn[v][j] = BitsIn[x][(Bits - 1 - t) - j]
    BY DEF Reverses
  <2> QED BY <1>3, <1>4, <1>5, <1>7, <2>1, <2>2
<1> QED BY <1>6, <1>7

ReverseInv ==
  /\ pc = "reverse" => Reverses(ints[1], s, n, r)
  /\ pc = "done" =>
       /\ result.reversed \in Int
       /\ \A k \in 0..(Bits - 1) : BitsIn[result.reversed][k] = BitsIn[ints[1]][Bits - 1 - k]

LEMMA ReverseAlways == CountInv /\ ReverseInv /\ [BitsOf!Next]_bitVars => ReverseInv'
<1> SUFFICES ASSUME CountInv, ReverseInv, [BitsOf!Next]_bitVars PROVE ReverseInv'
  OBVIOUS
<1>1. CountInv'
  BY CountAlways
<1>2. CASE BitsOf!main \/ BitsOf!CountBit \/ BitsOf!CountedLeft
  <2>1. pc' = "count"
    BY <1>2 DEF BitsOf!main, BitsOf!CountBit, BitsOf!CountedLeft
  <2> QED BY <2>1 DEF ReverseInv
<1>3. CASE BitsOf!CountedRight
  <2>1. CASE pair[2] # 3
    <3>1. pc' = "count"
      BY <1>3, <2>1 DEF BitsOf!CountedRight
    <3> QED BY <3>1 DEF ReverseInv
  <2>2. CASE ~ (pair[2] # 3)
    <3>1. /\ pc' = "reverse" /\ n' = ints[1] \div 2 /\ r' = ints[1] /\ s' = Bits - 1
          /\ ints' = ints
      BY <1>3, <2>2 DEF BitsOf!CountedRight, BitsOf!ShiftRight
    <3>2. PICK x \in BitsOf!Ints : x = ints'[1] /\ x \geq 0
      BY <1>1, <3>1 DEF CountInv
    <3>3. Reverses(x, Bits - 1, x \div 2, x)
      BY <3>2, ReversalStarts
    <3>4. Reverses(ints[1], s, n, r)'
      BY <3>1, <3>2, <3>3 DEF Reverses
    <3> QED BY <3>1, <3>4 DEF ReverseInv
  <2> QED BY <2>1, <2>2
<1>4. CASE BitsOf!ReverseBit
  <2>1. /\ pc = "reverse" /\ pc' = "reverse" /\ n # 0 /\ ints' = ints
        /\ r' = BitsOf!ToInt(2 * r + (n % 2)) /\ s' = BitsOf!ToInt(s - 1) /\ n' = n \div 2
    BY <1>4 DEF BitsOf!ReverseBit, BitsOf!ShiftRight
  <2>2. PICK x, t, m, v : x = ints[1] /\ t = s /\ m = n /\ v = r
    OBVIOUS
  <2>3. Reverses(x, t, m, v) /\ m # 0
    BY <2>1, <2>2 DEF ReverseInv
  <2>4. s' = t - 1 /\ Reverses(x, t - 1, m \div 2, BitsOf!ToInt(2 * v + (m % 2)))
    BY <2>1, <2>2, <2>3, OneMoreReversed
  <2>5. PICK t1, m1, v1 : t1 = s' /\ m1 = n' /\ v1 = r'
    OBVIOUS
  <2>6. Reverses(x, t1, m1, v1)
    BY <2>1, <2>2, <2>4, <2>5
  <2>7. Reverses(ints[1], s, n, r)'
    BY <2>1, <2>2, <2>5, <2>6 DEF Reverses
  <2> QED BY <2>1, <2>7 DEF ReverseInv
<1>5. CASE BitsOf!Reversed
  <2>1. /\ pc = "reverse" /\ pc' = "done" /\ n = 0 /\ ints' = ints
        /\ result' = [result EXCEPT !.reversed = BitsOf!ToInt(r * BitsOf!PowerOf2[s])]
    BY <1>5 DEF BitsOf!Reversed, BitsOf!Moved
  <2>2. PICK x, t, v : x = ints[1] /\ t = s /\ v = r
    OBVIOUS
  <2>3. Reverses(x, t, 0, v)
    BY <2>1, <2>2 DEF ReverseInv
  <2>4. PICK w : w = BitsOf!ToInt(v * BitsOf!PowerOf2[t])
    OBVIOUS
  <2>5. result'.reversed = w
    BY <2>1, <2>2, <2>4 DEF CountInv
  <2>6. \A k \in 0..(Bits - 1) : BitsIn[w][k] = BitsIn[x][Bits - 1 - k]
    BY <2>3, <2>4, AllIsReversed
  <2>7. w \in Int
    <3>1. t \in Nat /\ v \in Int
      BY <2>3, HalfOfTheInts DEF Reverses
    <3>2. v * BitsOf!PowerOf2[t] \in Int
      BY <3>1, PowersDouble
    <3> QED BY <2>4, <3>2, IntKeepsBits
  <2> QED BY <2>1, <2>2, <2>5, <2>6, <2>7 DEF ReverseInv
<1>6. CASE UNCHANGED bitVars
  <2>1. UNCHANGED <<ints, pc, s, n, r, result>>
    BY <1>6 DEF bitVars
  <2> QED BY <2>1 DEF ReverseInv, Reverses
<1>7. CASE BitsOf!Done
  <2>1. UNCHANGED bitVars
    BY <1>7 DEF BitsOf!Done, BitsOf!vars, bitVars
  <2> QED BY <1>6, <2>1
<1> QED BY <1>2, <1>3, <1>4, <1>5, <1>6, <1>7 DEF BitsOf!Next, BitsOf!Step

LEMMA BitInvHolds == AllSpec => [](CountInv /\ ReverseInv)
<1>1. AllInit => CountInv /\ ReverseInv
  BY CountStart DEF AllInit, BitsOf!Idle, ReverseInv
<1>2. CountInv /\ ReverseInv /\ [AllNext]_allVars => CountInv' /\ ReverseInv'
  BY EachStep, CountAlways, ReverseAlways
<1> QED BY <1>1, <1>2, PTL DEF AllSpec

(* The argument with the most ones is found, and of several the first: the *)
(* comparisons are left to right, of ints of any width, and one that is    *)
(* negative never gets as far.                                             *)
THEOREM MostOnesComeFirst == AllSpec => []MostOnesFirst
<1>1. CountInv => MostOnesFirst
  <2> SUFFICES ASSUME CountInv, pc \in {"reverse", "done"}
               PROVE  \E x \in 1..3 :
                        /\ result.most = ints[x]
                        /\ \A y \in 1..3 : BitsOf!Ones(ints[y]) \leq BitsOf!Ones(ints[x])
                        /\ \A y \in 1..(x - 1) : BitsOf!Ones(ints[y]) < BitsOf!Ones(ints[x])
    BY DEF MostOnesFirst, BitsOf!MostOnesFirst
  <2>1. PICK b \in 1..3 : result.most = ints[b] /\ Leads(b, 3)
    BY DEF CountInv
  <2>2. \A y \in 1..3 : Weight[ints[y]] = BitsOf!Ones(ints[y])
    BY WeightOfHalf DEF CountInv
  <2>3. \A y \in 1..(b - 1) : y \in 1..3
    OBVIOUS
  <2>4. \A y \in 1..3 : BitsOf!Ones(ints[y]) \leq BitsOf!Ones(ints[b])
    BY <2>1, <2>2 DEF Leads
  <2>5. \A y \in 1..(b - 1) : BitsOf!Ones(ints[y]) < BitsOf!Ones(ints[b])
    BY <2>1, <2>2, <2>3 DEF Leads
  <2> QED BY <2>1, <2>4, <2>5
<1> QED BY <1>1, BitInvHolds, PTL

(* Every bit of the reversal is the one at the other end of the argument,  *)
(* although the argument's own bits are still in front of those moved.     *)
THEOREM BitsAreReversed == AllSpec => []BitsReversed
<1>1. CountInv /\ ReverseInv => BitsReversed
  <2> SUFFICES ASSUME CountInv, ReverseInv, pc = "done", NEW k \in 0..(Bits - 1)
               PROVE  BitsOf!Bit(result.reversed, k) = BitsOf!Bit(ints[1], Bits - 1 - k)
    BY DEF BitsReversed, BitsOf!BitsReversed
  <2>1. /\ result.reversed \in Int
        /\ BitsIn[result.reversed][k] = BitsIn[ints[1]][Bits - 1 - k]
    BY DEF ReverseInv
  <2>2. ints[1] \in Int
    <3>1. ints[1] \in BitsOf!Ints
      BY DEF CountInv
    <3> QED BY <3>1, WeightOfHalf
  <2>3. k \in Nat /\ Bits - 1 - k \in Nat
    <3>1. Bits \in Nat
      BY HalfOfTheInts
    <3> QED BY <3>1
  <2>4. BitsIn[result.reversed][k] = BitsOf!Bit(result.reversed, k)
    BY <2>1, <2>3, BitsOfHalf
  <2>5. BitsIn[ints[1]][Bits - 1 - k] = BitsOf!Bit(ints[1], Bits - 1 - k)
    BY <2>2, <2>3, BitsOfHalf
  <2> QED BY <2>1, <2>4, <2>5
<1> QED BY <1>1, BitInvHolds, PTL
=============================================================================
