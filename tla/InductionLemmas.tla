-------------------------- MODULE InductionLemmas --------------------------
(***************************************************************************)
(* Smallest and largest elements of sets of numbers.  What has to hold for *)
(* every number is proved with them: no number is the least for which it   *)
(* does not.  A recursive function exists for this reason, of the numbers  *)
(* or of anything with a size, and so does what FlattenSeq() is defined by.*)
(***************************************************************************)
EXTENDS Integers, FiniteSets, SequencesExt, FiniteSetTheorems, SequenceTheorems,
        WellFoundedInduction, TLAPS

(* Of any numbers one is the smallest.                                     *)
LEMMA LeastNatural ==
  ASSUME NEW T \in SUBSET Nat, T # {}
  PROVE  \E x \in T : \A y \in T : x \leq y
  <1> DEFINE Smaller == {ss \in Nat \X Nat : ss[1] < ss[2]}
  <1>1. IsWellFoundedOn(Smaller, Nat)
    BY NatLessThanWellFounded DEF OpToRel
  <1>2. \E x \in T : \A y \in T : ~ (<<y, x>> \in Smaller)
    <2> HIDE DEF Smaller
    <2> QED BY <1>1, WFMin
  <1>3. \A x, y \in Nat : y < x => <<y, x>> \in Smaller
    OBVIOUS
  <1>4. PICK x \in T : \A y \in T : ~ (<<y, x>> \in Smaller)
    BY <1>2
  <1>5. \A y \in T : ~ (y < x)
    <2> HIDE DEF Smaller
    <2> QED BY <1>3, <1>4
  <1> QED BY <1>5

(* A finite set of numbers has a largest element: of the non-empty sets    *)
(* without one none can have the fewest elements.                          *)
LEMMA LargestNatural ==
  ASSUME NEW T \in SUBSET Nat, IsFiniteSet(T), T # {}
  PROVE  \E x \in T : \A y \in T : y \leq x
  <1> DEFINE HasLargest(U) == \E x \in U : \A y \in U : y \leq x
             Bad == {U \in SUBSET T : U # {} /\ ~ HasLargest(U)}
             Sizes == {Cardinality(U) : U \in Bad}
  <1> SUFFICES ASSUME Bad # {} PROVE FALSE
    OBVIOUS
  <1>1. \A U \in SUBSET T : IsFiniteSet(U) /\ Cardinality(U) \in Nat
    BY FS_Subset, FS_CardinalityType
  <1>2. Sizes \in SUBSET Nat /\ Sizes # {}
    BY <1>1
  <1>3. PICK n \in Sizes : \A k \in Sizes : n \leq k
    <2> HIDE DEF Sizes
    <2> QED BY <1>2, LeastNatural
  <1>4. PICK U \in Bad : n = Cardinality(U)
    BY <1>3
  <1>5. PICK x \in U : TRUE
    BY <1>4
  <1>6. Cardinality(U \ {x}) = Cardinality(U) - 1
    BY <1>1, <1>4, <1>5, FS_RemoveElement
  <1>7. U \ {x} \notin Bad
    <2> SUFFICES ASSUME U \ {x} \in Bad PROVE FALSE
      OBVIOUS
    <2>1. n \leq Cardinality(U \ {x})
      BY <1>3
    <2> QED BY <2>1, <1>1, <1>4, <1>6
  <1>8. CASE U \ {x} = {}
    <2>1. U = {x} /\ x \in Nat
      BY <1>5, <1>8
    <2>2. HasLargest(U)
      BY <2>1
    <2> QED BY <2>2, <1>4
  <1>9. CASE U \ {x} # {}
    <2>1. HasLargest(U \ {x})
      BY <1>7, <1>9, <1>4
    <2>2. PICK z \in U \ {x} : \A y \in U \ {x} : y \leq z
      BY <2>1
    <2>3. HasLargest(U)
      <3>1. CASE x \leq z
        BY <2>2, <3>1
      <3>2. CASE ~ (x \leq z)
        BY <2>2, <3>2, <1>5
      <3> QED BY <3>1, <3>2
    <2> QED BY <2>3, <1>4
  <1> QED BY <1>8, <1>9

(* A set that holds 0, and the next number after each that it holds, has   *)
(* them all.                                                               *)
LEMMA AllNumbers ==
  ASSUME NEW T, 0 \in T, \A k \in Nat : k \in T => k + 1 \in T
  PROVE  Nat \subseteq T
  <1> SUFFICES ASSUME Nat \ T # {} PROVE FALSE
    OBVIOUS
  <1>1. PICK m \in Nat \ T : \A k \in Nat \ T : m \leq k
    <2>1. Nat \ T \in SUBSET Nat
      OBVIOUS
    <2> QED BY <2>1, LeastNatural
  <1>2. m - 1 \in Nat /\ m - 1 + 1 = m /\ ~ (m \leq m - 1)
    BY <1>1
  <1> QED BY <1>1, <1>2

(* A function of the numbers may be defined from its value at 0 and from a *)
(* rule that gives each value from the one before: such values exist up to *)
(* any number, and those for a larger number agree with them.              *)
Follows(f, base, Rule) ==
  /\ f[0] = base
  /\ \A k \in Nat : f[k + 1] = Rule[<<k, f[k]>>]

LEMMA RecursionOverNat ==
  ASSUME NEW V, NEW base \in V, NEW Rule \in [Nat \X V -> V]
  PROVE  \E f \in [Nat -> V] : Follows(f, base, Rule)
<1> DEFINE Part(k) == {g \in [0..k -> V] : /\ g[0] = base
                                          /\ \A j \in 0..(k - 1) : g[j + 1] = Rule[<<j, g[j]>>]}
<1>1. ASSUME NEW k \in Nat
      PROVE  Part(k) # {}
  <2> DEFINE Bad == {m \in Nat : Part(m) = {}}
  <2> SUFFICES ASSUME Bad # {} PROVE FALSE
    OBVIOUS
  <2>1. PICK m \in Bad : \A l \in Bad : m \leq l
    <3>1. Bad \in SUBSET Nat
      OBVIOUS
    <3> HIDE DEF Bad
    <3> QED BY <3>1, LeastNatural
  <2>2. m # 0
    <3>1. [j \in 0..0 |-> base] \in Part(0)
      OBVIOUS
    <3> HIDE DEF Part
    <3> QED BY <2>1, <3>1
  <2>3. PICK l \in Nat : m = l + 1
    <3>1. m \in Nat /\ m - 1 \in Nat /\ m = (m - 1) + 1
      BY <2>1, <2>2
    <3> QED BY <3>1
  <2>4. PICK g : g \in Part(l)
    <3>1. l \notin Bad
      <4>1. ~ (m \leq l)
        BY <2>3
      <4> HIDE DEF Bad
      <4> QED BY <2>1, <4>1
    <3> HIDE DEF Part
    <3> QED BY <3>1
  <2>5. PICK h : h = [j \in 0..(l + 1) |-> IF j = l + 1 THEN Rule[<<l, g[l]>>] ELSE g[j]]
    OBVIOUS
  <2>6. g \in [0..l -> V] /\ g[0] = base /\ \A j \in 0..(l - 1) : g[j + 1] = Rule[<<j, g[j]>>]
    BY <2>4
  <2>7. \A j \in 0..(l + 1) : j = l + 1 \/ j \in 0..l
    OBVIOUS
  <2>8. h \in [0..(l + 1) -> V]
    <3>1. Rule[<<l, g[l]>>] \in V
      BY <2>6
    <3> QED BY <2>5, <2>6, <2>7, <3>1
  <2>9. h[0] = base
    <3>1. 0 \in 0..(l + 1) /\ 0 # l + 1
      OBVIOUS
    <3> QED BY <2>5, <2>6, <3>1
  <2>10. ASSUME NEW j \in 0..l
         PROVE  h[j + 1] = Rule[<<j, h[j]>>]
    <3>1. h[j] = g[j] /\ j + 1 \in 0..(l + 1)
      BY <2>5
    <3>2. CASE j = l
      BY <2>5, <3>1, <3>2
    <3>3. CASE j # l
      <4>1. j \in 0..(l - 1) /\ j + 1 # l + 1
        BY <3>3
      <4> QED BY <2>5, <2>6, <3>1, <4>1
    <3> QED BY <3>2, <3>3
  <2>11. h \in Part(l + 1)
    <3>1. (l + 1) - 1 = l
      OBVIOUS
    <3> QED BY <2>8, <2>9, <2>10, <3>1
  <2> HIDE DEF Part
  <2> QED BY <2>1, <2>3, <2>11
<1>2. ASSUME NEW k \in Nat, NEW g \in Part(k), NEW h \in Part(k + 1)
      PROVE  g[k] = h[k]
  <2>1. /\ g[0] = base /\ \A j \in 0..(k - 1) : g[j + 1] = Rule[<<j, g[j]>>]
        /\ h[0] = base /\ \A j \in 0..k : h[j + 1] = Rule[<<j, h[j]>>]
    <3>1. (k + 1) - 1 = k
      OBVIOUS
    <3> QED BY <3>1
  <2> DEFINE Differ == {j \in 0..k : g[j] # h[j]}
  <2>2. Differ = {}
    <3> SUFFICES ASSUME Differ # {} PROVE FALSE
      OBVIOUS
    <3>1. Differ \in SUBSET Nat
      OBVIOUS
    <3>2. PICK j \in Differ : \A m \in Differ : j \leq m
      <4> HIDE DEF Differ
      <4> QED BY <3>1, LeastNatural
    <3>3. j \in 0..k /\ g[j] # h[j]
      BY <3>2
    <3>4. PICK m \in Nat : j = m + 1
      <4>1. j - 1 \in Nat /\ j = (j - 1) + 1
        BY <2>1, <3>3
      <4> QED BY <4>1
    <3>5. m \in 0..(k - 1) /\ m \in 0..k /\ ~ (j \leq m)
      BY <3>3, <3>4
    <3>6. g[m] = h[m]
      BY <3>2, <3>5
    <3> QED BY <2>1, <3>3, <3>4, <3>5, <3>6
  <2> QED BY <2>2
<1>3. PICK f : f = [k \in Nat |-> (CHOOSE g : g \in Part(k))[k]]
  OBVIOUS
<1>4. ASSUME NEW k \in Nat
      PROVE  \E g \in Part(k) : f[k] = g[k]
  <2>1. PICK g : g = CHOOSE p : p \in Part(k)
    OBVIOUS
  <2>2. g \in Part(k)
    <3> HIDE DEF Part
    <3> QED BY <1>1, <2>1
  <2>3. f[k] = g[k]
    <3> HIDE DEF Part
    <3> QED BY <1>3, <2>1
  <2> HIDE DEF Part
  <2> QED BY <2>2, <2>3
<1>5. \A k \in Nat : f[k] \in V
  <2> SUFFICES ASSUME NEW k \in Nat PROVE f[k] \in V
    OBVIOUS
  <2>1. PICK g \in Part(k) : f[k] = g[k]
    BY <1>4
  <2> QED BY <2>1
<1>6. f \in [Nat -> V]
  <2>1. f = [k \in Nat |-> f[k]]
    <3> HIDE DEF Part
    <3> QED BY <1>3
  <2> QED BY <1>5, <2>1
<1>7. f[0] = base
  <2>1. PICK g \in Part(0) : f[0] = g[0]
    BY <1>4
  <2> QED BY <2>1
<1>8. ASSUME NEW k \in Nat
      PROVE  f[k + 1] = Rule[<<k, f[k]>>]
  <2>1. PICK g \in Part(k) : f[k] = g[k]
    BY <1>4
  <2>2. PICK h \in Part(k + 1) : f[k + 1] = h[k + 1]
    <3> HIDE DEF Part
    <3> QED BY <1>4
  <2>3. g[k] = h[k]
    <3> HIDE DEF Part
    <3> QED BY <1>2
  <2>4. k \in 0..((k + 1) - 1)
    OBVIOUS
  <2>5. h[k + 1] = Rule[<<k, h[k]>>]
    BY <2>4
  <2> QED BY <2>1, <2>2, <2>3, <2>5
<1> QED BY <1>6, <1>7, <1>8 DEF Follows

(* A function may be defined by its values at what is smaller: Body makes  *)
(* one function of another, and asks it only about what is smaller.        *)
AsksSmaller(D, V, size, base, Body) ==
  /\ size \in [D -> Nat] /\ base \in [D -> V] /\ Body \in [[D -> V] -> [D -> V]]
  /\ \A g, h \in [D -> V] : \A x \in D :
       (\A y \in D : size[y] < size[x] => g[y] = h[y]) => Body[g][x] = Body[h][x]

LEMMA RecursionOverSize ==
  ASSUME NEW D, NEW V, NEW size, NEW base, NEW Body, AsksSmaller(D, V, size, base, Body)
  PROVE  \E f \in [D -> V] : f = Body[f]
<1> SUFFICES ASSUME size \in [D -> Nat], base \in [D -> V], Body \in [[D -> V] -> [D -> V]]
             PROVE  \E f \in [D -> V] : f = Body[f]
  BY DEF AsksSmaller
<1>1. PICK W : W = [D -> V]
  OBVIOUS
<1>2. PICK Rule : Rule = [p \in Nat \X W |-> Body[p[2]]]
  OBVIOUS
<1>3. Rule \in [Nat \X W -> W]
  BY <1>1, <1>2
<1>4. PICK F \in [Nat -> W] : Follows(F, base, Rule)
  BY <1>1, <1>3, RecursionOverNat
<1>5. \A k \in Nat : F[k] \in W /\ F[k + 1] = Body[F[k]]
  <2> TAKE k \in Nat
  <2>1. F[k] \in W /\ F[k + 1] = Rule[<<k, F[k]>>]
    BY <1>4 DEF Follows
  <2>2. <<k, F[k]>> \in Nat \X W
    BY <2>1
  <2> QED BY <1>2, <2>1, <2>2
<1> DEFINE Settled == {k \in Nat : \A x \in D : size[x] < k => F[k + 1][x] = F[k][x]}
           Stays == {k \in Nat : \A x \in D : size[x] < k => F[k][x] = F[size[x] + 1][x]}
<1>6. Nat \subseteq Settled
  <2>1. 0 \in Settled
    OBVIOUS
  <2>2. ASSUME NEW k \in Nat, k \in Settled PROVE k + 1 \in Settled
    <3> SUFFICES ASSUME NEW x \in D, size[x] < k + 1 PROVE F[k + 1 + 1][x] = F[k + 1][x]
      OBVIOUS
    <3>1. \A y \in D : size[y] < size[x] => F[k + 1][y] = F[k][y]
      <4> TAKE y \in D
      <4>1. size[x] \in Nat /\ size[y] \in Nat
        OBVIOUS
      <4> QED BY <2>2, <4>1
    <3>2. /\ k + 1 \in Nat /\ F[k + 1] \in [D -> V] /\ F[k] \in [D -> V]
          /\ F[k + 1] = Body[F[k]] /\ F[k + 1 + 1] = Body[F[k + 1]]
      BY <1>1, <1>5
    <3> QED BY SMTT(30), <3>1, <3>2 DEF AsksSmaller
  <2> HIDE DEF Settled
  <2> QED BY <2>1, <2>2, AllNumbers
<1>7. Nat \subseteq Stays
  <2>1. 0 \in Stays
    OBVIOUS
  <2>2. ASSUME NEW k \in Nat, k \in Stays PROVE k + 1 \in Stays
    <3> SUFFICES ASSUME NEW x \in D, size[x] < k + 1 PROVE F[k + 1][x] = F[size[x] + 1][x]
      OBVIOUS
    <3>1. CASE size[x] = k
      BY <3>1
    <3>2. CASE size[x] < k
      BY <1>6, <2>2, <3>2
    <3>3. size[x] \in Nat
      OBVIOUS
    <3> QED BY <3>1, <3>2, <3>3
  <2> HIDE DEF Stays
  <2> QED BY <2>1, <2>2, AllNumbers
<1>8. PICK f : f = [x \in D |-> F[size[x] + 1][x]]
  OBVIOUS
<1>9. f \in [D -> V]
  <2>1. \A x \in D : F[size[x] + 1] \in [D -> V]
    BY <1>1, <1>5
  <2> QED BY <1>8, <2>1
<1>10. ASSUME NEW x \in D PROVE f[x] = Body[f][x]
  <2>1. PICK k \in Nat : k = size[x]
    OBVIOUS
  <2>2. f[x] = F[k + 1][x] /\ F[k + 1] = Body[F[k]] /\ F[k] \in [D -> V]
    BY <1>1, <1>5, <1>8, <2>1
  <2>3. \A y \in D : size[y] < size[x] => f[y] = F[k][y]
    BY <1>7, <1>8, <2>1
  <2>4. Body[f][x] = Body[F[k]][x]
    BY <1>9, <2>2, <2>3 DEF AsksSmaller
  <2> QED BY <2>2, <2>4
<1>11. Body[f] \in [D -> V]
  BY <1>9
<1> QED BY <1>9, <1>10, <1>11

-----------------------------------------------------------------------------
(* Sequences joined by FlattenSeq(), one by one: what stands in front of   *)
(* each of them.                                                           *)
IsFront(S, seqs, n, flat) ==
  /\ \A k \in 0..n : flat[k] \in Seq(S)
  /\ flat[0] = << >>
  /\ \A k \in 1..n : flat[k] = flat[k - 1] \o seqs[k]

LEMMA FrontsExist ==
  ASSUME NEW S, NEW seqs \in Seq(Seq(S)), NEW n \in 0..Len(seqs)
  PROVE  \E flat : IsFront(S, seqs, n, flat)
  <1> DEFINE Solved(m) == \E flat : IsFront(S, seqs, m, flat)
             Bad == {m \in 0..Len(seqs) : ~ Solved(m)}
  <1>1. Solved(0)
    <2>1. IsFront(S, seqs, 0, [k \in 0..0 |-> << >>])
      BY DEF IsFront
    <2> QED BY <2>1
  <1>2. ASSUME NEW m \in 1..Len(seqs), Solved(m - 1) PROVE Solved(m)
    <2>1. PICK g : IsFront(S, seqs, m - 1, g)
      BY <1>2
    <2> DEFINE h == [k \in 0..m |-> IF k = m THEN g[m - 1] \o seqs[m] ELSE g[k]]
    <2>2. /\ m \in Nat /\ m - 1 \in 0..(m - 1) /\ seqs[m] \in Seq(S)
          /\ 0..m = 0..(m - 1) \cup {m} /\ m \notin 0..(m - 1) /\ 0 \in 0..(m - 1)
      OBVIOUS
    <2>3. (\A k \in 0..(m - 1) : g[k] \in Seq(S)) /\ g[0] = << >>
            /\ \A k \in 1..(m - 1) : g[k] = g[k - 1] \o seqs[k]
      BY <2>1 DEF IsFront
    <2>4. g[m - 1] \o seqs[m] \in Seq(S)
      BY <2>2, <2>3, ConcatProperties
    <2>5. (\A k \in 0..m : h[k] \in Seq(S)) /\ h[0] = << >>
      BY SMTT(30), <2>2, <2>3, <2>4
    <2>6. ASSUME NEW k \in 1..m PROVE h[k] = h[k - 1] \o seqs[k]
      <3>1. k - 1 \in 0..m /\ k - 1 # m /\ k \in 0..m
        BY <2>2
      <3>2. h[k - 1] = g[k - 1]
        BY <3>1
      <3>3. CASE k = m
        BY <3>2, <3>3, <3>1
      <3>4. CASE k # m
        <4>1. h[k] = g[k] /\ k \in 1..(m - 1)
          BY <3>1, <3>4
        <4> QED BY <4>1, <3>2, <2>3
      <3> QED BY <3>3, <3>4
    <2>7. IsFront(S, seqs, m, h)
      <3> HIDE DEF h
      <3> QED BY <2>5, <2>6 DEF IsFront
    <2> QED BY <2>7
  <1>3. Bad = {}
    <2> SUFFICES ASSUME Bad # {} PROVE FALSE
      OBVIOUS
    <2>1. Bad \in SUBSET Nat
      OBVIOUS
    <2>2. PICK m \in Bad : \A k \in Bad : m \leq k
      <3> HIDE DEF Bad
      <3> QED BY <2>1, LeastNatural
    <2>3. m \in 1..Len(seqs)
      BY <1>1, <2>2
    <2>4. m - 1 \in 0..Len(seqs) /\ m - 1 \notin Bad
      <3>1. m - 1 \in 0..Len(seqs) /\ ~ (m \leq m - 1)
        BY <2>3
      <3> HIDE DEF Bad
      <3> QED BY <3>1, <2>2
    <2> QED BY <2>2, <2>3, <2>4, <1>2
  <1> QED BY <1>3

(* Two solutions of the recursion in FlattenSeq() agree.                   *)
LEMMA FlattenIsFront ==
  ASSUME NEW S, NEW seqs \in Seq(Seq(S)), NEW n \in 0..Len(seqs), NEW flat,
         IsFront(S, seqs, n, flat), NEW s, s = SubSeq(seqs, 1, n)
  PROVE  FlattenSeq(s) = flat[n]
  <1>1. s \in Seq(Seq(S)) /\ Len(s) = n /\ \A k \in 1..n : s[k] = seqs[k] /\ seqs[k] \in Seq(S)
    BY SubSeqProperties
  <1>2. CASE n = 0
    <2>1. s = << >>
      BY <1>1, <1>2
    <2> QED BY <2>1, <1>1, <1>2 DEF FlattenSeq, IsFront
  <1>3. CASE n # 0
    <2> DEFINE Eq(f) == f = [k \in 1..n |-> IF k = 1 THEN s[k] ELSE f[k - 1] \o s[k]]
               g == [k \in 1..n |-> flat[k]]
    <2>1. (\A k \in 0..n : flat[k] \in Seq(S)) /\ flat[0] = << >>
            /\ \A k \in 1..n : flat[k] = flat[k - 1] \o seqs[k]
      BY DEF IsFront
    <2>2. flat[1] = s[1]
      <3>1. flat[1] = << >> \o seqs[1]
        <4>1. 1 \in 1..n /\ 1 - 1 = 0
          BY <1>3
        <4>2. flat[1] = flat[1 - 1] \o seqs[1]
          BY <4>1, <2>1
        <4> QED BY <4>1, <4>2, <2>1
      <3> QED BY <3>1, <1>1, <1>3, ConcatEmptySeq
    <2>3. ASSUME NEW k \in 1..n PROVE g[k] = IF k = 1 THEN s[k] ELSE g[k - 1] \o s[k]
      <3>1. CASE k = 1
        BY <3>1, <2>2
      <3>2. CASE k # 1
        <4>1. k - 1 \in 1..n
          BY <3>2
        <4> QED BY <4>1, <3>2, <1>1, <2>1
      <3> QED BY <3>1, <3>2
    <2>4. Eq(g)
      <3>1. g = [k \in 1..n |-> g[k]]
        OBVIOUS
      <3> HIDE DEF g
      <3> QED BY <3>1, <2>3
    <2>5. PICK f : f = CHOOSE x : Eq(x)
      OBVIOUS
    <2>6. Eq(f)
      <3> HIDE DEF Eq, g
      <3> QED BY <2>4, <2>5
    <2>7. FlattenSeq(s) = f[n]
      BY <2>5, <1>1, <1>3 DEF FlattenSeq
    <2> DEFINE Bad == {k \in 1..n : f[k] # flat[k]}
    <2>8. Bad = {}
      <3> SUFFICES ASSUME Bad # {} PROVE FALSE
        OBVIOUS
      <3>1. Bad \in SUBSET Nat
        OBVIOUS
      <3>2. PICK k \in Bad : \A j \in Bad : k \leq j
        <4> HIDE DEF Bad
        <4> QED BY <3>1, LeastNatural
      <3>3. k \in 1..n /\ f[k] # flat[k]
        BY <3>2
      <3>4. CASE k = 1
        <4>1. f[1] = s[1]
          BY <2>6, <3>3, <3>4
        <4> QED BY <4>1, <3>3, <3>4, <2>2
      <3>5. CASE k # 1
        <4>1. k - 1 \in 1..n /\ ~ (k \leq k - 1)
          BY <3>3, <3>5
        <4>2. f[k - 1] = flat[k - 1]
          <5>1. k - 1 \notin Bad
            <6> HIDE DEF Bad
            <6> QED BY SMTT(30), <3>2, <4>1
          <5> QED BY <4>1, <5>1
        <4>3. f[k] = f[k - 1] \o s[k]
          BY <2>6, <3>3, <3>5
        <4> QED BY <4>2, <4>3, <3>3, <1>1, <2>1
      <3> QED BY <3>4, <3>5
    <2>9. n \in 1..n
      BY <1>3
    <2> QED BY <2>7, <2>8, <2>9
  <1> QED BY <1>2, <1>3

LEMMA FlattenHasFronts ==
  ASSUME NEW S, NEW seqs \in Seq(Seq(S)), NEW n, n = Len(seqs)
  PROVE  \E flat : /\ IsFront(S, seqs, n, flat)
                   /\ \A k \in 0..n : FlattenSeq(SubSeq(seqs, 1, k)) = flat[k]
                   /\ FlattenSeq(seqs) = flat[n]
  <1>1. n \in Nat /\ n \in 0..n
    OBVIOUS
  <1>2. PICK flat : IsFront(S, seqs, n, flat)
    BY <1>1, FrontsExist
  <1>3. ASSUME NEW k \in 0..n PROVE FlattenSeq(SubSeq(seqs, 1, k)) = flat[k]
    <2>1. 0..k \subseteq 0..n /\ 1..k \subseteq 1..n
      BY <1>1
    <2>2. IsFront(S, seqs, k, flat)
      BY <2>1, <1>2 DEF IsFront
    <2> QED BY <1>1, <2>2, FlattenIsFront
  <1>4. SubSeq(seqs, 1, n) = seqs
    BY <1>1, SubSeqFull
  <1> QED BY <1>1, <1>2, <1>3, <1>4

LEMMA FlattenUnfold ==
  ASSUME NEW S, NEW seqs \in Seq(Seq(S)), NEW n, n = Len(seqs)
  PROVE  /\ FlattenSeq(seqs) \in Seq(S)
         /\ FlattenSeq(SubSeq(seqs, 1, n)) = FlattenSeq(seqs)
         /\ FlattenSeq(SubSeq(seqs, 1, 0)) = << >>
         /\ \A k \in 0..n : FlattenSeq(SubSeq(seqs, 1, k)) \in Seq(S)
         /\ \A k \in 1..n :
              FlattenSeq(SubSeq(seqs, 1, k)) = FlattenSeq(SubSeq(seqs, 1, k - 1)) \o seqs[k]
  <1>1. PICK flat : /\ IsFront(S, seqs, n, flat)
                    /\ \A k \in 0..n : FlattenSeq(SubSeq(seqs, 1, k)) = flat[k]
                    /\ FlattenSeq(seqs) = flat[n]
    BY FlattenHasFronts
  <1>2. n \in Nat /\ 0 \in 0..n /\ n \in 0..n /\ \A k \in 1..n : k \in 0..n /\ k - 1 \in 0..n
    OBVIOUS
  <1>3. /\ \A k \in 0..n : flat[k] \in Seq(S)
        /\ flat[0] = << >>
        /\ \A k \in 1..n : flat[k] = flat[k - 1] \o seqs[k]
    BY <1>1 DEF IsFront
  <1> QED BY <1>1, <1>2, <1>3
=============================================================================
