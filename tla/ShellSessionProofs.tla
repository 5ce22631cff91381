------------------------- MODULE ShellSessionProofs -------------------------
(***************************************************************************)
(* Of lines and texts of any length: a line that ends with its newline     *)
(* gives the same words whatever the lines before it left in the buffer, a *)
(* line of plain characters its runs of characters, the session does what  *)
(* Shell says of the lines one by one, and a text of plain words has its   *)
(* commands run.                                                           *)
(***************************************************************************)
EXTENDS ShellSession, InductionLemmas, SequenceTheorems, FiniteSetTheorems, TLAPS

-----------------------------------------------------------------------------
(* Where a word begins and ends.                                           *)

LEMMA CellsAreNumbers == Cells \subseteq Nat /\ \A c \in Nat : c \in Cells <=> c < MaxLine
  BY ReaderAssumption DEF Cells

(* The first of some cells from p on.                                      *)
LEMMA FirstOf ==
  ASSUME NEW T \in SUBSET Cells, NEW p \in Nat, \E c \in T : c \geq p
  PROVE  \E c \in T : c \geq p /\ \A d \in T : d \geq p => c \leq d
  <1> DEFINE U == {c \in T : c \geq p}
  <1>1. U \in SUBSET Nat /\ U # {}
    BY CellsAreNumbers
  <1>2. PICK c \in U : \A d \in U : c \leq d
    <2> HIDE DEF U
    <2> QED BY <1>1, LeastNatural
  <1> QED BY <1>2

LEMMA WordBeginIsFirst ==
  ASSUME NEW buf, NEW p \in Nat, p \leq MaxLine
  PROVE  \E b \in p..MaxLine :
           /\ WordBegin(buf, p) = b
           /\ b < MaxLine => buf[b] \notin {BLANK, TAB, BACKSLASH}
           /\ \A c \in p..(b - 1) : buf[c] \in {BLANK, TAB, BACKSLASH}
  <1> DEFINE T == {c \in Cells : buf[c] \notin {BLANK, TAB, BACKSLASH}}
  <1>1. CASE \E c \in T : c \geq p
    <2>1. PICK b \in T : b \geq p /\ \A d \in T : d \geq p => b \leq d
      BY <1>1, FirstOf
    <2>2. b \in Cells /\ b \geq p /\ b \in T /\ \A d \in p..(b - 1) : ~ (d \in T)
      BY <2>1, CellsAreNumbers
    <2>3. \A d \in p..(b - 1) : buf[d] \in {BLANK, TAB, BACKSLASH}
      BY <2>2, CellsAreNumbers, ReaderAssumption
    <2>4. PICK B : B = CHOOSE i \in Cells : i \geq p /\ buf[i] \notin {BLANK, TAB, BACKSLASH}
                              /\ \A j \in p..(i - 1) : ~ (buf[j] \notin {BLANK, TAB, BACKSLASH})
      OBVIOUS
    <2>5. B \in Cells /\ B \geq p /\ buf[B] \notin {BLANK, TAB, BACKSLASH}
            /\ \A j \in p..(B - 1) : ~ (buf[j] \notin {BLANK, TAB, BACKSLASH})
      BY <2>2, <2>3, <2>4
    <2>6. WordBegin(buf, p) = B
      BY <1>1, <2>4 DEF WordBegin, FirstFrom
    <2>7. B \in p..MaxLine
      BY <2>5, CellsAreNumbers, ReaderAssumption
    <2> QED BY <2>5, <2>6, <2>7
  <1>2. CASE ~ \E c \in T : c \geq p
    <2>1. WordBegin(buf, p) = MaxLine
      BY <1>2 DEF WordBegin, FirstFrom
    <2>2. \A c \in p..(MaxLine - 1) : c \in Cells
      BY ReaderAssumption DEF Cells
    <2> QED BY <2>1, <2>2, <1>2, ReaderAssumption
  <1> QED BY <1>1, <1>2

LEMMA WordEndIsFirst ==
  ASSUME NEW buf, NEW p \in Nat, p \leq MaxLine,
         NEW b \in p..MaxLine, WordBegin(buf, p) = b
  PROVE  \E e \in b..MaxLine :
           /\ WordEnd(buf, p) = e
           /\ e < MaxLine => buf[e] \in {NUL, NL, BLANK, "#"}
           /\ \A c \in b..(e - 1) : buf[c] \notin {NUL, NL, BLANK, "#"}
  <1> DEFINE T == {c \in Cells : buf[c] \in {NUL, NL, BLANK, "#"}}
  <1>0. b \in Nat /\ b \leq MaxLine
    BY ReaderAssumption
  <1>1. CASE \E c \in T : c \geq b
    <2>1. PICK e \in T : e \geq b /\ \A d \in T : d \geq b => e \leq d
      BY <1>0, <1>1, FirstOf
    <2>2. e \in Cells /\ e \geq b /\ e \in T /\ \A d \in b..(e - 1) : ~ (d \in T)
      BY <1>0, <2>1, CellsAreNumbers
    <2>3. \A d \in b..(e - 1) : buf[d] \notin {NUL, NL, BLANK, "#"}
      BY <1>0, <2>2, CellsAreNumbers, ReaderAssumption
    <2>4. PICK E : E = CHOOSE i \in Cells : i \geq b /\ buf[i] \in {NUL, NL, BLANK, "#"}
                              /\ \A j \in b..(i - 1) : ~ (buf[j] \in {NUL, NL, BLANK, "#"})
      OBVIOUS
    <2>5. E \in Cells /\ E \geq b /\ buf[E] \in {NUL, NL, BLANK, "#"}
            /\ \A j \in b..(E - 1) : ~ (buf[j] \in {NUL, NL, BLANK, "#"})
      BY <2>2, <2>3, <2>4
    <2>6. WordEnd(buf, p) = E
      BY <1>1, <2>4 DEF WordEnd, FirstFrom
    <2>7. E \in b..MaxLine
      BY <1>0, <2>5, CellsAreNumbers, ReaderAssumption
    <2> QED BY <2>5, <2>6, <2>7
  <1>2. CASE ~ \E c \in T : c \geq b
    <2>1. WordEnd(buf, p) = MaxLine
      BY <1>2 DEF WordEnd, FirstFrom
    <2>2. \A c \in b..(MaxLine - 1) : c \in Cells
      BY <1>0, ReaderAssumption DEF Cells
    <2> QED BY <1>0, <2>1, <2>2, <1>2, ReaderAssumption
  <1> QED BY <1>1, <1>2

(* Behind the buffer there is no word.                                     *)
LEMMA NoWordBehind ==
  ASSUME NEW buf
  PROVE  WordBegin(buf, MaxLine + 1) = MaxLine /\ WordEnd(buf, MaxLine + 1) = MaxLine
  <1>1. ~ \E c \in Cells : c \geq MaxLine
    BY ReaderAssumption DEF Cells
  <1>2. ~ \E c \in Cells : c \geq MaxLine + 1
    BY ReaderAssumption DEF Cells
  <1>3. WordBegin(buf, MaxLine + 1) = MaxLine
    BY <1>2 DEF WordBegin, FirstFrom
  <1> QED BY <1>1, <1>3 DEF WordEnd, FirstFrom

(* Nor at the terminator.                                                  *)
LEMMA NoWordAtEnd ==
  ASSUME NEW buf, NEW p \in Nat, p \leq MaxLine, p < MaxLine => buf[p] = NUL
  PROVE  WordEnd(buf, p) = WordBegin(buf, p)
  <1> USE ReaderAssumption
  <1>1. PICK b \in p..MaxLine :
          /\ WordBegin(buf, p) = b
          /\ \A c \in p..(b - 1) : buf[c] \in {BLANK, TAB, BACKSLASH}
    BY WordBeginIsFirst
  <1>2. PICK e \in b..MaxLine :
          /\ WordEnd(buf, p) = e
          /\ \A c \in b..(e - 1) : buf[c] \notin {NUL, NL, BLANK, "#"}
    BY <1>1, WordEndIsFirst
  <1>3. NUL \notin {BLANK, TAB, BACKSLASH} /\ NUL \in {NUL, NL, BLANK, "#"}
    BY DEF NUL, BLANK, TAB, BACKSLASH
  <1>4. b = p
    BY <1>1, <1>3
  <1>5. e = b
    BY <1>2, <1>3, <1>4
  <1> QED BY <1>1, <1>2, <1>5

LEMMA NextWordIsLater ==
  ASSUME NEW buf, NEW p \in 0..(MaxLine + 1), WordEnd(buf, p) # WordBegin(buf, p)
  PROVE  p \leq MaxLine /\ NextWord(buf, p) \in (p + 1)..(MaxLine + 1)
  <1>1. p \in Nat /\ p \leq MaxLine
    BY NoWordBehind, ReaderAssumption
  <1>2. PICK b \in p..MaxLine : WordBegin(buf, p) = b
    BY <1>1, WordBeginIsFirst
  <1>3. PICK e \in b..MaxLine : WordEnd(buf, p) = e
    BY <1>1, <1>2, WordEndIsFirst
  <1> QED BY <1>1, <1>2, <1>3, ReaderAssumption DEF NextWord

-----------------------------------------------------------------------------
(* The words from cell p on, in terms of those behind the first of them.   *)
Starts == 0..(MaxLine + 1)

NoWords == [words |-> << >>, cuts |-> {}]

WordsFrom(buf, from, p) ==
  IF WordEnd(buf, p) = WordBegin(buf, p) THEN NoWords
  ELSE [words |-> <<Word(buf, p)>> \o from[NextWord(buf, p)].words,
        cuts |-> {WordEnd(buf, p)} \cup from[NextWord(buf, p)].cuts]

AreWordsOf(buf, S, from) == from = [p \in S |-> WordsFrom(buf, from, p)]

(* getargs()'s loop ends, so that the recursion has a solution: from the   *)
(* last cell down, there is one for any number of cells.                   *)
LEMMA WordsFromExist ==
  ASSUME NEW buf
  PROVE  \E from : AreWordsOf(buf, Starts, from)
  <1> DEFINE Tail_(m) == (MaxLine + 1 - m)..(MaxLine + 1)
             Solved(m) == \E from : AreWordsOf(buf, Tail_(m), from)
             Bad == {m \in Starts : ~ Solved(m)}
  <1>1. Solved(0)
    <2> DEFINE g == [p \in {MaxLine + 1} |-> NoWords]
    <2>1. Tail_(0) = {MaxLine + 1}
      BY ReaderAssumption
    <2>2. WordsFrom(buf, g, MaxLine + 1) = NoWords
      BY NoWordBehind DEF WordsFrom
    <2>3. AreWordsOf(buf, {MaxLine + 1}, g)
      BY <2>2 DEF AreWordsOf
    <2> QED BY <2>1, <2>3
  <1>2. ASSUME NEW m \in Starts, m # 0, Solved(m - 1) PROVE Solved(m)
    <2> DEFINE q == MaxLine + 1 - m
    <2>1. PICK g : AreWordsOf(buf, Tail_(m - 1), g)
      BY <1>2
    <2> DEFINE h == [p \in Tail_(m) |-> IF p = q THEN WordsFrom(buf, g, p) ELSE g[p]]
    <2>2. /\ q \in Starts /\ Tail_(m) = {q} \cup Tail_(m - 1)
          /\ Tail_(m) \subseteq Starts /\ q \notin Tail_(m - 1)
          /\ \A p \in Tail_(m) : (p + 1)..(MaxLine + 1) \subseteq Tail_(m - 1)
      BY ReaderAssumption DEF Starts
    <2>3. \A p \in Tail_(m - 1) : h[p] = g[p] /\ g[p] = WordsFrom(buf, g, p)
      BY <2>1, <2>2 DEF AreWordsOf
    <2>4. ASSUME NEW p \in Tail_(m) PROVE WordsFrom(buf, h, p) = WordsFrom(buf, g, p)
      <3>1. CASE WordEnd(buf, p) = WordBegin(buf, p)
        BY <3>1 DEF WordsFrom
      <3>2. CASE WordEnd(buf, p) # WordBegin(buf, p)
        <4>1. p \in 0..(MaxLine + 1)
          BY <2>2 DEF Starts
        <4>2. NextWord(buf, p) \in (p + 1)..(MaxLine + 1)
          BY <4>1, <3>2, NextWordIsLater
        <4>3. NextWord(buf, p) \in Tail_(m - 1)
          BY <4>2, <2>2
        <4>4. h[NextWord(buf, p)] = g[NextWord(buf, p)]
          BY <4>3, <2>3
        <4> QED BY <4>4 DEF WordsFrom
      <3> QED BY <3>1, <3>2
    <2>5. \A p \in Tail_(m) : h[p] = WordsFrom(buf, g, p)
      BY <2>2, <2>3
    <2>6. h = [p \in Tail_(m) |-> WordsFrom(buf, h, p)]
      <3> HIDE DEF Tail_
      <3>1. h = [p \in Tail_(m) |-> h[p]]
        OBVIOUS
      <3>2. \A p \in Tail_(m) : h[p] = WordsFrom(buf, h, p)
        BY <2>4, <2>5
      <3> HIDE DEF h
      <3> QED BY <3>1, <3>2
    <2> QED BY <2>6 DEF AreWordsOf
  <1>3. Bad = {}
    <2> SUFFICES ASSUME Bad # {} PROVE FALSE
      OBVIOUS
    <2>1. Bad \in SUBSET Nat
      BY ReaderAssumption DEF Starts
    <2>2. PICK m \in Bad : \A k \in Bad : m \leq k
      <3> HIDE DEF Bad
      <3> QED BY <2>1, LeastNatural
    <2>3. m \in Starts /\ m # 0
      BY <1>1, <2>2
    <2>4. m - 1 \in Starts /\ m - 1 \notin Bad
      <3>1. m \in Nat /\ ~ (m \leq m - 1) /\ m - 1 \in Starts
        BY <2>3, ReaderAssumption DEF Starts
      <3> HIDE DEF Bad
      <3> QED BY <3>1, <2>2
    <2> QED BY <2>2, <2>3, <2>4, <1>2
  <1>4. Solved(MaxLine + 1) /\ Tail_(MaxLine + 1) = Starts
    <2>1. MaxLine + 1 \in Starts /\ Tail_(MaxLine + 1) = Starts
      BY ReaderAssumption DEF Starts
    <2> QED BY <1>3, <2>1
  <1> QED BY <1>4

LEMMA FirstWord ==
  ASSUME NEW buf, NEW from, NEW p
  PROVE  /\ WordEnd(buf, p) = WordBegin(buf, p) => WordsFrom(buf, from, p).words = << >>
         /\ WordEnd(buf, p) # WordBegin(buf, p)
              => WordsFrom(buf, from, p).words = <<Word(buf, p)>> \o from[NextWord(buf, p)].words
         /\ WordsFrom(buf, from, p).cuts
              = IF WordEnd(buf, p) = WordBegin(buf, p) THEN {}
                ELSE {WordEnd(buf, p)} \cup from[NextWord(buf, p)].cuts
  <1>1. CASE WordEnd(buf, p) = WordBegin(buf, p)
    <2>1. WordsFrom(buf, from, p) = [words |-> << >>, cuts |-> {}]
      BY <1>1 DEF WordsFrom, NoWords
    <2> QED BY <1>1, <2>1
  <1>2. CASE WordEnd(buf, p) # WordBegin(buf, p)
    <2>1. PICK w, c :
            /\ w = <<Word(buf, p)>> \o from[NextWord(buf, p)].words
            /\ c = {WordEnd(buf, p)} \cup from[NextWord(buf, p)].cuts
      OBVIOUS
    <2>2. WordsFrom(buf, from, p) = [words |-> w, cuts |-> c]
      BY <1>2, <2>1 DEF WordsFrom
    <2> QED BY <1>2, <2>1, <2>2
  <1> QED BY <1>1, <1>2

LEMMA WordsUnfold ==
  ASSUME NEW buf
  PROVE  \E from :
           /\ \A p \in Starts :
                /\ WordEnd(buf, p) = WordBegin(buf, p) => from[p].words = << >>
                /\ WordEnd(buf, p) # WordBegin(buf, p)
                     => from[p].words = <<Word(buf, p)>> \o from[NextWord(buf, p)].words
           /\ Words(buf) = from[0]
           /\ \A p \in Starts :
                from[p].cuts = IF WordEnd(buf, p) = WordBegin(buf, p) THEN {}
                               ELSE {WordEnd(buf, p)} \cup from[NextWord(buf, p)].cuts
  <1>1. PICK g : g = CHOOSE from : AreWordsOf(buf, Starts, from)
    OBVIOUS
  <1>2. AreWordsOf(buf, Starts, g)
    BY <1>1, WordsFromExist
  <1>3. Words(buf) = g[0]
    BY <1>1 DEF Words, AreWordsOf, WordsFrom, Starts, NoWords
  <1>4. ASSUME NEW p \in Starts
        PROVE  /\ WordEnd(buf, p) = WordBegin(buf, p) => g[p].words = << >>
               /\ WordEnd(buf, p) # WordBegin(buf, p)
                    => g[p].words = <<Word(buf, p)>> \o g[NextWord(buf, p)].words
               /\ g[p].cuts = IF WordEnd(buf, p) = WordBegin(buf, p) THEN {}
                              ELSE {WordEnd(buf, p)} \cup g[NextWord(buf, p)].cuts
    <2>1. g[p] = WordsFrom(buf, g, p)
      BY <1>2 DEF AreWordsOf
    <2>2. PICK v : v = WordsFrom(buf, g, p)
      OBVIOUS
    <2>3. /\ WordEnd(buf, p) = WordBegin(buf, p) => v.words = << >>
          /\ WordEnd(buf, p) # WordBegin(buf, p)
               => v.words = <<Word(buf, p)>> \o g[NextWord(buf, p)].words
          /\ v.cuts = IF WordEnd(buf, p) = WordBegin(buf, p) THEN {}
                      ELSE {WordEnd(buf, p)} \cup g[NextWord(buf, p)].cuts
      BY <2>2, FirstWord
    <2> QED BY <2>1, <2>2, <2>3
  <1> QED BY <1>3, <1>4

-----------------------------------------------------------------------------
(* Two buffers with the same line in front, up to its newline in cell z    *)
(* and the terminator behind that, hold the same words.                    *)
SameLine(buf, other, z) ==
  /\ z \in Nat /\ z < MaxLine
  /\ buf[z] = NL
  /\ \A c \in 0..z : buf[c] = other[c]
  /\ z + 1 < MaxLine => buf[z + 1] = NUL /\ other[z + 1] = NUL

LEMMA SameWordAt ==
  ASSUME NEW buf, NEW other, NEW z, SameLine(buf, other, z), NEW p \in 0..z
  PROVE  \E b \in p..z : \E e \in b..z :
           /\ WordBegin(buf, p) = b /\ WordBegin(other, p) = b
           /\ WordEnd(buf, p) = e /\ WordEnd(other, p) = e
  <1> USE ReaderAssumption
  <1>1. /\ z \in Nat /\ z < MaxLine /\ p \in Nat /\ p \leq MaxLine
        /\ buf[z] = NL /\ \A c \in p..z : buf[c] = other[c]
    BY DEF SameLine
  <1>2. PICK b \in p..MaxLine :
           /\ WordBegin(buf, p) = b
           /\ b < MaxLine => buf[b] \notin {BLANK, TAB, BACKSLASH}
           /\ \A c \in p..(b - 1) : buf[c] \in {BLANK, TAB, BACKSLASH}
    BY <1>1, WordBeginIsFirst
  <1>3. PICK b2 \in p..MaxLine :
           /\ WordBegin(other, p) = b2
           /\ b2 < MaxLine => other[b2] \notin {BLANK, TAB, BACKSLASH}
           /\ \A c \in p..(b2 - 1) : other[c] \in {BLANK, TAB, BACKSLASH}
    BY <1>1, WordBeginIsFirst
  <1>4. NL \notin {BLANK, TAB, BACKSLASH} /\ NL \in {NUL, NL, BLANK, "#"}
    BY DEF NL, BLANK, TAB, BACKSLASH
  <1>5. b \leq z /\ b2 \leq z
    BY <1>1, <1>2, <1>3, <1>4
  <1>6. b = b2
    <2>1. b \in p..z /\ b2 \in p..z /\ b < MaxLine /\ b2 < MaxLine
      BY <1>1, <1>5
    <2>2. buf[b] = other[b] /\ buf[b2] = other[b2]
      BY <1>1, <2>1
    <2>3. b \notin p..(b2 - 1)
      BY <1>2, <1>3, <2>1, <2>2
    <2>4. b2 \notin p..(b - 1)
      BY <1>2, <1>3, <2>1, <2>2
    <2> QED BY <2>3, <2>4
  <1>7. PICK e \in b..MaxLine :
           /\ WordEnd(buf, p) = e
           /\ e < MaxLine => buf[e] \in {NUL, NL, BLANK, "#"}
           /\ \A c \in b..(e - 1) : buf[c] \notin {NUL, NL, BLANK, "#"}
    BY <1>1, <1>2, WordEndIsFirst
  <1>8. PICK e2 \in b..MaxLine :
           /\ WordEnd(other, p) = e2
           /\ e2 < MaxLine => other[e2] \in {NUL, NL, BLANK, "#"}
           /\ \A c \in b..(e2 - 1) : other[c] \notin {NUL, NL, BLANK, "#"}
    BY <1>1, <1>3, <1>6, WordEndIsFirst
  <1>9. e \leq z /\ e2 \leq z
    <2>1. buf[z] \in {NUL, NL, BLANK, "#"} /\ other[z] \in {NUL, NL, BLANK, "#"}
      <3>1. z \in p..z /\ buf[z] = other[z]
        BY <1>1
      <3> QED BY <1>1, <1>4, <3>1
    <2>2. z \notin b..(e - 1) /\ z \notin b..(e2 - 1)
      BY <2>1, <1>7, <1>8
    <2> QED BY <2>2, <1>1, <1>5
  <1>10. e = e2
    <2>1. e \in p..z /\ e2 \in p..z /\ e < MaxLine /\ e2 < MaxLine
      BY <1>1, <1>9
    <2>2. buf[e] = other[e] /\ buf[e2] = other[e2]
      BY <1>1, <2>1
    <2>3. e \notin b..(e2 - 1)
      BY <1>7, <1>8, <2>1, <2>2
    <2>4. e2 \notin b..(e - 1)
      BY <1>7, <1>8, <2>1, <2>2
    <2> QED BY <2>3, <2>4
  <1>11. b \in p..z /\ e \in b..z
    BY <1>1, <1>5, <1>9
  <1> QED BY <1>2, <1>3, <1>6, <1>7, <1>8, <1>10, <1>11

LEMMA SameWords ==
  ASSUME NEW buf, NEW other, NEW z, SameLine(buf, other, z)
  PROVE  Words(buf).words = Words(other).words
  <1>1. PICK f : /\ \A p \in Starts :
                      /\ WordEnd(buf, p) = WordBegin(buf, p) => f[p].words = << >>
                      /\ WordEnd(buf, p) # WordBegin(buf, p)
                           => f[p].words = <<Word(buf, p)>> \o f[NextWord(buf, p)].words
                 /\ Words(buf) = f[0]
    BY WordsUnfold
  <1>2. PICK g : /\ \A p \in Starts :
                      /\ WordEnd(other, p) = WordBegin(other, p) => g[p].words = << >>
                      /\ WordEnd(other, p) # WordBegin(other, p)
                           => g[p].words = <<Word(other, p)>> \o g[NextWord(other, p)].words
                 /\ Words(other) = g[0]
    BY WordsUnfold
  <1>3. /\ z \in Nat /\ z < MaxLine /\ MaxLine \in Nat
        /\ 0..(z + 1) \subseteq Starts
    BY ReaderAssumption DEF SameLine, Starts
  (* Behind the newline neither has a word.                                *)
  <1>4. f[z + 1].words = << >> /\ g[z + 1].words = << >>
    <2>1. z + 1 \in Nat /\ z + 1 \leq MaxLine
      BY <1>3
    <2>3. WordEnd(buf, z + 1) = WordBegin(buf, z + 1)
      BY <2>1, NoWordAtEnd DEF SameLine
    <2>4. WordEnd(other, z + 1) = WordBegin(other, z + 1)
      BY <2>1, NoWordAtEnd DEF SameLine
    <2>5. z + 1 \in Starts
      BY <1>3
    <2> QED BY <1>1, <1>2, <2>3, <2>4, <2>5
  <1>5. ASSUME NEW p \in 0..z, \A q \in (p + 1)..(z + 1) : f[q].words = g[q].words
        PROVE  f[p].words = g[p].words
    <2>1. PICK b \in p..z : \E e \in b..z :
           /\ WordBegin(buf, p) = b /\ WordBegin(other, p) = b
           /\ WordEnd(buf, p) = e /\ WordEnd(other, p) = e
      BY SameWordAt
    <2>2. PICK e \in b..z :
           /\ WordBegin(buf, p) = b /\ WordBegin(other, p) = b
           /\ WordEnd(buf, p) = e /\ WordEnd(other, p) = e
      BY <2>1
    <2>3. p \in Starts
      BY <1>3
    <2>4. CASE e = b
      BY <2>2, <2>3, <2>4, <1>1, <1>2
    <2>5. CASE e # b
      <3>1. \A k \in 1..(e - b) : buf[b + k - 1] = other[b + k - 1]
        <4> TAKE k \in 1..(e - b)
        <4>1. b + k - 1 \in 0..z
          BY <1>3
        <4> QED BY <4>1 DEF SameLine
      <3>2. [k \in 1..(e - b) |-> buf[b + k - 1]] = [k \in 1..(e - b) |-> other[b + k - 1]]
        BY <3>1
      <3>3. Word(buf, p) = Word(other, p)
        BY <2>2, <3>2 DEF Word
      <3>4. NextWord(buf, p) = e + 1 /\ NextWord(other, p) = e + 1
        BY <2>2 DEF NextWord
      <3>5. e + 1 \in (p + 1)..(z + 1)
        BY <1>3
      <3>6. f[e + 1].words = g[e + 1].words
        BY <1>5, <3>5
      <3>7. f[p].words = <<Word(buf, p)>> \o f[e + 1].words
        BY <1>1, <2>2, <2>3, <2>5, <3>4
      <3>8. g[p].words = <<Word(other, p)>> \o g[e + 1].words
        BY <1>2, <2>2, <2>3, <2>5, <3>4
      <3> QED BY <3>3, <3>6, <3>7, <3>8
    <2> QED BY <2>4, <2>5
  <1> DEFINE Bad == {m \in 0..(z + 1) : f[z + 1 - m].words # g[z + 1 - m].words}
  <1>6. Bad = {}
    <2> SUFFICES ASSUME Bad # {} PROVE FALSE
      OBVIOUS
    <2>1. Bad \in SUBSET Nat
      BY <1>3
    <2>2. PICK m \in Bad : \A k \in Bad : m \leq k
      <3> HIDE DEF Bad
      <3> QED BY <2>1, LeastNatural
    <2>3. m \in 1..(z + 1)
      <3>1. z + 1 - 0 = z + 1
        BY <1>3
      <3>2. m # 0
        BY <1>4, <2>2, <3>1
      <3> QED BY <1>3, <2>2, <3>2
    <2>4. ASSUME NEW q \in (z + 2 - m)..(z + 1) PROVE f[q].words = g[q].words
      <3>1. z + 1 - q \in 0..(z + 1) /\ z + 1 - (z + 1 - q) = q /\ ~ (m \leq z + 1 - q)
        BY <1>3, <2>3
      <3>2. z + 1 - q \notin Bad
        <4> HIDE DEF Bad
        <4> QED BY <2>2, <3>1
      <3> QED BY <3>1, <3>2
    <2>5. PICK p : p = z + 1 - m
      OBVIOUS
    <2>6. p \in 0..z /\ p + 1 = z + 2 - m
      BY <1>3, <2>3, <2>5
    <2>7. f[p].words = g[p].words
      BY <1>5, <2>4, <2>6
    <2> QED BY <2>2, <2>5, <2>7
  <1>7. z + 1 \in 0..(z + 1) /\ z + 1 - (z + 1) = 0
    BY <1>3
  <1>8. f[0].words = g[0].words
    <2>1. z + 1 \notin Bad
      <3> HIDE DEF Bad
      <3> QED BY <1>6
    <2> QED BY <1>7, <2>1
  <1> QED BY <1>1, <1>2, <1>8

(* fgets() puts a line that ends with its newline in front like that.      *)
LEMMA WordsOfLine ==
  ASSUME NEW buf, NEW other, NEW l, Len(l) \in Nat \ {0}, l[Len(l)] = NL
  PROVE  Words(Fgets(buf, l)).words = Words(Fgets(other, l)).words
  <1> USE ReaderAssumption
  <1>0. PICK n \in Nat : n = Len(l) /\ n # 0
    OBVIOUS
  <1>1. CASE n \leq MaxLine
    <2>1. \A c \in 0..(n - 1) : c \in Cells /\ c < n
      BY <1>0, <1>1 DEF Cells
    <2>2. \A c \in 0..(n - 1) : Fgets(buf, l)[c] = l[c + 1] /\ Fgets(other, l)[c] = l[c + 1]
      BY <1>0, <2>1 DEF Fgets
    <2>3. n < MaxLine => Fgets(buf, l)[n] = NUL /\ Fgets(other, l)[n] = NUL
      BY <1>0 DEF Fgets, Cells
    <2>4. n - 1 \in 0..(n - 1) /\ n - 1 < MaxLine /\ n - 1 \in Nat /\ n - 1 + 1 = n
      BY <1>0, <1>1
    <2>5. SameLine(Fgets(buf, l), Fgets(other, l), n - 1)
      BY <1>0, <2>2, <2>3, <2>4 DEF SameLine
    <2> QED BY <2>5, SameWords
  <1>2. CASE n > MaxLine
    <2>1. \A c \in Cells : c < n
      BY <1>0, <1>2 DEF Cells
    <2>2. Fgets(buf, l) = Fgets(other, l)
      BY <1>0, <2>1 DEF Fgets
    <2> QED BY <2>2
  <1> QED BY <1>0, <1>1, <1>2

-----------------------------------------------------------------------------

(* The bytes of a text, line by line: what stands in front of each line.   *)
TextFront(lines, n, flat) == IsFront(STRING, lines, n, flat)

(* The lines follow one another, and each is what stands between its       *)
(* offset and the next one's.                                              *)
LEMMA FrontsGrow ==
  ASSUME NEW lines \in Seq(Lines), NEW n \in Nat, n = Len(lines), NEW flat, TextFront(lines, n, flat),
         NEW j \in 0..n, NEW k \in 0..n, j \leq k
  PROVE  /\ Len(flat[j]) \in Nat /\ Len(flat[k]) \in Nat
         /\ Len(flat[j]) + (k - j) \leq Len(flat[k])
         /\ \A c \in 1..Len(flat[j]) : flat[k][c] = flat[j][c]
  <1> DEFINE Holds(m) == /\ Len(flat[j]) + (m - j) \leq Len(flat[m])
                         /\ \A c \in 1..Len(flat[j]) : flat[m][c] = flat[j][c]
             Bad == {m \in j..n : ~ Holds(m)}
  <1>1. /\ \A m \in 0..n : flat[m] \in Seq(STRING) /\ Len(flat[m]) \in Nat
        /\ \A m \in 1..n : flat[m] = flat[m - 1] \o lines[m]
    <2>1. /\ \A m \in 0..n : flat[m] \in Seq(STRING)
          /\ \A m \in 1..n : flat[m] = flat[m - 1] \o lines[m]
      BY DEF TextFront, IsFront
    <2> QED BY <2>1, LenProperties
  <1>2. \A m \in 1..n : lines[m] \in Seq(STRING) /\ Len(lines[m]) \in Nat \ {0}
    BY SMTT(30), ReaderAssumption
  <1>3. ASSUME NEW m \in (j + 1)..n, Holds(m - 1) PROVE Holds(m)
    <2>1. m \in 1..n /\ m - 1 \in 0..n /\ m \in Nat
      OBVIOUS
    <2>2. PICK s1 \in Seq(STRING) : s1 = flat[m - 1]
      BY <1>1, <2>1
    <2>3. PICK s2 \in Seq(STRING) : s2 = lines[m]
      BY <1>2, <2>1
    <2>4. flat[m] = s1 \o s2
      BY <1>1, <2>1, <2>2, <2>3
    <2>5. PICK a \in Nat : a = Len(flat[j])
      BY <1>1
    <2>6. Len(s2) \in Nat /\ Len(s2) \geq 1 /\ a + (m - 1 - j) \leq Len(s1) /\ Len(s1) \in Nat
      BY <1>2, <1>3, <2>1, <2>2, <2>3, <2>5
    <2>7. Len(flat[m]) = Len(s1) + Len(s2)
      BY <2>4, ConcatProperties
    <2>8. a + (m - j) \leq Len(flat[m])
      BY <2>1, <2>6, <2>7
    <2>9. ASSUME NEW c \in 1..a PROVE flat[m][c] = flat[j][c]
      <3>1. c \in 1..(Len(s1) + Len(s2)) /\ c \leq Len(s1)
        BY <2>1, <2>6
      <3>2. flat[m][c] = s1[c]
        BY <2>4, <3>1, ConcatProperties
      <3>3. flat[m - 1][c] = flat[j][c]
        BY <1>3, <2>5
      <3> QED BY <3>2, <3>3, <2>2
    <2> QED BY <2>5, <2>8, <2>9
  <1>4. Holds(j)
    BY <1>1
  <1>5. Bad = {}
    <2> SUFFICES ASSUME Bad # {} PROVE FALSE
      OBVIOUS
    <2>1. Bad \in SUBSET Nat
      OBVIOUS
    <2>2. PICK m \in Bad : \A x \in Bad : m \leq x
      <3> HIDE DEF Bad
      <3> QED BY <2>1, LeastNatural
    <2>3. m \in j..n /\ ~ Holds(m)
      BY <2>2
    <2>4. m # j
      <3> HIDE DEF Holds
      <3> QED BY <1>4, <2>3
    <2>5. m \in (j + 1)..n /\ m - 1 \in j..n /\ ~ (m \leq m - 1)
      <3> HIDE DEF Holds, Bad
      <3> QED BY <2>3, <2>4
    <2>6. Holds(m - 1)
      <3>1. m - 1 \notin Bad
        <4> HIDE DEF Bad
        <4> QED BY <2>2, <2>5
      <3> HIDE DEF Holds
      <3> QED BY <3>1, <2>5
    <2> HIDE DEF Holds, Bad
    <2> QED BY <2>3, <2>5, <2>6, <1>3
  <1>6. k \in j..n
    OBVIOUS
  <1>7. Holds(k)
    <2> HIDE DEF Holds
    <2> QED BY <1>5, <1>6
  <1> QED BY <1>1, <1>7

LEMMA LinesOfText ==
  ASSUME NEW lines \in Seq(Lines), NEW n \in Nat, n = Len(lines)
  PROVE  /\ \A k \in 1..(n + 1) : Offset(lines, k) \in Nat
         /\ Offset(lines, 1) = 0
         /\ \A k \in 1..n : Offset(lines, k + 1) = Offset(lines, k) + Len(lines[k])
         /\ \A j, k \in 1..(n + 1) : j < k => Offset(lines, j) < Offset(lines, k)
         /\ \A k \in 1..n :
              SubSeq(FlattenSeq(lines), Offset(lines, k) + 1, Offset(lines, k + 1)) = lines[k]
         /\ FlattenSeq(lines) \in Seq(STRING)
         /\ Len(FlattenSeq(lines)) = Offset(lines, n + 1)
  <1>1. lines \in Seq(Seq(STRING)) /\ n \in Nat /\ n \in 0..n
          /\ \A k \in 1..n : lines[k] \in Seq(STRING) /\ Len(lines[k]) \in Nat \ {0}
    BY SMTT(30), ReaderAssumption
  <1>2. PICK flat : /\ TextFront(lines, n, flat)
                    /\ \A k \in 0..n : FlattenSeq(SubSeq(lines, 1, k)) = flat[k]
                    /\ FlattenSeq(lines) = flat[n]
    BY <1>1, FlattenHasFronts DEF TextFront
  <1>3. \A k \in 0..n : flat[k] \in Seq(STRING) /\ Len(flat[k]) \in Nat
    BY <1>2 DEF TextFront, IsFront
  <1>4. TextFront(lines, n, flat)
    BY <1>2
  <1>5. \A k \in 0..n : FlattenSeq(SubSeq(lines, 1, k)) = flat[k]
    BY <1>2
  <1>7. FlattenSeq(lines) = flat[n]
    BY <1>2
  <1>8. ASSUME NEW k \in 1..(n + 1)
        PROVE  k - 1 \in 0..n /\ Offset(lines, k) = Len(flat[k - 1]) /\ Offset(lines, k) \in Nat
    <2>1. k - 1 \in 0..n
      BY <1>1
    <2> QED BY <2>1, <1>3, <1>5 DEF Offset
  <1>9. Offset(lines, 1) = 0
    <2>1. 1 \in 1..(n + 1) /\ 1 - 1 = 0
      BY <1>1
    <2>2. flat[0] = << >>
      BY <1>2 DEF TextFront, IsFront
    <2> QED BY <2>1, <2>2, <1>8
  <1>10. ASSUME NEW k \in 1..n
         PROVE  /\ Offset(lines, k + 1) = Offset(lines, k) + Len(lines[k])
                /\ SubSeq(flat[n], Offset(lines, k) + 1, Offset(lines, k + 1)) = lines[k]
    <2>1. /\ k \in 1..(n + 1) /\ k + 1 \in 1..(n + 1) /\ k + 1 - 1 = k /\ k - 1 \in 0..n /\ k \in 0..n
          /\ k \in Nat
      BY <1>1
    <2>2. PICK s1 \in Seq(STRING) : s1 = flat[k - 1]
      BY <1>3, <2>1
    <2>3. PICK s2 \in Seq(STRING) : s2 = lines[k]
      BY <1>1
    <2>4. flat[k] = s1 \o s2
      BY <1>2, <2>1, <2>2, <2>3 DEF TextFront, IsFront
    <2>5. PICK a \in Nat : a = Len(s1)
      OBVIOUS
    <2>6. PICK b \in Nat : b = Len(s2)
      OBVIOUS
    <2>7. Offset(lines, k) = a /\ Offset(lines, k + 1) = a + b /\ Len(flat[k]) = a + b
      <3>1. Len(flat[k]) = a + b
        BY <2>4, <2>5, <2>6, ConcatProperties
      <3>2. Offset(lines, k) = a
        BY <1>8, <2>1, <2>2, <2>5
      <3>3. Offset(lines, k + 1) = Len(flat[k + 1 - 1])
        BY <1>8, <2>1
      <3>4. Offset(lines, k + 1) = Len(flat[k])
        BY <3>3, <2>1
      <3> QED BY <3>1, <3>2, <3>4
    <2>8. ASSUME NEW c \in 1..b PROVE flat[n][a + c] = s2[c] /\ flat[n][a + c] \in STRING
      <3>1. a + c \in 1..(a + b) /\ ~ (a + c \leq a) /\ a + c - a = c
        OBVIOUS
      <3>2. (s1 \o s2)[a + c] = s2[c]
        BY <3>1, <2>5, <2>6, ConcatProperties
      <3>3. flat[n][a + c] = flat[k][a + c]
        <4>1. n \in 0..n /\ k \leq n
          BY <1>1
        <4>2. \A d \in 1..Len(flat[k]) : flat[n][d] = flat[k][d]
          BY <4>1, <1>4, <2>1, FrontsGrow
        <4> QED BY <4>2, <2>7, <3>1
      <3>4. s2[c] \in STRING
        BY <2>6
      <3> QED BY <2>4, <3>2, <3>3, <3>4
    <2>9. PICK t : t = SubSeq(flat[n], a + 1, a + b)
      OBVIOUS
    <2>10. \A i \in (a + 1)..(a + b) : flat[n][i] \in STRING
      <3> TAKE i \in (a + 1)..(a + b)
      <3>1. i - a \in 1..b /\ a + (i - a) = i
        OBVIOUS
      <3> QED BY <3>1, <2>8
    <2>11. /\ t \in Seq(STRING)
           /\ Len(t) = b
           /\ \A i \in 1..b : t[i] = flat[n][a + i]
      <3>1. PICK u \in Int : u = a + 1
        OBVIOUS
      <3>2. PICK v \in Int : v = a + b
        OBVIOUS
      <3>3. PICK w : w = flat[n]
        OBVIOUS
      <3>4. t = SubSeq(w, u, v) /\ \A i \in u..v : w[i] \in STRING
        BY <2>9, <2>10, <3>1, <3>2, <3>3
      <3>5. /\ t \in Seq(STRING)
            /\ Len(t) = IF u \leq v THEN v - u + 1 ELSE 0
            /\ \A i \in 1..(v - u + 1) : t[i] = w[u + i - 1]
        BY SMTT(30), <3>4, SubSeqProperties
      <3>6. v - u + 1 = b /\ (u \leq v <=> b # 0) /\ \A i \in 1..b : u + i - 1 = a + i
        BY <3>1, <3>2
      <3> QED BY <3>3, <3>5, <3>6
    <2>12. Len(t) = b /\ \A i \in 1..b : t[i] = s2[i]
      BY <2>8, <2>11
    <2>13. t = s2
      BY <2>6, <2>11, <2>12, SeqEqual
    <2> QED BY <2>3, <2>6, <2>7, <2>9, <2>13
  <1>11. ASSUME NEW j \in 1..(n + 1), NEW k \in 1..(n + 1), j < k
         PROVE  Offset(lines, j) < Offset(lines, k)
    <2>1. j - 1 \in 0..n /\ k - 1 \in 0..n /\ j - 1 \leq k - 1 /\ (k - 1) - (j - 1) > 0
            /\ (k - 1) - (j - 1) \in Nat
      BY <1>11
    <2>2. PICK a \in Nat : a = Len(flat[j - 1])
      BY <1>3, <2>1
    <2>3. PICK b \in Nat : b = Len(flat[k - 1])
      BY <1>3, <2>1
    <2>4. a + ((k - 1) - (j - 1)) \leq b
      BY <1>2, <2>1, <2>2, <2>3, FrontsGrow
    <2> QED BY <2>1, <2>2, <2>3, <2>4, <1>8
  <1>12. n + 1 \in 1..(n + 1) /\ n + 1 - 1 = n
    BY <1>1
  <1>13. flat[n] \in Seq(STRING) /\ Len(flat[n]) = Offset(lines, n + 1)
    <2>1. Offset(lines, n + 1) = Len(flat[n + 1 - 1])
      BY <1>8, <1>12
    <2>2. n \in 0..n
      BY <1>1
    <2> QED BY <2>1, <2>2, <1>3, <1>12
  <1> QED BY <1>7, <1>8, <1>9, <1>10, <1>11, <1>13

-----------------------------------------------------------------------------
(* What Shell makes of the script of a text.                               *)
LEMMA ScriptOfText ==
  ASSUME NEW lines \in Seq(Lines), NEW n \in Nat \ {0}, n = Len(lines), script = ScriptOf(lines)
  PROVE  /\ DOMAIN script = {Offset(lines, k) : k \in 1..n}
         /\ \A k \in 1..n :
              script[Offset(lines, k)] =
                [kind |-> Alone(lines[k]).kind, file |-> Alone(lines[k]).file, len |-> Len(lines[k])]
         /\ Run!Ends = {Offset(lines, k + 1) : k \in 1..n}
         /\ Run!Size = Offset(lines, n + 1)
         /\ Run!Ends \subseteq Nat
         /\ \A k \in 1..n : Run!NextLine(Offset(lines, k)) = Offset(lines, k + 1)
         /\ \A p \in Nat : p < Run!Size => Run!NextLine(p) \in Run!Ends /\ Run!NextLine(p) > p
  <1>1. /\ \A k \in 1..(n + 1) : Offset(lines, k) \in Nat
        /\ \A k \in 1..n : Offset(lines, k + 1) = Offset(lines, k) + Len(lines[k])
        /\ \A j, k \in 1..(n + 1) : j < k => Offset(lines, j) < Offset(lines, k)
    BY LinesOfText
  <1>2. DOMAIN lines = 1..n
    BY LenProperties
  <1>3. DOMAIN script = {Offset(lines, k) : k \in 1..n}
    BY <1>2 DEF ScriptOf
  <1>4. ASSUME NEW k \in 1..n
        PROVE  script[Offset(lines, k)] =
                 [kind |-> Alone(lines[k]).kind, file |-> Alone(lines[k]).file, len |-> Len(lines[k])]
    <2>1. PICK j : j = CHOOSE m \in DOMAIN lines : Offset(lines, m) = Offset(lines, k)
      OBVIOUS
    <2>2. j \in 1..n /\ Offset(lines, j) = Offset(lines, k)
      BY <1>2, <2>1
    <2>3. j = k
      <3>1. j \in 1..(n + 1) /\ k \in 1..(n + 1)
        BY <2>2
      <3>2. Offset(lines, j) \in Nat /\ Offset(lines, k) \in Nat
        BY <1>1, <3>1
      <3>3. ~ (j < k) /\ ~ (k < j)
        BY <1>1, <2>2, <3>1, <3>2
      <3> QED BY <3>1, <3>3
    <2>4. Offset(lines, k) \in {Offset(lines, m) : m \in DOMAIN lines}
      BY <1>2
    <2>5. script[Offset(lines, k)] =
            [kind |-> Alone(lines[j]).kind, file |-> Alone(lines[j]).file, len |-> Len(lines[j])]
      BY <2>1, <2>4 DEF ScriptOf
    <2> QED BY <2>3, <2>5
  <1>5. ASSUME NEW k \in 1..n PROVE Offset(lines, k) + script[Offset(lines, k)].len = Offset(lines, k + 1)
    <2>1. PICK l : l = Len(lines[k])
      OBVIOUS
    <2>2. PICK kind, file : kind = Alone(lines[k]).kind /\ file = Alone(lines[k]).file
      OBVIOUS
    <2>3. PICK r : r = script[Offset(lines, k)]
      OBVIOUS
    <2>4. r = [kind |-> kind, file |-> file, len |-> l]
      BY <1>4, <2>1, <2>2, <2>3
    <2>5. script[Offset(lines, k)].len = l
      BY <2>3, <2>4
    <2> QED BY <1>1, <2>1, <2>5
  <1>6. Run!Ends = {Offset(lines, k + 1) : k \in 1..n}
    <2>1. Run!Ends = {p + script[p].len : p \in {Offset(lines, k) : k \in 1..n}}
      BY <1>3 DEF Run!Ends
    <2> QED BY <1>5, <2>1
  <1>7. /\ \A k \in 1..n : k \in 1..(n + 1) /\ k + 1 \in 1..(n + 1)
        /\ n + 1 \in 1..(n + 1) /\ n \in 1..n
    OBVIOUS
  <1>8. Run!Ends \subseteq Nat
    BY <1>1, <1>6, <1>7
  <1>9. ASSUME NEW j \in 1..(n + 1), NEW k \in 1..(n + 1), j \leq k
        PROVE  Offset(lines, j) \leq Offset(lines, k)
    <2>1. CASE j = k
      BY <1>1, <2>1
    <2>2. CASE j < k
      BY <1>1, <2>2
    <2> QED BY <1>9, <2>1, <2>2
  <1>10. Run!Size = Offset(lines, n + 1)
    <2>1. Offset(lines, n + 1) \in Run!Ends
      BY <1>6, <1>7
    <2>2. ASSUME NEW f \in Run!Ends PROVE f \leq Offset(lines, n + 1)
      <3>1. PICK k \in 1..n : f = Offset(lines, k + 1)
        BY <1>6
      <3>2. k + 1 \leq n + 1
        OBVIOUS
      <3> QED BY <1>7, <1>9, <3>1, <3>2
    <2>3. PICK size : size = Run!Size
      OBVIOUS
    <2>4. size = CHOOSE e \in Run!Ends : \A f \in Run!Ends : f \leq e
      BY <2>3 DEF Run!Size
    <2>5. size \in Run!Ends /\ \A f \in Run!Ends : f \leq size
      BY <2>1, <2>2, <2>4
    <2>6. size \in Nat /\ Offset(lines, n + 1) \in Nat /\ size \leq Offset(lines, n + 1)
            /\ Offset(lines, n + 1) \leq size
      BY <1>8, <2>1, <2>2, <2>5
    <2> QED BY <2>3, <2>6
  (* The line at p or in the middle of which p is ends at the next end.    *)
  <1>11. ASSUME NEW p \in Nat, p < Run!Size
         PROVE  /\ Run!NextLine(p) \in Run!Ends /\ Run!NextLine(p) > p
                /\ \A f \in Run!Ends : f > p => Run!NextLine(p) \leq f
    <2> DEFINE Later == {f \in Run!Ends : f > p}
    <2>1. Offset(lines, n + 1) \in Later
      BY <1>6, <1>7, <1>8, <1>10, <1>11
    <2>2. Later \in SUBSET Nat
      BY <1>8
    <2>3. PICK e \in Later : \A f \in Later : e \leq f
      <3> HIDE DEF Later
      <3> QED BY <2>1, <2>2, LeastNatural
    <2>4. PICK nextOf : nextOf = Run!NextLine(p)
      OBVIOUS
    <2>5. nextOf = CHOOSE x \in Run!Ends : x > p /\ \A f \in Run!Ends : f > p => x \leq f
      BY <2>4 DEF Run!NextLine
    <2>6. nextOf \in Run!Ends /\ nextOf > p /\ \A f \in Run!Ends : f > p => nextOf \leq f
      BY <2>3, <2>5
    <2> QED BY <2>4, <2>6
  <1>12. ASSUME NEW k \in 1..n PROVE Run!NextLine(Offset(lines, k)) = Offset(lines, k + 1)
    <2>1. PICK p \in Nat : p = Offset(lines, k)
      BY <1>1, <1>7
    <2>2. p < Run!Size
      <3>1. k < n + 1
        OBVIOUS
      <3> QED BY <1>1, <1>7, <1>10, <2>1, <3>1
    <2>3. PICK e \in Run!Ends : e = Run!NextLine(p) /\ e > p /\ \A f \in Run!Ends : f > p => e \leq f
      BY <1>11, <2>2
    <2>4. PICK j \in 1..n : e = Offset(lines, j + 1)
      BY <1>6
    <2>5. PICK f \in Nat : f = Offset(lines, k + 1)
      BY <1>1, <1>7
    <2>6. f > p /\ f \in Run!Ends /\ e \in Nat
      <3>1. k < k + 1
        OBVIOUS
      <3>2. p < f
        BY <1>1, <1>7, <2>1, <2>5, <3>1
      <3> QED BY <1>6, <1>8, <2>5, <3>2
    <2>7. e \leq f
      BY <2>3, <2>6
    <2>8. f \leq e
      <3>1. CASE j + 1 \leq k
        <4>1. e \leq p
          BY <1>7, <1>9, <2>1, <2>4, <3>1
        <4> QED BY <2>3, <2>6, <4>1
      <3>2. CASE ~ (j + 1 \leq k)
        <4>1. k + 1 \leq j + 1
          BY <3>2
        <4> QED BY <1>7, <1>9, <2>4, <2>5, <4>1
      <3> QED BY <3>1, <3>2
    <2> QED BY <2>1, <2>3, <2>5, <2>6, <2>7, <2>8
  <1> QED BY <1>3, <1>4, <1>6, <1>8, <1>10, <1>11, <1>12

-----------------------------------------------------------------------------
(* The text and where its reading is: enough for what each line gives.     *)
TextInv ==
  /\ \E t \in Texts : text = t.lines
  /\ script = ScriptOf(text)
  /\ inOff \in 0..Run!Size
  /\ bufEnd \in Boundaries
  /\ rd \in Boundaries
  /\ rd \leq bufEnd

LEMMA TextShape ==
  ASSUME \E t \in Texts : text = t.lines, script = ScriptOf(text)
  PROVE  /\ text \in Seq(Lines) /\ Len(text) \in Nat \ {0}
         /\ Run!Size \in Nat /\ Run!Ends \subseteq 0..Run!Size
         /\ \A p \in Nat : p < Run!Size => Run!NextLine(p) \in Run!Ends /\ Run!NextLine(p) > p
  <1>1. text \in Seq(Lines) /\ text # << >>
    BY SessionAssumption
  <1>2. Len(text) \in Nat \ {0}
    BY <1>1, EmptySeq
  <1>3. PICK n \in Nat \ {0} : n = Len(text)
    BY <1>2
  <1>4. /\ Run!Ends = {Offset(text, k + 1) : k \in 1..n}
        /\ Run!Size = Offset(text, n + 1)
        /\ Run!Ends \subseteq Nat
        /\ \A p \in Nat : p < Run!Size => Run!NextLine(p) \in Run!Ends /\ Run!NextLine(p) > p
    BY <1>1, <1>3, ScriptOfText
  <1>5. /\ \A k \in 1..(n + 1) : Offset(text, k) \in Nat
        /\ \A j, k \in 1..(n + 1) : j < k => Offset(text, j) < Offset(text, k)
    BY <1>1, <1>3, LinesOfText
  <1>6. n + 1 \in 1..(n + 1) /\ \A k \in 1..n : k + 1 \in 1..(n + 1) /\ (k + 1 = n + 1 \/ k + 1 < n + 1)
    OBVIOUS
  <1>7. ASSUME NEW k \in 1..n PROVE Offset(text, k + 1) \in 0..Run!Size
    <2>1. PICK a \in Nat : a = Offset(text, k + 1)
      BY <1>5, <1>6
    <2>2. PICK b \in Nat : b = Offset(text, n + 1)
      BY <1>5, <1>6
    <2>3. a \leq b
      BY <1>5, <1>6, <2>1, <2>2
    <2> QED BY <1>4, <2>1, <2>2, <2>3
  <1>8. Run!Size \in Nat
    BY <1>4, <1>5, <1>6
  <1> QED BY <1>1, <1>2, <1>4, <1>7, <1>8

(* What the lemmas about texts say of the one at hand.                     *)
LEMMA BoundariesAre ==
  ASSUME \E t \in Texts : text = t.lines, script = ScriptOf(text)
  PROVE  /\ Run!Size \in Nat \ {0}
         /\ 0 \in DOMAIN script
         /\ DOMAIN script \subseteq Nat
         /\ \A p \in DOMAIN script : p < Run!Size
         /\ \A p \in DOMAIN script : Run!NextLine(p) \in Boundaries /\ Run!NextLine(p) > p
         /\ Run!Ends \subseteq Boundaries
         /\ \A p \in DOMAIN script, q \in Boundaries : q > p => q \geq Run!NextLine(p)
         /\ \A p \in DOMAIN script : \E k \in DOMAIN text :
              /\ LineFrom(p) = text[k]
              /\ k = Len(text) => Run!NextLine(p) = Run!Size
              /\ script[p] = [kind |-> Alone(text[k]).kind, file |-> Alone(text[k]).file,
                              len |-> Len(text[k])]
         /\ \A p, q \in DOMAIN script : \E j, k \in DOMAIN text :
              /\ script[p].kind = Alone(text[j]).kind
              /\ script[q].kind = Alone(text[k]).kind
              /\ j = k => p = q
  <1>1. text \in Seq(Lines) /\ Len(text) \in Nat \ {0} /\ Run!Size \in Nat
    BY TextShape
  <1>2. PICK n \in Nat \ {0} : n = Len(text)
    BY <1>1
  <1>3. /\ DOMAIN script = {Offset(text, k) : k \in 1..n}
        /\ \A k \in 1..n :
             script[Offset(text, k)] =
               [kind |-> Alone(text[k]).kind, file |-> Alone(text[k]).file, len |-> Len(text[k])]
        /\ Run!Size = Offset(text, n + 1)
        /\ Run!Ends = {Offset(text, k + 1) : k \in 1..n}
        /\ \A k \in 1..n : Run!NextLine(Offset(text, k)) = Offset(text, k + 1)
    BY <1>1, <1>2, ScriptOfText
  <1>4. /\ \A k \in 1..(n + 1) : Offset(text, k) \in Nat
        /\ Offset(text, 1) = 0
        /\ \A j, k \in 1..(n + 1) : j < k => Offset(text, j) < Offset(text, k)
        /\ \A k \in 1..n : SubSeq(Bytes, Offset(text, k) + 1, Offset(text, k + 1)) = text[k]
    BY <1>1, <1>2, LinesOfText DEF Bytes
  <1>5. DOMAIN text = 1..n
    BY <1>1, <1>2
  <1>6. /\ 1 \in 1..n /\ n + 1 \in 1..(n + 1)
        /\ \A k \in 1..n : k \in 1..(n + 1) /\ k + 1 \in 1..(n + 1) /\ k < k + 1 /\ k < n + 1
                           /\ (k + 1 \in 1..n \/ k + 1 = n + 1)
    OBVIOUS
  <1>7. 0 \in DOMAIN script /\ DOMAIN script \subseteq Nat
    BY <1>3, <1>4, <1>6
  <1>8. \A p \in DOMAIN script : p < Run!Size
    BY <1>3, <1>4, <1>6
  <1>9. Run!Size # 0
    BY <1>7, <1>8
  <1>10. ASSUME NEW p \in DOMAIN script
         PROVE  /\ Run!NextLine(p) \in Boundaries /\ Run!NextLine(p) > p
                /\ \E k \in DOMAIN text :
                     /\ LineFrom(p) = text[k]
                     /\ k = Len(text) => Run!NextLine(p) = Run!Size
                     /\ script[p] = [kind |-> Alone(text[k]).kind, file |-> Alone(text[k]).file,
                                     len |-> Len(text[k])]
    <2>1. PICK k \in 1..n : p = Offset(text, k)
      BY <1>3
    <2>2. Run!NextLine(p) = Offset(text, k + 1)
      BY <1>3, <2>1
    <2>3. Offset(text, k + 1) \in Boundaries
      BY <1>3, <1>6 DEF Boundaries
    <2>4. Offset(text, k + 1) > p
      BY <1>4, <1>6, <2>1
    <2>5. LineFrom(p) = text[k]
      BY <1>4, <2>1, <2>2 DEF LineFrom
    <2>6. k = Len(text) => Run!NextLine(p) = Run!Size
      BY <1>2, <1>3, <2>2
    <2> QED BY <1>3, <1>5, <2>1, <2>2, <2>3, <2>4, <2>5, <2>6
  <1>11. ASSUME NEW p \in DOMAIN script
         PROVE  \E k \in DOMAIN text : p = Offset(text, k) /\ script[p].kind = Alone(text[k]).kind
    <2>1. PICK k \in 1..n : p = Offset(text, k)
      BY <1>3
    <2>2. PICK kind, file, len :
            kind = Alone(text[k]).kind /\ file = Alone(text[k]).file /\ len = Len(text[k])
      OBVIOUS
    <2>3. PICK r : r = script[p]
      OBVIOUS
    <2>4. r = [kind |-> kind, file |-> file, len |-> len]
      BY <1>3, <2>1, <2>2, <2>3
    <2> QED BY <1>5, <2>1, <2>2, <2>3, <2>4
  <1>12. ASSUME NEW p \in DOMAIN script, NEW q \in DOMAIN script
         PROVE  \E j, k \in DOMAIN text :
                  /\ script[p].kind = Alone(text[j]).kind
                  /\ script[q].kind = Alone(text[k]).kind
                  /\ j = k => p = q
    <2>1. PICK j \in DOMAIN text : p = Offset(text, j) /\ script[p].kind = Alone(text[j]).kind
      BY <1>11
    <2>2. PICK k \in DOMAIN text : q = Offset(text, k) /\ script[q].kind = Alone(text[k]).kind
      BY <1>11
    <2> QED BY <2>1, <2>2
  <1>13. Run!Ends \subseteq Boundaries
    BY <1>3, <1>6 DEF Boundaries
  <1>14. ASSUME NEW p \in DOMAIN script, NEW q \in Boundaries, q > p
         PROVE  q \geq Run!NextLine(p)
    <2>1. PICK j \in 1..n : p = Offset(text, j)
      BY <1>3
    <2>2. PICK k \in 1..(n + 1) : q = Offset(text, k)
      BY <1>3, <1>6 DEF Boundaries
    <2>3. j < k
      <3>1. j \in 1..(n + 1) /\ p \in Nat /\ q \in Nat
        BY <1>4, <1>6, <2>1, <2>2
      <3>2. k < j => q < p
        BY <1>4, <2>1, <2>2, <3>1
      <3>3. k # j
        BY <1>14, <2>1, <2>2, <3>1
      <3> QED BY <1>14, <3>1, <3>2, <3>3
    <2>4. CASE k = j + 1
      BY <1>3, <1>4, <1>6, <2>1, <2>2, <2>4
    <2>5. CASE j + 1 < k
      <3>1. Offset(text, j + 1) < Offset(text, k)
        BY <1>4, <1>6, <2>5
      <3> QED BY <1>3, <1>4, <1>6, <2>1, <2>2, <3>1
    <2> QED BY <2>3, <2>4, <2>5
  <1> QED BY <1>1, <1>7, <1>8, <1>9, <1>10, <1>12, <1>13, <1>14

(* What stdio has read ahead ends where a line does: no line is torn.      *)
LEMMA NotTorn ==
  ASSUME TextInv
  PROVE  /\ Run!Size \in Nat /\ inOff \in Nat /\ bufEnd \in Nat /\ rd \in Nat
         /\ rd \leq bufEnd /\ bufEnd \leq Run!Size
         /\ ~ Run!Torn
         /\ Run!LineEnd = Run!NextLine(Run!ReadsAt)
  <1>1. /\ Run!Size \in Nat
        /\ DOMAIN script \subseteq Nat
        /\ \A p \in DOMAIN script : p < Run!Size
        /\ \A p \in DOMAIN script, q \in Boundaries : q > p => q \geq Run!NextLine(p)
        /\ \A p \in DOMAIN script : Run!NextLine(p) \in Boundaries
    BY BoundariesAre DEF TextInv
  <1>2. PICK size \in Nat : size = Run!Size
    BY <1>1
  <1>3. \A q \in Boundaries : q \in Nat /\ q \leq size
    BY <1>1, <1>2 DEF Boundaries
  <1>4. /\ inOff \in Nat /\ bufEnd \in Nat /\ rd \in Nat
        /\ rd \leq bufEnd /\ bufEnd \leq size
    BY <1>2, <1>3 DEF TextInv
  <1>5. ~ Run!Torn
    <2> SUFFICES ASSUME Run!Unread > 0 PROVE ~ (Run!NextLine(rd) > bufEnd)
      BY DEF Run!Torn
    <2>1. rd < bufEnd
      BY <1>4 DEF Run!Unread
    <2>2. rd \in DOMAIN script
      BY <1>2, <1>4, <2>1 DEF TextInv, Boundaries
    <2>3. bufEnd \geq Run!NextLine(rd) /\ Run!NextLine(rd) \in Nat
      BY <1>1, <1>3, <2>1, <2>2 DEF TextInv
    <2> QED BY <1>4, <2>3
  <1> QED BY <1>2, <1>4, <1>5 DEF Run!LineEnd, Run!AfterLine

(* Only TakeLine reads, and only a child moves the offset.                 *)
LEMMA SessionSteps ==
  ASSUME [SessionNext]_sessionVars
  PROVE  /\ UNCHANGED <<text, script, seekable>>
         /\ \/ TakeLine
            \/ /\ UNCHANGED readerVars /\ UNCHANGED <<rd, bufEnd>>
               /\ UNCHANGED inOff \/ Run!ExecFails \/ TakesLines
  <1> USE DEF Run!inputVars, Run!bufferVars, Run!outputVars, Run!shellVars, readerVars
  <1>1. CASE TakeLine
    BY <1>1 DEF TakeLine, Run!Take
  <1>2. CASE Exec
    BY <1>2 DEF Exec, Run!Exec
  <1>3. CASE RunStep
    BY <1>3 DEF RunStep, Run!ReadEof, Run!Fork, Run!ForkFails, Run!Wait, Run!ExecFails,
                Run!ExecBlank, Run!Finish, Run!Interrupt, Run!Exited, Run!vars
  <1>4. CASE TakesLines
    BY <1>4 DEF TakesLines, Run!TakesInput
  <1>5. CASE UNCHANGED sessionVars
    BY <1>5 DEF sessionVars, runVars
  <1> QED BY <1>1, <1>2, <1>3, <1>4, <1>5 DEF SessionNext

LEMMA SameSize ==
  ASSUME UNCHANGED <<text, script, seekable>>
  PROVE  /\ Run!Size' = Run!Size /\ ScriptOf(text)' = ScriptOf(text)
         /\ Boundaries' = Boundaries /\ Run!Missing' = Run!Missing
  BY DEF Run!Size, Run!Ends, ScriptOf, Alone, Boundaries, Run!Missing

LEMMA TextInvInit == SessionInit => TextInv /\ OnlyThisLine
  <1> SUFFICES ASSUME SessionInit PROVE TextInv /\ OnlyThisLine
    OBVIOUS
  <1>1. PICK t \in Texts : text = t.lines /\ script = ScriptOf(t.lines)
    BY DEF SessionInit
  <1>2. script = ScriptOf(text)
    BY <1>1
  <1>3. Run!Size \in Nat /\ 0 \in DOMAIN script
    BY <1>1, <1>2, BoundariesAre
  <1>4. TextInv
    BY <1>1, <1>2, <1>3 DEF TextInv, SessionInit, Boundaries
  <1> QED BY <1>4 DEF SessionInit, Init, OnlyThisLine

(* What fgets() yields is a line: there is something in it.                *)
LEMMA ReadsSome ==
  ASSUME TextInv, TakeLine
  PROVE  /\ Run!ReadsAt \in Nat /\ Run!ReadsAt < Run!Size
         /\ Run!NextLine(Run!ReadsAt) \in Run!Ends /\ Run!NextLine(Run!ReadsAt) > Run!ReadsAt
         /\ Len(LineFrom(Run!ReadsAt)) \in Nat \ {0}
  <1>1. /\ Run!Size \in Nat /\ Run!Ends \subseteq 0..Run!Size
        /\ \A p \in Nat : p < Run!Size => Run!NextLine(p) \in Run!Ends /\ Run!NextLine(p) > p
    BY TextShape DEF TextInv
  <1>2. PICK p \in Nat : p = Run!ReadsAt /\ p < Run!Size
    BY <1>1, NotTorn DEF TextInv, TakeLine, Run!ReadsAt
  <1>3. PICK e \in Nat : e = Run!NextLine(p) /\ e \in Run!Ends /\ e > p /\ e \leq Run!Size
    <2>1. PICK e : e = Run!NextLine(p)
      OBVIOUS
    <2>2. e \in Run!Ends /\ e > p
      BY <1>1, <1>2, <2>1
    <2>3. e \in Nat /\ e \leq Run!Size
      BY <1>1, <2>2
    <2> QED BY <2>1, <2>2, <2>3
  <1>4. text \in Seq(Lines)
    BY TextShape DEF TextInv
  <1>5. Bytes \in Seq(STRING) /\ Len(Bytes) = Run!Size
    <2>1. PICK n \in Nat \ {0} : n = Len(text)
      BY TextShape DEF TextInv
    <2>2. Run!Size = Offset(text, n + 1)
      BY <1>4, <2>1, ScriptOfText DEF TextInv
    <2> QED BY <1>4, <2>1, <2>2, LinesOfText DEF Bytes
  <1>6. PICK u \in Int : u = p + 1
    OBVIOUS
  <1>7. PICK b \in Seq(STRING) : b = Bytes /\ Len(b) = Run!Size
    BY <1>5
  <1>8. \A i \in u..e : b[i] \in STRING
    BY <1>1, <1>2, <1>3, <1>6, <1>7
  <1>9. Len(SubSeq(b, u, e)) = e - u + 1
    BY <1>3, <1>6, <1>8, SubSeqProperties
  <1> QED BY <1>2, <1>3, <1>6, <1>7, <1>9 DEF LineFrom

LEMMA TextInvNext == TextInv /\ OnlyThisLine /\ [SessionNext]_sessionVars => TextInv' /\ OnlyThisLine'
  <1> SUFFICES ASSUME TextInv, OnlyThisLine, [SessionNext]_sessionVars
               PROVE  TextInv' /\ OnlyThisLine'
    OBVIOUS
  <1>1. UNCHANGED <<text, script, seekable>> /\ Run!Size' = Run!Size /\ Boundaries' = Boundaries
    BY SessionSteps, SameSize
  <1>2. (\E t \in Texts : text = t.lines)' /\ (script = ScriptOf(text))'
    BY <1>1, SameSize DEF TextInv
  <1>3. /\ Run!Size \in Nat /\ inOff \in Nat /\ bufEnd \in Nat /\ rd \in Nat
        /\ rd \leq bufEnd /\ bufEnd \leq Run!Size
        /\ Run!LineEnd = Run!NextLine(Run!ReadsAt)
    BY NotTorn
  <1>4. CASE TakeLine
    <2>1. /\ Run!NextLine(Run!ReadsAt) \in Run!Ends /\ Len(LineFrom(Run!ReadsAt)) \in Nat \ {0}
      BY <1>4, ReadsSome
    <2>2. PICK e : e = Run!LineEnd /\ e \in Boundaries /\ e \in Nat
      <3>1. /\ Run!Ends \subseteq Boundaries /\ Run!Ends \subseteq 0..Run!Size
        BY BoundariesAre, TextShape DEF TextInv
      <3>2. Run!LineEnd \in Run!Ends
        BY <1>3, <2>1
      <3>3. Run!LineEnd \in Boundaries /\ Run!LineEnd \in Nat
        BY <1>3, <3>1, <3>2
      <3> QED BY <3>3
    <2>3. /\ rd' = e /\ bufEnd' \in Boundaries
          /\ \/ UNCHANGED <<inOff, bufEnd>> /\ e \leq bufEnd
             \/ \E f \in e..Run!Size : inOff' = f /\ bufEnd' = f
      BY <1>4, <2>2 DEF TakeLine, Run!Take
    <2>4. TextInv'
      BY <1>1, <1>2, <1>3, <2>2, <2>3 DEF TextInv
    <2>5. PICK l : l = LineFrom(Run!ReadsAt)
      OBVIOUS
    <2>6. line' = l /\ argv' = Words(Fgets(cmd, l)).words
      BY <1>4, <2>5 DEF TakeLine, Read, CutOut
    <2>7. l[Len(l)] = NL => argv' = Words(Fgets([i \in Cells |-> NUL], l)).words
      BY <2>1, <2>5, <2>6, WordsOfLine
    <2>8. OnlyThisLine'
      BY <2>6, <2>7 DEF OnlyThisLine, Last
    <2> QED BY <2>4, <2>8
  <1>5. CASE /\ UNCHANGED readerVars /\ UNCHANGED <<rd, bufEnd>>
             /\ UNCHANGED inOff \/ Run!ExecFails \/ TakesLines
    <2>1. OnlyThisLine'
      BY <1>5 DEF OnlyThisLine, readerVars
    <2>2. inOff' \in 0..Run!Size
      <3>1. CASE UNCHANGED inOff
        BY <3>1 DEF TextInv
      <3>2. CASE Run!ExecFails
        <4>1. inOff' = IF Run!GivesBack THEN inOff - Run!Unread ELSE inOff
          BY <3>2 DEF Run!ExecFails
        <4> QED BY <1>3, <4>1 DEF TextInv, Run!GivesBack, Run!Unread
      <3>3. CASE TakesLines
        <4>1. PICK e \in (inOff + 1)..Run!Size : inOff' = e
          BY <3>3 DEF TakesLines, Run!TakesInput
        <4> QED BY <1>3, <4>1
      <3> QED BY <1>5, <3>1, <3>2, <3>3
    <2> QED BY <1>1, <1>2, <1>5, <2>1, <2>2 DEF TextInv
  <1> QED BY <1>4, <1>5, SessionSteps

(* Whatever the lines before it left in the buffer, and wherever a child   *)
(* has moved the offset to, the words of a line that ends with its newline *)
(* come from that line (3600sh.c:66-107).                                  *)
THEOREM WordsOfThisLine == Session => []OnlyThisLine
  <1>1. Session => [](TextInv /\ OnlyThisLine)
    BY TextInvInit, TextInvNext, PTL DEF Session
  <1> QED BY <1>1, PTL

-----------------------------------------------------------------------------
(* The runs of a line, counted off by the cells where they begin.          *)

(* Where the runs behind cell p begin, in order.                           *)
InOrder(S, m, at) ==
  /\ at \in [1..m -> S]
  /\ \A s \in S : \E n \in 1..m : at[n] = s
  /\ \A j, k \in 1..m : j < k => at[j] < at[k]

LEMMA CountedOff ==
  ASSUME NEW S \in SUBSET Nat, NEW m \in Nat, NEW at, InOrder(S, m, at)
  PROVE  /\ Cardinality(S) = m
         /\ \A n \in 1..m : Cardinality({s \in S : s \leq at[n]}) = n
  <1>1. ASSUME NEW n \in 0..m, NEW T, T = {at[k] : k \in 1..n}
        PROVE  Cardinality(T) = n
    <2> DEFINE f == [k \in 1..n |-> at[k]]
    <2>1. \A k \in 1..n : k \in 1..m /\ at[k] \in T /\ at[k] \in Nat
      <3> TAKE k \in 1..n
      <3>1. k \in 1..m
        OBVIOUS
      <3>2. at[k] \in T
        BY <1>1
      <3>3. at[k] \in S
        BY <3>1 DEF InOrder
      <3> QED BY <3>1, <3>2, <3>3
    <2>2. f \in [1..n -> T] /\ \A t \in T : \E k \in 1..n : f[k] = t
      BY <1>1, <2>1
    <2>3. \A j, k \in 1..n : f[j] = f[k] => j = k
      <3>1. \A j, k \in 1..n : j < k => at[j] < at[k]
        BY <2>1 DEF InOrder
      <3>2. \A j, k \in 1..n : j < k \/ k < j \/ j = k
        OBVIOUS
      <3> QED BY <2>1, <3>1, <3>2
    <2>4. f \in Bijection(1..n, T)
      <3> HIDE DEF f
      <3> QED BY <2>2, <2>3, Zenon DEF Bijection, Injection, Surjection, IsInjective
    <2>5. ExistsBijection(1..n, T)
      BY <2>4 DEF ExistsBijection
    <2> QED BY <2>5, FS_CountingElements
  <1>2. S = {at[k] : k \in 1..m}
    BY DEF InOrder
  <1>3. m \in 0..m
    OBVIOUS
  <1>4. ASSUME NEW n \in 1..m PROVE Cardinality({s \in S : s \leq at[n]}) = n
    <2>1. \A k \in 1..m : k \leq n <=> at[k] \leq at[n]
      <3> TAKE k \in 1..m
      <3>1. at[k] \in Nat /\ at[n] \in Nat
        BY DEF InOrder
      <3>2. k < n => at[k] < at[n]
        BY DEF InOrder
      <3>3. n < k => at[n] < at[k]
        BY DEF InOrder
      <3> QED BY <3>1, <3>2, <3>3
    <2>2. {s \in S : s \leq at[n]} = {at[k] : k \in 1..n}
      BY <1>2, <2>1
    <2> QED BY <1>1, <2>2
  <1> QED BY <1>1, <1>2, <1>3, <1>4

LEMMA NthOf ==
  ASSUME NEW S \in SUBSET Nat, NEW m \in Nat, NEW at, InOrder(S, m, at)
  PROVE  Cardinality(S) = m /\ \A n \in 1..m : Nth(S, n) = at[n]
  <1>1. /\ Cardinality(S) = m
        /\ \A n \in 1..m : Cardinality({s \in S : s \leq at[n]}) = n
    BY CountedOff
  <1>2. ASSUME NEW n \in 1..m PROVE Nth(S, n) = at[n]
    <2>1. at[n] \in S
      BY DEF InOrder
    <2>2. ASSUME NEW s \in S, Cardinality({j \in S : j \leq s}) = n
          PROVE  s = at[n]
      <3>1. PICK k \in 1..m : at[k] = s
        BY DEF InOrder
      <3>2. k = n
        BY <1>1, <2>2, <3>1
      <3> QED BY <3>1, <3>2
    <2> QED BY <1>1, <2>1, <2>2 DEF Nth
  <1> QED BY <1>1, <1>2

LEMMA RunsInOrder ==
  ASSUME NEW l, NEW m \in Nat, NEW at, RunStarts(l) \in SUBSET Nat, InOrder(RunStarts(l), m, at)
  PROVE  PlainRuns(l) = [n \in 1..m |-> SubSeq(l, at[n], RunEnd(l, at[n]))]
  BY ZenonT(30), NthOf DEF PlainRuns, NthStart

(* A line of plain characters and blanks, in front of the buffer.          *)
PlainLine(l, n) ==
  /\ l \in Seq(STRING) /\ Len(l) = n
  /\ n \in Nat \ {0} /\ n < MaxLine
  /\ l[n] = NL
  /\ \A i \in 1..(n - 1) : l[i] \notin Special

InFront(buf, l, n) == buf[n] = NUL /\ \A c \in 0..(n - 1) : buf[c] = l[c + 1]

(* From the cell behind a blank, getword() finds the next run: what it     *)
(* skips are blanks, and what it stops at is a blank or the newline.       *)
LEMMA WordIsRun ==
  ASSUME NEW l, NEW n, PlainLine(l, n), NEW buf, InFront(buf, l, n),
         NEW p \in 0..(n - 1), ~ IsPlain(l, p)
  PROVE  \/ /\ WordEnd(buf, p) = WordBegin(buf, p)
            /\ \A t \in RunStarts(l) : ~ (t > p)
         \/ \E s \in RunStarts(l), r \in 1..(n - 1) :
              /\ WordEnd(buf, p) # WordBegin(buf, p)
              /\ Word(buf, p) = SubSeq(l, s, RunEnd(l, s))
              /\ NextWord(buf, p) = r + 1 /\ ~ IsPlain(l, r + 1)
              /\ s > p /\ s \leq r
              /\ \A t \in RunStarts(l) : t > p <=> t = s \/ t > r + 1
  <1>0. MaxLine \in Nat \ {0}
    BY ReaderAssumption
  <1> USE <1>0
  <1>1. /\ n \in Nat /\ n # 0 /\ n < MaxLine /\ l[n] = NL /\ DOMAIN l = 1..n
        /\ p \in Nat /\ p \leq MaxLine /\ p < n
    BY DEF PlainLine
  <1>2. /\ \A i \in 1..n : buf[i - 1] = l[i]
        /\ \A i \in 1..n : i # n => l[i] \notin Special
    BY <1>1 DEF PlainLine, InFront
  <1>3. PICK b \in p..MaxLine :
           /\ WordBegin(buf, p) = b
           /\ b < MaxLine => buf[b] \notin {BLANK, TAB, BACKSLASH}
           /\ \A c \in p..(b - 1) : buf[c] \in {BLANK, TAB, BACKSLASH}
    BY <1>1, WordBeginIsFirst
  <1>4. PICK e \in b..MaxLine :
           /\ WordEnd(buf, p) = e
           /\ e < MaxLine => buf[e] \in {NUL, NL, BLANK, "#"}
           /\ \A c \in b..(e - 1) : buf[c] \notin {NUL, NL, BLANK, "#"}
    BY <1>1, <1>3, WordEndIsFirst
  <1>5. NL \notin {BLANK, TAB, BACKSLASH} /\ NL \in {NUL, NL, BLANK, "#"}
    BY DEF NL, BLANK, TAB, BACKSLASH
  <1>6. b \in Nat /\ e \in Nat /\ b \leq n - 1 /\ e \leq n - 1 /\ b \leq e /\ p \leq b
    <2>1. buf[n - 1] = NL /\ n - 1 \in Nat /\ n - 1 < MaxLine
      BY <1>1, <1>2
    <2>2. b \leq n - 1
      BY <1>1, <1>3, <1>5, <2>1
    <2>3. e \leq n - 1
      BY <1>1, <1>4, <1>5, <2>1, <2>2
    <2> QED BY <1>1, <2>2, <2>3
  <1>7. \A i \in (p + 1)..b : ~ IsPlain(l, i)
    <2> TAKE i \in (p + 1)..b
    <2>1. i \in 1..n /\ i # n /\ i - 1 \in p..(b - 1)
      BY <1>1, <1>6
    <2>2. buf[i - 1] \in {BLANK, TAB, BACKSLASH} /\ buf[i - 1] = l[i] /\ l[i] \notin Special
      BY <1>2, <1>3, <2>1
    <2> QED BY <2>2 DEF IsPlain, Special
  <1>8. \A i \in (b + 1)..e : IsPlain(l, i)
    <2> TAKE i \in (b + 1)..e
    <2>1. i \in 1..n /\ i - 1 \in b..(e - 1)
      BY <1>1, <1>6
    <2>2. buf[i - 1] \notin {NUL, NL, BLANK, "#"} /\ buf[i - 1] = l[i]
      BY <1>2, <1>4, <2>1
    <2> QED BY <1>1, <2>1, <2>2 DEF IsPlain
  <1>9. ~ IsPlain(l, e + 1)
    <2>1. e + 1 \in 1..n
      BY <1>1, <1>6
    <2>2. buf[e] = l[e + 1]
      <3>1. e + 1 - 1 = e
        BY <1>6
      <3> QED BY <1>2, <2>1, <3>1
    <2>3. l[e + 1] \in {NUL, NL, BLANK, "#"}
      BY <1>1, <1>4, <1>6, <2>2
    <2>4. CASE e + 1 = n
      BY <1>1, <2>4 DEF IsPlain
    <2>5. CASE e + 1 # n
      BY <1>2, <2>1, <2>3, <2>5 DEF IsPlain, Special
    <2> QED BY <2>4, <2>5
  <1>10. CASE b = e
    <2>1. b = n - 1
      <3> SUFFICES ASSUME b # n - 1 PROVE FALSE
        OBVIOUS
      <3>1. b + 1 \in 1..n /\ b + 1 # n /\ b + 1 - 1 = b
        BY <1>1, <1>6
      <3>2. buf[b] = l[b + 1] /\ l[b + 1] \notin Special
        BY <1>2, <3>1
      <3>3. buf[b] \notin {BLANK, TAB, BACKSLASH} /\ buf[b] \in {NUL, NL, BLANK, "#"}
        BY <1>1, <1>3, <1>4, <1>6, <1>10
      <3> QED BY <3>2, <3>3 DEF Special
    <2>2. \A t \in RunStarts(l) : ~ (t > p)
      <3> SUFFICES ASSUME NEW t \in RunStarts(l), t > p PROVE FALSE
        OBVIOUS
      <3>1. t \in 1..n /\ IsPlain(l, t)
        BY <1>1 DEF RunStarts
      <3>2. t # n
        BY <1>1, <3>1 DEF IsPlain
      <3>3. t \in (p + 1)..b
        BY <1>1, <1>6, <2>1, <3>1, <3>2
      <3> QED BY <1>7, <3>1, <3>3
    <2> QED BY <1>3, <1>4, <1>10, <2>2
  <1>11. CASE b # e
    <2> DEFINE s == b + 1
    <2>1. s \in Nat /\ s \in 1..n /\ s > p /\ s \leq e /\ e \in 1..(n - 1) /\ s - 1 = b
      BY <1>1, <1>6, <1>11
    <2>2. IsPlain(l, s) /\ ~ IsPlain(l, s - 1)
      <3>1. IsPlain(l, s)
        BY <1>8, <2>1
      <3>2. CASE b = p
        BY <2>1, <3>1, <3>2
      <3>3. CASE b # p
        <4>1. b \in (p + 1)..b
          BY <1>1, <1>6, <3>3
        <4> QED BY <1>7, <2>1, <3>1, <4>1
      <3> QED BY <3>2, <3>3
    <2>3. s \in RunStarts(l)
      BY <1>1, <2>1, <2>2 DEF RunStarts
    <2>4. RunEnd(l, s) = e
      <3>1. e \in s..Len(l) /\ \A k \in s..e : IsPlain(l, k)
        BY <1>1, <1>8, <2>1 DEF PlainLine
      <3>2. ASSUME NEW j \in s..Len(l), ~ IsPlain(l, j + 1), \A k \in s..j : IsPlain(l, k)
            PROVE  j = e
        <4>1. Len(l) \in Nat
          BY <1>1 DEF PlainLine
        <4>2. ~ (j < e)
          BY <1>8, <2>1, <3>2, <4>1
        <4>3. ~ (e < j)
          BY <1>6, <1>9, <2>1, <3>2, <4>1
        <4> QED BY <1>6, <2>1, <4>1, <4>2, <4>3
      <3> HIDE DEF s
      <3> QED BY <1>9, <3>1, <3>2 DEF RunEnd
    <2>5. Word(buf, p) = SubSeq(l, s, RunEnd(l, s))
      <3>1. PICK k \in Nat \ {0} : k = e - b
        BY <1>6, <1>11
      <3>2. \A i \in 1..k : b + i - 1 = b + i - 1 /\ buf[b + i - 1] = l[s + i - 1]
        <4> TAKE i \in 1..k
        <4>1. s + i - 1 \in 1..n /\ s + i - 1 - 1 = b + i - 1
          BY <1>1, <1>6, <3>1
        <4> QED BY <1>2, <4>1
      <3>3. PICK w : w = [i \in 1..k |-> buf[b + i - 1]]
        OBVIOUS
      <3>4. w = [i \in 1..k |-> l[s + i - 1]]
        BY <3>2, <3>3
      <3>5. SubSeq(l, s, e) = w
        <4>1. e - s + 1 = k /\ s \in Int /\ e \in Int /\ s \leq e
          BY <1>6, <2>1, <3>1
        <4>2. PICK u, f : u = s /\ f = e
          OBVIOUS
        <4>3. \A i \in u..f : l[i] \in STRING
          BY <1>1, <2>1, <4>1, <4>2 DEF PlainLine
        <4>4. /\ SubSeq(l, u, f) \in Seq(STRING) /\ Len(SubSeq(l, u, f)) = k
              /\ \A i \in 1..k : SubSeq(l, u, f)[i] = l[u + i - 1]
          BY <4>1, <4>2, <4>3, SubSeqProperties
        <4>5. \A i \in 1..k : w[i] = l[u + i - 1] /\ u + i - 1 \in u..f
          BY <3>4, <4>1, <4>2
        <4>6. w \in Seq(STRING) /\ Len(w) = k
          BY SMTT(30), <3>4, <4>2, <4>3, <4>5
        <4>7. PICK x : x = SubSeq(l, u, f)
          OBVIOUS
        <4>8. x \in Seq(STRING) /\ Len(x) = Len(w) /\ \A i \in 1..Len(w) : x[i] = w[i]
          BY <4>4, <4>5, <4>6, <4>7
        <4>9. x = w
          BY <4>6, <4>8, SeqEqual
        <4> QED BY <4>2, <4>7, <4>9
      <3>6. w[1] # "$"
        <4>1. w[1] = l[s]
          BY <1>6, <3>1, <3>4
        <4>2. l[s] \notin Special
          BY <1>1, <1>2, <2>1
        <4> QED BY <4>1, <4>2 DEF Special
      <3>7. Expand(w) = w
        BY <3>6 DEF Expand
      <3>8. Word(buf, p) = Expand(w)
        BY <1>3, <1>4, <3>1, <3>3 DEF Word
      <3> QED BY <2>4, <3>5, <3>7, <3>8
    <2>6. \A t \in RunStarts(l) : t > p <=> t = s \/ t > e + 1
      <3> TAKE t \in RunStarts(l)
      <3>1. t \in 1..n /\ IsPlain(l, t) /\ ~ IsPlain(l, t - 1)
        BY <1>1 DEF RunStarts
      <3>2. t \notin (p + 1)..b
        BY <1>7, <3>1
      <3>3. t - 1 \notin (b + 1)..e
        BY <1>8, <3>1
      <3>4. t # e + 1
        BY <1>9, <3>1
      <3> QED BY <1>1, <1>6, <1>11, <3>1, <3>2, <3>3
    <2>7. NextWord(buf, p) = e + 1
      BY <1>4 DEF NextWord
    <2> HIDE DEF s
    <2> QED BY <1>3, <1>4, <1>9, <1>11, <2>1, <2>3, <2>5, <2>6, <2>7
  <1> QED BY <1>10, <1>11


Behind(l, p) == {t \in RunStarts(l) : t > p}

RunAt(l, t) == SubSeq(l, t, RunEnd(l, t))

AreRunsBehind(l, p, words) ==
  \E m \in Nat : \E at :
    /\ InOrder(Behind(l, p), m, at)
    /\ words = [k \in 1..m |-> RunAt(l, at[k])]

(* One more run in front.                                                  *)
LEMMA RunInFront ==
  ASSUME NEW l, RunStarts(l) \in SUBSET Nat,
         NEW p \in Nat, NEW q \in Nat, NEW s \in RunStarts(l), s > p, s \leq q,
         \A t \in RunStarts(l) : t > p <=> t = s \/ t > q,
         NEW words, AreRunsBehind(l, q, words)
  PROVE  AreRunsBehind(l, p, <<RunAt(l, s)>> \o words)
  <1>1m. PICK m \in Nat :
          \E at : InOrder(Behind(l, q), m, at) /\ words = [k \in 1..m |-> RunAt(l, at[k])]
    BY DEF AreRunsBehind
  <1>1. PICK at :
          InOrder(Behind(l, q), m, at) /\ words = [k \in 1..m |-> RunAt(l, at[k])]
    BY <1>1m
  <1>2. PICK to : to = [k \in 1..(m + 1) |-> IF k = 1 THEN s ELSE at[k - 1]]
    OBVIOUS
  <1>3. /\ s \in Behind(l, p) /\ Behind(l, q) \subseteq Behind(l, p)
        /\ \A t \in Behind(l, p) : t = s \/ t \in Behind(l, q)
        /\ \A t \in Behind(l, q) : t \in Nat /\ s < t
        /\ s \in Nat
    BY DEF Behind
  <1>4. /\ \A k \in 1..m : at[k] \in Behind(l, q) /\ to[k + 1] = at[k]
        /\ \A t \in Behind(l, q) : \E k \in 1..m : at[k] = t
        /\ \A j, k \in 1..m : j < k => at[j] < at[k]
        /\ to[1] = s
        /\ DOMAIN to = 1..(m + 1)
    <2>1. /\ at \in [1..m -> Behind(l, q)]
          /\ \A t \in Behind(l, q) : \E k \in 1..m : at[k] = t
          /\ \A j, k \in 1..m : j < k => at[j] < at[k]
      BY <1>1 DEF InOrder
    <2>2. \A k \in 1..m : k + 1 \in 1..(m + 1) /\ k + 1 # 1 /\ k + 1 - 1 = k
      OBVIOUS
    <2>3. \A k \in 1..m : to[k + 1] = at[k]
      BY <1>2, <2>2
    <2> QED BY <1>2, <2>1, <2>3
  <1>5. \A k \in 1..(m + 1) : k # 1 => k - 1 \in 1..m /\ to[k] = at[k - 1]
    BY <1>2
  <1>6. InOrder(Behind(l, p), m + 1, to)
    <2>1. to \in [1..(m + 1) -> Behind(l, p)]
      <3>1. \A k \in 1..(m + 1) : to[k] \in Behind(l, p)
        BY <1>3, <1>4, <1>5
      <3>2. to = [k \in 1..(m + 1) |-> to[k]]
        BY <1>2
      <3> QED BY <3>1, <3>2
    <2>2. ASSUME NEW t \in Behind(l, p) PROVE \E k \in 1..(m + 1) : to[k] = t
      <3>1. CASE t = s
        BY <1>4, <3>1
      <3>2. CASE t \in Behind(l, q)
        <4>1. PICK k \in 1..m : at[k] = t
          BY <1>4, <3>2
        <4> QED BY <1>4, <4>1
      <3> QED BY <1>3, <3>1, <3>2
    <2>3. ASSUME NEW j \in 1..(m + 1), NEW k \in 1..(m + 1), j < k PROVE to[j] < to[k]
      <3>1. k - 1 \in 1..m /\ to[k] = at[k - 1]
        BY <1>5, <2>3
      <3>2. CASE j = 1
        BY <1>3, <1>4, <3>1, <3>2
      <3>3. CASE j # 1
        <4>1. j - 1 \in 1..m /\ to[j] = at[j - 1] /\ j - 1 < k - 1
          BY <1>5, <2>3, <3>3
        <4> QED BY <1>4, <3>1, <4>1
      <3> QED BY <3>2, <3>3
    <2> QED BY <2>1, <2>2, <2>3 DEF InOrder
  <1>7. <<RunAt(l, s)>> \o words = [k \in 1..(m + 1) |-> RunAt(l, to[k])]
    <2> DEFINE S == {RunAt(l, t) : t \in Behind(l, p)}
    <2>1. PICK x, v : x = RunAt(l, s) /\ v = [k \in 1..(m + 1) |-> RunAt(l, to[k])]
      OBVIOUS
    <2>2. x \in S /\ \A k \in 1..m : RunAt(l, at[k]) \in S
      BY <1>3, <1>4, <2>1
    <2>3. \A k \in 1..(m + 1) : v[k] \in S /\ v[k] = IF k = 1 THEN x ELSE words[k - 1]
      <3> TAKE k \in 1..(m + 1)
      <3>1. v[k] = RunAt(l, to[k])
        BY <2>1
      <3>2. CASE k = 1
        BY <1>4, <2>1, <2>2, <3>1, <3>2
      <3>3. CASE k # 1
        <4>1. k - 1 \in 1..m /\ to[k] = at[k - 1]
          BY <1>5, <3>3
        <4>2. words[k - 1] = RunAt(l, at[k - 1])
          BY <1>1, <4>1
        <4> QED BY <2>2, <3>1, <3>3, <4>1, <4>2
      <3> QED BY <3>2, <3>3
    <2> HIDE DEF S
    <2>4. words \in Seq(S) /\ Len(words) = m
      BY <1>1, <2>2
    <2>5. v \in Seq(S) /\ Len(v) = m + 1
      <3>1. v = [k \in 1..(m + 1) |-> v[k]]
        BY <2>1
      <3> QED BY <2>3, <3>1
    <2>6. <<x>> \in Seq(S) /\ Len(<<x>>) = 1 /\ <<x>>[1] = x
      BY <2>2
    <2>7. /\ <<x>> \o words \in Seq(S) /\ Len(<<x>> \o words) = m + 1
          /\ \A k \in 1..(m + 1) : (<<x>> \o words)[k] = IF k \leq 1 THEN <<x>>[k] ELSE words[k - 1]
      BY <2>4, <2>6, ConcatProperties
    <2>8. \A k \in 1..(m + 1) : (<<x>> \o words)[k] = v[k]
      BY <2>3, <2>6, <2>7
    <2>9. <<x>> \o words = v
      BY <2>5, <2>7, <2>8, SeqEqual
    <2> QED BY <2>1, <2>9
  <1> QED BY <1>6, <1>7 DEF AreRunsBehind

(* A run is a word.                                                        *)
LEMMA RunIsWord ==
  ASSUME NEW l \in Seq(STRING), NEW i \in RunStarts(l)
  PROVE  RunAt(l, i) \in Seq(STRING)
  <1>1. PICK n \in Nat : n = Len(l) /\ DOMAIN l = 1..n
    BY LenProperties
  <1>2. i \in 1..n /\ IsPlain(l, i)
    BY <1>1 DEF RunStarts
  <1> DEFINE Ends == {j \in i..n : ~ IsPlain(l, j + 1)}
  <1>3. n \in Ends /\ Ends \in SUBSET Nat
    BY <1>1, <1>2 DEF IsPlain
  <1>4. PICK e \in Ends : \A j \in Ends : e \leq j
    <2> HIDE DEF Ends
    <2> QED BY <1>3, LeastNatural
  <1>5. e \in i..n /\ ~ IsPlain(l, e + 1)
    OBVIOUS
  <1>6. ASSUME NEW k \in i..e PROVE IsPlain(l, k)
    <2>1. CASE k = i
      BY <1>2, <2>1
    <2>2. CASE k # i
      <3>1. k - 1 \in i..n /\ ~ (e \leq k - 1) /\ k - 1 + 1 = k
        BY <1>2, <1>5, <2>2
      <3> QED BY <1>4, <3>1
    <2> QED BY <2>1, <2>2
  <1>7. RunEnd(l, i) \in i..n
    <2> HIDE DEF Ends
    <2> QED BY <1>1, <1>5, <1>6 DEF RunEnd
  <1>8. PICK f \in Int : f = RunEnd(l, i)
    BY <1>7
  <1>9. \A k \in i..f : l[k] \in STRING
    BY <1>1, <1>2, <1>7, <1>8
  <1> QED BY <1>2, <1>8, <1>9, SubSeqProperties DEF RunAt

LEMMA WordsArePlainRuns ==
  ASSUME NEW l, NEW n, PlainLine(l, n), NEW buf, InFront(buf, l, n)
  PROVE  Words(buf).words = PlainRuns(l) /\ PlainRuns(l) \in Seq(Seq(STRING))
  <1>1. PICK f :
          /\ \A p \in Starts :
               /\ WordEnd(buf, p) = WordBegin(buf, p) => f[p].words = << >>
               /\ WordEnd(buf, p) # WordBegin(buf, p)
                    => f[p].words = <<Word(buf, p)>> \o f[NextWord(buf, p)].words
          /\ Words(buf) = f[0]
    BY WordsUnfold
  <1>2. /\ n \in Nat \ {0} /\ n < MaxLine /\ MaxLine \in Nat
        /\ 0..n \subseteq Starts /\ DOMAIN l = 1..n
        /\ RunStarts(l) \in SUBSET (1..n)
    BY ReaderAssumption DEF PlainLine, Starts, RunStarts
  (* Where no run begins any more, there is no word.                       *)
  <1>3. ASSUME NEW p \in 0..n, f[p].words = << >>, \A t \in RunStarts(l) : ~ (t > p)
        PROVE  AreRunsBehind(l, p, f[p].words)
    <2>1. Behind(l, p) = {}
      BY <1>3 DEF Behind
    <2>2. InOrder({}, 0, << >>)
      BY DEF InOrder
    <2>3. << >> = [k \in 1..0 |-> RunAt(l, << >>[k])]
      OBVIOUS
    <2> QED BY <1>3, <2>1, <2>2, <2>3 DEF AreRunsBehind
  <1> DEFINE Good(p) == ~ IsPlain(l, p) => AreRunsBehind(l, p, f[p].words)
             Bad == {m \in 0..n : ~ Good(n - m)}
  <1>4. Good(n)
    <2>1. f[n].words = << >>
      <3>1. buf[n] = NUL
        BY DEF InFront
      <3>2. WordEnd(buf, n) = WordBegin(buf, n)
        BY <1>2, <3>1, NoWordAtEnd
      <3>3. n \in Starts
        BY <1>2
      <3> QED BY <1>1, <3>2, <3>3
    <2>2. \A t \in RunStarts(l) : ~ (t > n)
      BY <1>2
    <2>3. n \in 0..n
      BY <1>2
    <2> QED BY <1>3, <2>1, <2>2, <2>3
  <1>5. ASSUME NEW p \in 0..(n - 1), \A q \in (p + 1)..n : Good(q)
        PROVE  Good(p)
    <2> HAVE ~ IsPlain(l, p)
    <2>1. p \in 0..n /\ p \in Nat /\ p \in Starts
      BY <1>2
    <2>2. CASE /\ WordEnd(buf, p) = WordBegin(buf, p)
               /\ \A t \in RunStarts(l) : ~ (t > p)
      BY <1>1, <1>3, <2>1, <2>2
    <2>3. CASE \E s \in RunStarts(l), r \in 1..(n - 1) :
              /\ WordEnd(buf, p) # WordBegin(buf, p)
              /\ Word(buf, p) = SubSeq(l, s, RunEnd(l, s))
              /\ NextWord(buf, p) = r + 1 /\ ~ IsPlain(l, r + 1)
              /\ s > p /\ s \leq r
              /\ \A t \in RunStarts(l) : t > p <=> t = s \/ t > r + 1
      <3>1. PICK s \in RunStarts(l), r \in 1..(n - 1) :
              /\ WordEnd(buf, p) # WordBegin(buf, p)
              /\ Word(buf, p) = SubSeq(l, s, RunEnd(l, s))
              /\ NextWord(buf, p) = r + 1 /\ ~ IsPlain(l, r + 1)
              /\ s > p /\ s \leq r
              /\ \A t \in RunStarts(l) : t > p <=> t = s \/ t > r + 1
        BY <2>3
      <3>2. PICK q : q = r + 1
        OBVIOUS
      <3>3. q \in (p + 1)..n /\ q \in Nat /\ s \leq q
        BY <1>2, <3>1, <3>2
      <3>4. AreRunsBehind(l, q, f[q].words)
        BY <1>5, <3>1, <3>2, <3>3
      <3>5. f[p].words = <<RunAt(l, s)>> \o f[q].words
        BY <1>1, <2>1, <3>1, <3>2 DEF RunAt
      <3>6. RunStarts(l) \in SUBSET Nat
        BY <1>2
      <3>7. s > p /\ \A t \in RunStarts(l) : t > p <=> t = s \/ t > q
        BY <3>1, <3>2
      <3> QED BY <2>1, <3>3, <3>4, <3>5, <3>6, <3>7, RunInFront
    <2> QED BY <2>2, <2>3, WordIsRun
  <1>6. Bad = {}
    <2> SUFFICES ASSUME Bad # {} PROVE FALSE
      OBVIOUS
    <2>1. Bad \in SUBSET Nat
      BY <1>2
    <2>2. PICK m \in Bad : \A k \in Bad : m \leq k
      <3> HIDE DEF Bad
      <3> QED BY <2>1, LeastNatural
    <2>3. PICK p : p = n - m
      OBVIOUS
    <2>4. m \in 0..n /\ ~ Good(p)
      BY <2>2, <2>3
    <2>5. m # 0
      <3>1. n - 0 = n
        BY <1>2
      <3> HIDE DEF Good
      <3> QED BY <1>4, <2>3, <2>4, <3>1
    <2>6. p \in 0..(n - 1)
      BY <1>2, <2>3, <2>4, <2>5
    <2>7. ASSUME NEW q \in (p + 1)..n PROVE Good(q)
      <3>1. n - q \in 0..n /\ n - (n - q) = q /\ ~ (m \leq n - q)
        BY <1>2, <2>3, <2>4, <2>6
      <3>2. n - q \notin Bad
        <4> HIDE DEF Bad
        <4> QED BY <2>2, <3>1
      <3> HIDE DEF Good
      <3> QED BY <3>1, <3>2
    <2> HIDE DEF Good
    <2> QED BY <1>5, <2>4, <2>6, <2>7
  <1>7. Good(0)
    <2>1. n \in 0..n /\ n - n = 0
      BY <1>2
    <2>2. n \notin Bad
      <3> HIDE DEF Bad
      <3> QED BY <1>6
    <2> HIDE DEF Good
    <2> QED BY <2>1, <2>2
  <1>8. AreRunsBehind(l, 0, f[0].words) /\ Behind(l, 0) = RunStarts(l)
    <2>1. ~ IsPlain(l, 0)
      BY <1>2 DEF IsPlain
    <2>2. Behind(l, 0) = RunStarts(l)
      BY <1>2 DEF Behind
    <2> QED BY <1>7, <2>1, <2>2
  <1>9m. PICK m \in Nat :
          \E at : InOrder(RunStarts(l), m, at) /\ f[0].words = [k \in 1..m |-> RunAt(l, at[k])]
    BY <1>8 DEF AreRunsBehind
  <1>9. PICK at :
          InOrder(RunStarts(l), m, at) /\ f[0].words = [k \in 1..m |-> RunAt(l, at[k])]
    BY <1>9m
  <1>10. PlainRuns(l) = [k \in 1..m |-> SubSeq(l, at[k], RunEnd(l, at[k]))]
    BY <1>2, <1>9, RunsInOrder
  <1>11. \A k \in 1..m : RunAt(l, at[k]) \in Seq(STRING)
    <2>1. l \in Seq(STRING) /\ \A k \in 1..m : at[k] \in RunStarts(l)
      BY <1>9 DEF PlainLine, InOrder
    <2> QED BY <2>1, RunIsWord
  <1>12. f[0].words \in Seq(Seq(STRING))
    BY <1>9, <1>11
  <1> QED BY <1>1, <1>9, <1>10, <1>12 DEF RunAt

-----------------------------------------------------------------------------
(* What is read is the rest of one line, wherever a child has moved the    *)
(* offset to: it fits into the buffer.                                     *)
LEMMA ReadsShort ==
  ASSUME TextInv, TakeLine
  PROVE  /\ LineFrom(Run!ReadsAt) \in Seq(STRING)
         /\ Len(LineFrom(Run!ReadsAt)) \in Nat \ {0}
         /\ Len(LineFrom(Run!ReadsAt)) < MaxLine
  <1>1. text \in Seq(Lines)
    BY TextShape DEF TextInv
  <1>2. PICK n \in Nat \ {0} : n = Len(text)
    BY TextShape DEF TextInv
  <1>3. PICK p \in Nat : p = Run!ReadsAt /\ p < Run!Size
    BY ReadsSome
  <1>4. PICK e : e = Run!NextLine(p)
    OBVIOUS
  <1>5. /\ \A k \in 1..(n + 1) : Offset(text, k) \in Nat
        /\ Offset(text, 1) = 0
        /\ \A k \in 1..n : Offset(text, k + 1) = Offset(text, k) + Len(text[k])
        /\ \A j, k \in 1..(n + 1) : j < k => Offset(text, j) < Offset(text, k)
        /\ FlattenSeq(text) \in Seq(STRING)
        /\ Len(FlattenSeq(text)) = Offset(text, n + 1)
    BY <1>1, <1>2, LinesOfText
  <1>6. Run!Ends = {Offset(text, k + 1) : k \in 1..n} /\ Run!Size = Offset(text, n + 1)
    BY <1>1, <1>2, ScriptOfText DEF TextInv
  <1>7. \A k \in 1..n : k + 1 \in 1..(n + 1) /\ k \in 1..(n + 1)
    OBVIOUS
  <1> DEFINE K == {k \in 1..n : p < Offset(text, k + 1)}
  <1>8. n \in K /\ K \in SUBSET Nat
    BY <1>3, <1>6
  <1>9. PICK k \in K : \A j \in K : k \leq j
    <2> HIDE DEF K
    <2> QED BY <1>8, LeastNatural
  <1>10. PICK a \in Nat, b \in Nat : a = Offset(text, k) /\ b = Offset(text, k + 1)
    BY <1>5, <1>7, <1>9
  <1>11. a \leq p /\ p < b
    <2>1. p < b
      BY <1>9, <1>10
    <2>2. CASE k = 1
      BY <1>5, <1>10, <2>1, <2>2
    <2>3. CASE k # 1
      <3>1. k - 1 \in 1..n /\ ~ (k \leq k - 1) /\ k - 1 + 1 = k
        BY <1>9, <2>3
      <3>2. k - 1 \notin K
        BY <1>9, <3>1
      <3> QED BY <1>10, <2>1, <3>1, <3>2
    <2> QED BY <2>2, <2>3
  <1>12. ASSUME NEW f \in Run!Ends, f > p PROVE f \in Nat /\ b \leq f
    <2>1. PICK j \in 1..n : f = Offset(text, j + 1)
      BY <1>6, <1>12
    <2>2. k \leq j
      BY <1>9, <1>12, <2>1
    <2>3. f \in Nat
      BY <1>5, <1>7, <2>1
    <2>4. k = j \/ k + 1 < j + 1
      BY <1>9, <2>2
    <2>5. k + 1 < j + 1 => Offset(text, k + 1) < Offset(text, j + 1)
      BY <1>5, <1>7, <1>9
    <2> QED BY <1>10, <2>1, <2>3, <2>4, <2>5
  <1>13. e = b
    <2>1. b \in Run!Ends /\ b > p
      BY <1>6, <1>9, <1>10, <1>11
    <2>2. b \in Run!Ends /\ b > p /\ \A f \in Run!Ends : f > p => b \leq f
      BY <1>12, <2>1
    <2>3. ASSUME NEW c \in Run!Ends, c > p, \A f \in Run!Ends : f > p => c \leq f PROVE c = b
      <3>1. c \leq b /\ b \leq c /\ c \in Nat
        BY <1>12, <2>1, <2>3
      <3> QED BY <3>1
    <2> QED BY <1>4, <2>2, <2>3 DEF Run!NextLine
  <1>14. b - a < MaxLine - 1 /\ b - a \in Nat
    <2>1. text[k] \in Lines
      BY <1>1, <1>2, <1>9
    <2>2. Len(text[k]) \in 1..(MaxLine - 2)
      BY <2>1, ReaderAssumption
    <2>3. b = a + Len(text[k])
      BY <1>5, <1>9, <1>10
    <2> QED BY <2>2, <2>3, ReaderAssumption
  <1>15. PICK u \in Int, y \in Seq(STRING) : u = p + 1 /\ y = Bytes /\ Len(y) = Run!Size
    BY <1>5, <1>6 DEF Bytes
  <1>16. \A i \in u..b : y[i] \in STRING
    <2>1. b \leq Run!Size /\ Run!Size \in Nat
      <3>1. k = n \/ k + 1 < n + 1
        BY <1>9
      <3>2. k + 1 < n + 1 => Offset(text, k + 1) < Offset(text, n + 1)
        BY <1>5, <1>7, <1>9
      <3>3. Run!Size \in Nat
        BY <1>5, <1>6
      <3> QED BY <1>6, <1>10, <3>1, <3>2, <3>3
    <2> QED BY <1>3, <1>15, <2>1
  <1>17. SubSeq(y, u, b) \in Seq(STRING) /\ Len(SubSeq(y, u, b)) = b - u + 1
    BY <1>11, <1>15, <1>16, SubSeqProperties
  <1>18. LineFrom(Run!ReadsAt) = SubSeq(y, u, b)
    BY <1>3, <1>4, <1>13, <1>15 DEF LineFrom
  <1> QED BY SMTT(30), <1>11, <1>14, <1>15, <1>17, <1>18, ReaderAssumption

LEMMA RunsInit == SessionInit => WordsAreRuns
  BY DEF SessionInit, Init, WordsAreRuns

(* The words of a line of plain characters and blanks, behind whatever.    *)
PlainEnded(l) == Last(l) = NL /\ Range(Front(l)) \cap Special = {}

LEMMA PlainLineRuns ==
  ASSUME NEW l \in Seq(STRING), Len(l) \in Nat \ {0}, Len(l) < MaxLine, PlainEnded(l), NEW buf
  PROVE  Words(Fgets(buf, l)).words = PlainRuns(l) /\ PlainRuns(l) \in Seq(Seq(STRING))
  <1>0. PICK n \in Nat \ {0} : n = Len(l) /\ n < MaxLine
    OBVIOUS
  <1>1. l[n] = NL
    BY <1>0 DEF PlainEnded, Last
  <1>2. ASSUME NEW i \in 1..(n - 1) PROVE l[i] \notin Special
    <2>1. PICK z \in Int : z = n - 1
      OBVIOUS
    <2>2. \A j \in 1..z : l[j] \in STRING
      BY <1>0, <2>1
    <2>3. PICK q : q = SubSeq(l, 1, z)
      OBVIOUS
    <2>4. q \in Seq(STRING) /\ Len(q) = z - 1 + 1 /\ \A j \in 1..(z - 1 + 1) : q[j] = l[1 + j - 1]
      <3>1. 1 \in Int /\ 1 \leq z
        BY <1>2, <2>1
      <3> QED BY <2>1, <2>2, <2>3, <3>1, SubSeqProperties
    <2>5. i \in DOMAIN q /\ q[i] = l[i]
      <3>1. i \in 1..(z - 1 + 1) /\ 1 + i - 1 = i
        BY <2>1
      <3> QED BY <2>4, <3>1
    <2>6. Front(l) = q
      BY <1>0, <2>1, <2>3 DEF Front
    <2> QED BY <2>5, <2>6 DEF PlainEnded, Range
  <1>3. PlainLine(l, n)
    BY <1>0, <1>1, <1>2 DEF PlainLine
  <1>4. InFront(Fgets(buf, l), l, n)
    <2>1. n \in Cells /\ \A c \in 0..(n - 1) : c \in Cells /\ c < n
      <3>1. n \in Nat /\ n < MaxLine /\ MaxLine \in Nat
        BY <1>0, ReaderAssumption
      <3> QED BY <3>1 DEF Cells
    <2>2. Fgets(buf, l)[n] = NUL
      BY <1>0, <2>1 DEF Fgets
    <2>3. \A c \in 0..(n - 1) : Fgets(buf, l)[c] = l[c + 1]
      BY <1>0, <2>1 DEF Fgets
    <2> QED BY <2>2, <2>3 DEF InFront
  <1> QED BY <1>3, <1>4, WordsArePlainRuns

LEMMA TakeLineRuns ==
  ASSUME TextInv, TakeLine
  PROVE  WordsAreRuns'
  <1>1. PICK l : l = LineFrom(Run!ReadsAt)
    OBVIOUS
  <1>2. line' = l /\ argv' = Words(Fgets(cmd, l)).words
    BY <1>1 DEF TakeLine, Read, CutOut
  <1>3. l \in Seq(STRING) /\ Len(l) \in Nat \ {0} /\ Len(l) < MaxLine
    BY <1>1, ReadsShort
  <1>4. PlainEnded(l) => argv' = PlainRuns(l)
    BY <1>2, <1>3, PlainLineRuns
  <1> QED BY <1>2, <1>4 DEF WordsAreRuns, PlainEnded, Last, Front, PlainRuns, Special

(* A line of plain characters and blanks gives its maximal runs of         *)
(* characters, in order, for lines of every length and every text: what    *)
(* the lines before it left in the buffer does not matter, and neither     *)
(* does what a child has done to the offset (3600sh.c:66-87).              *)
THEOREM WordsOfPlainLines == Session => []WordsAreRuns
  <1>1. ASSUME TextInv, WordsAreRuns, [SessionNext]_sessionVars PROVE WordsAreRuns'
    <2>1. CASE TakeLine
      BY <1>1, <2>1, TakeLineRuns
    <2>2. CASE UNCHANGED readerVars
      BY <1>1, <2>2 DEF WordsAreRuns, readerVars
    <2> QED BY <1>1, <2>1, <2>2, SessionSteps
  <1> QED BY <1>1, RunsInit, TextInvInit, TextInvNext, PTL DEF Session

-----------------------------------------------------------------------------
(* The session does what Shell says of the lines taken one by one, for any *)
(* input in which every line is terminated, and a file also with one line  *)
(* that names no program: two would move the offset into the middle of     *)
(* a line, and what Shell says of such a rest is coarser.                  *)
OneMissing ==
  \A t \in Texts : t.seekable =>
    \A j, k \in DOMAIN t.lines :
      Alone(t.lines[j]).kind = "missing" /\ Alone(t.lines[k]).kind = "missing" => j = k

IsMissing(p) == p \in DOMAIN script /\ script[p].kind = "missing"

(* The offset of a file is where the buffer ends, or has been moved back   *)
(* at most behind the one missing program, and never in front of what is   *)
(* read next; that program's child still finds the offset at the end of    *)
(* the buffer, or has nothing to give back: a last line without a newline  *)
(* may name no program where the script says it does.                      *)
RestInv ==
  seekable =>
    \/ inOff = bufEnd
    \/ Run!Missing = {}
    \/ \E m \in DOMAIN script : IsMissing(m) /\ inOff > m /\ rd \geq inOff

ForkedInv ==
  seekable /\ (pc = "fork" \/ child = "forked") /\ Task(job).kind = "missing" =>
    rd = Run!Size \/ (inOff = bufEnd /\ IsMissing(cur) /\ rd > cur)

TheText ==
  /\ \E t \in Texts : text = t.lines /\ seekable = t.seekable
  /\ script = ScriptOf(text)

ReadingInv ==
  /\ TheText
  /\ inOff \in Boundaries
  /\ bufEnd \in Boundaries
  /\ rd \in Boundaries
  /\ rd \leq bufEnd
  /\ RestInv
  /\ ForkedInv
  /\ pc # "wait" => child = "none"

LEMMA ReadingIsText == ReadingInv => TextInv
  <1> SUFFICES ASSUME ReadingInv PROVE TextInv
    OBVIOUS
  <1>1. /\ Run!Size \in Nat /\ DOMAIN script \subseteq Nat
        /\ \A p \in DOMAIN script : p < Run!Size
    BY BoundariesAre DEF ReadingInv, TheText
  <1>2. inOff \in 0..Run!Size
    BY <1>1 DEF ReadingInv, Boundaries
  <1> QED BY <1>2 DEF ReadingInv, TheText, TextInv

(* What is in the block of memory changes the name of a file only, and     *)
(* nothing when the block is clean.                                        *)
LEMMA JobsAlike ==
  ASSUME NEW words, NEW remains
  PROVE  /\ Task(Job(words, remains)).kind = Task(Job(words, << >>)).kind
         /\ \/ Job(words, remains).kind = "redirect"
            \/ Job(words, remains) = Job(words, << >>)
  <1>1. CASE words # << >> /\ words[1] = <<"exit">>
    BY <1>1 DEF Job
  <1>2. CASE ~ (words # << >> /\ words[1] = <<"exit">>) /\ ~ (Len(words) > 2 /\ Redirect \in Range(words))
    BY <1>2 DEF Job
  <1>3. CASE ~ (words # << >> /\ words[1] = <<"exit">>) /\ Len(words) > 2 /\ Redirect \in Range(words)
    <2>1. PICK args : args = ShiftedArgs(words)
      OBVIOUS
    <2>2. PICK file, other : file = FileName(words, remains) /\ other = FileName(words, << >>)
      OBVIOUS
    <2>3. /\ Job(words, remains) = [kind |-> "redirect", args |-> args, file |-> file]
          /\ Job(words, << >>) = [kind |-> "redirect", args |-> args, file |-> other]
      BY <1>3, <2>1, <2>2 DEF Job
    <2> QED BY <2>3 DEF Task
  <1> QED BY <1>1, <1>2, <1>3

(* The job of a line, with a clean block or not.                           *)
LEMMA TakenJob ==
  ASSUME TakeLine
  PROVE  \E words : /\ words = Words(Fgets(cmd, LineFrom(Run!ReadsAt))).words
                    /\ Task(job').kind = Task(Job(words, << >>)).kind
                    /\ clean' => clean /\ job' = Job(words, << >>)
  <1>1. PICK words : words = Words(Fgets(cmd, LineFrom(Run!ReadsAt))).words
    OBVIOUS
  <1>2. argv' = words
    BY <1>1 DEF TakeLine, Read, CutOut
  <1>3. PICK remains \in Remains :
          /\ job' = Job(words, remains)
          /\ clean' = (clean /\ (job'.kind = "redirect" => remains = << >>))
    BY <1>2 DEF TakeLine, Read
  <1>4. clean' => job' = Job(words, << >>)
    BY <1>3, JobsAlike
  <1>5. Task(job').kind = Task(Job(words, << >>)).kind
    BY <1>3, JobsAlike
  <1> QED BY <1>1, <1>3, <1>4, <1>5

(* Every line but the last ends with its newline, and the last one does if *)
(* the text does.                                                          *)
LEMMA EveryLineEnds ==
  ASSUME NEW t \in Texts, text = t.lines, NEW k \in DOMAIN text, Terminated \/ k # Len(text)
  PROVE  Len(text[k]) \in Nat \ {0} /\ text[k][Len(text[k])] = NL
  <1>1. text \in Seq(Lines) /\ text # << >> /\ \A j \in 1..(Len(text) - 1) : Last(text[j]) = NL
    BY SessionAssumption
  <1>2. PICK n \in Nat \ {0} : n = Len(text)
    BY <1>1, EmptySeq
  <1>3. k \in 1..n /\ text[k] \in Lines
    BY <1>1, <1>2
  <1>4. text[k] \in Seq(STRING) /\ Len(text[k]) \in Nat \ {0}
    BY <1>3, ReaderAssumption
  <1>5. CASE k # n
    BY <1>1, <1>2, <1>3, <1>4, <1>5 DEF Last
  <1>6. CASE k = n
    <2>1. /\ SubSeq(Bytes, Offset(text, n) + 1, Offset(text, n + 1)) = text[n]
          /\ Offset(text, n) \in Nat /\ Offset(text, n + 1) \in Nat
          /\ Offset(text, n + 1) = Offset(text, n) + Len(text[n])
          /\ Bytes \in Seq(STRING) /\ Len(Bytes) = Offset(text, n + 1)
      <3>1. n \in 1..n /\ n \in 1..(n + 1) /\ n + 1 \in 1..(n + 1)
        OBVIOUS
      <3> QED BY <1>1, <1>2, <3>1, LinesOfText DEF Bytes
    <2>2. PICK m \in Nat \ {0} : m = Len(text[n])
      BY <1>4, <1>6
    <2>3. PICK a \in Nat : a = Offset(text, n)
      BY <2>1
    <2>4. PICK b \in Seq(STRING) : b = Bytes /\ Len(b) = a + m
      BY <2>1, <2>2, <2>3
    <2>5. PICK u \in Int : u = a + 1
      OBVIOUS
    <2>6. PICK v \in Int : v = a + m
      OBVIOUS
    <2>7. text[n] = SubSeq(b, u, v)
      BY <2>1, <2>2, <2>3, <2>4, <2>5, <2>6
    <2>8. \A i \in u..v : b[i] \in STRING
      BY <2>4, <2>5, <2>6
    <2>9. \A i \in 1..(v - u + 1) : SubSeq(b, u, v)[i] = b[u + i - 1]
      BY <2>8, SubSeqProperties
    <2>10. m \in 1..(v - u + 1) /\ u + m - 1 = a + m
      BY <2>5, <2>6
    <2>11. text[n][m] = b[a + m]
      BY <2>7, <2>9, <2>10
    <2>12. b[a + m] = NL
      BY <1>2, <1>6, <2>4 DEF Terminated, Last
    <2> QED BY <1>4, <1>6, <2>2, <2>11, <2>12
  <1> QED BY <1>5, <1>6

(* The line that is read is a line of the text, and the one that Shell     *)
(* reads.                                                                  *)
LEMMA ReadsTheScript ==
  ASSUME ReadingInv, TakeLine
  PROVE  /\ Run!ReadsAt \in DOMAIN script
         /\ LineFrom(Run!ReadsAt) \in Lines
         /\ Terminated \/ Run!NextLine(Run!ReadsAt) # Run!Size
              => /\ Task(job').kind = script[Run!ReadsAt].kind
                 /\ clean' => Task(job') = Run!JobAt(Run!ReadsAt)
  <1>1. PICK t \in Texts : text = t.lines /\ seekable = t.seekable
    BY DEF ReadingInv, TheText
  <1>2. script = ScriptOf(text)
    BY DEF ReadingInv, TheText
  <1>3. Run!ReadsAt \in DOMAIN script
    <2>1. Run!ReadsAt \in Boundaries
      BY DEF ReadingInv, Run!ReadsAt
    <2>2. Run!ReadsAt < Run!Size /\ Run!Size \in Nat
      BY <1>1, <1>2, BoundariesAre DEF TakeLine
    <2> QED BY <2>1, <2>2 DEF Boundaries
  <1>4. PICK p \in DOMAIN script : p = Run!ReadsAt
    BY <1>3
  <1>5. PICK k \in DOMAIN text :
          /\ LineFrom(p) = text[k]
          /\ k = Len(text) => Run!NextLine(p) = Run!Size
          /\ script[p] = [kind |-> Alone(text[k]).kind, file |-> Alone(text[k]).file,
                          len |-> Len(text[k])]
    BY <1>1, <1>2, BoundariesAre
  <1>6. PICK l : l = text[k]
    OBVIOUS
  <1> DEFINE Ended == Terminated \/ Run!NextLine(p) # Run!Size
  <1>7. Ended => Len(l) \in Nat \ {0} /\ l[Len(l)] = NL
    BY <1>1, <1>5, <1>6, EveryLineEnds
  <1>8. /\ Task(job').kind = Task(Job(Words(Fgets(cmd, l)).words, << >>)).kind
        /\ clean' => job' = Job(Words(Fgets(cmd, l)).words, << >>)
    BY <1>4, <1>5, <1>6, TakenJob
  <1>9. Ended => Words(Fgets(cmd, l)).words = Words(Fgets([x \in Cells |-> NUL], l)).words
    BY <1>7, WordsOfLine
  <1>10. Ended => Task(job').kind = Alone(l).kind /\ (clean' => Task(job') = Alone(l))
    BY <1>8, <1>9 DEF Alone
  <1>11. Run!JobAt(p) = [kind |-> script[p].kind, file |-> script[p].file]
    BY DEF Run!JobAt, Run!LineAt
  <1>12. Alone(l) = [kind |-> Alone(l).kind, file |-> Alone(l).file]
    <2>1. \A j : Task(j) = [kind |-> Task(j).kind, file |-> Task(j).file]
      BY DEF Task
    <2> QED BY <2>1 DEF Alone
  <1>13. PICK kind, file, len : kind = Alone(l).kind /\ file = Alone(l).file /\ len = Len(l)
    OBVIOUS
  <1>14. PICK r : r = script[p]
    OBVIOUS
  <1>15. r = [kind |-> kind, file |-> file, len |-> len]
    BY <1>5, <1>6, <1>13, <1>14
  <1>16. r.kind = kind /\ r.file = file
    BY <1>15
  <1>17. Run!JobAt(p) = [kind |-> kind, file |-> file]
    BY <1>11, <1>14, <1>16
  <1>18. text[k] \in Lines
    <2>1. text \in Seq(Lines)
      BY <1>1, SessionAssumption
    <2> QED BY <2>1
  <1> QED BY <1>3, <1>4, <1>5, <1>10, <1>12, <1>13, <1>14, <1>16, <1>17, <1>18

LEMMA ReadingInvInit == SessionInit => ReadingInv
  <1> SUFFICES ASSUME SessionInit PROVE ReadingInv
    OBVIOUS
  <1>1. PICK t \in Texts : text = t.lines /\ script = ScriptOf(t.lines) /\ seekable = t.seekable
    BY DEF SessionInit
  <1>2. script = ScriptOf(text)
    BY <1>1
  <1>3. 0 \in DOMAIN script
    BY <1>1, <1>2, BoundariesAre
  <1>4. inOff = 0 /\ bufEnd = 0 /\ rd = 0 /\ pc = "prompt" /\ child = "none"
    BY DEF SessionInit
  <1> QED BY <1>1, <1>2, <1>3, <1>4 DEF ReadingInv, TheText, Boundaries, RestInv, ForkedInv

(* A line that may move the offset is read with the offset at the end of   *)
(* the buffer.                                                             *)
LEMMA TakeLineInv ==
  ASSUME ReadingInv, OneMissing, TakeLine
  PROVE  ReadingInv'
  <1>1. PICK t \in Texts : text = t.lines /\ seekable = t.seekable
    BY DEF ReadingInv, TheText
  <1>2. script = ScriptOf(text)
    BY DEF ReadingInv, TheText
  <1>3. PICK p \in DOMAIN script :
          /\ p = Run!ReadsAt
          /\ Run!NextLine(p) # Run!Size => Task(job').kind = script[p].kind
    BY ReadsTheScript
  <1>4. PICK size \in Nat : size = Run!Size
    BY <1>1, <1>2, BoundariesAre
  <1>5. PICK e : e = Run!NextLine(p)
    OBVIOUS
  <1>6. /\ inOff \in Nat /\ bufEnd \in Nat /\ rd \in Nat /\ rd \leq bufEnd
        /\ Run!LineEnd = e
    BY <1>3, <1>5, ReadingIsText, NotTorn
  <1>7. /\ e \in Boundaries /\ e > p /\ e \in Nat /\ e \leq size
        /\ DOMAIN script \subseteq Nat /\ p \in Nat
        /\ \A q \in Boundaries : q \in Nat
    BY <1>1, <1>2, <1>4, <1>5, BoundariesAre DEF Boundaries
  <1>8. /\ UNCHANGED <<text, script, seekable, child>>
        /\ pc = "prompt" /\ child = "none"
        /\ rd' = e /\ cur' = p
        /\ bufEnd' \in Boundaries
    BY <1>3, <1>6 DEF TakeLine, Run!Take, Run!inputVars, ReadingInv
  <1>9. \/ \E f \in e..size : inOff' = f /\ bufEnd' = f
        \/ UNCHANGED <<inOff, bufEnd>> /\ e \leq bufEnd /\ p = rd
    BY <1>3, <1>4, <1>6 DEF TakeLine, Run!Take, Run!ReadsAt
  <1>10. /\ Run!Size' = size /\ Boundaries' = Boundaries /\ Run!Missing' = Run!Missing
         /\ \A q : IsMissing(q)' = IsMissing(q)
    BY <1>4, <1>8, SameSize DEF IsMissing
  <1>11. TheText'
    BY <1>1, <1>2, <1>8, SameSize DEF TheText
  <1>12. inOff' \in Boundaries /\ rd' \leq bufEnd'
    BY <1>6, <1>7, <1>8, <1>9 DEF ReadingInv
  <1>13. RestInv'
    <2> SUFFICES ASSUME seekable, inOff' # bufEnd', Run!Missing # {}
                 PROVE  \E m \in DOMAIN script : IsMissing(m) /\ inOff' > m /\ rd' \geq inOff'
      BY <1>8, <1>10 DEF RestInv
    <2>1. UNCHANGED <<inOff, bufEnd>> /\ p = rd
      BY <1>9
    <2>2. PICK m \in DOMAIN script : IsMissing(m) /\ inOff > m /\ rd \geq inOff
      BY <2>1 DEF ReadingInv, RestInv
    <2>3. rd' \geq inOff'
      BY <1>6, <1>7, <1>8, <2>1, <2>2
    <2> QED BY <2>1, <2>2, <2>3
  <1>14. ForkedInv'
    <2> SUFFICES ASSUME seekable, e # size, script[p].kind = "missing"
                 PROVE  inOff' = bufEnd'
      BY <1>3, <1>4, <1>5, <1>7, <1>8, <1>10 DEF ForkedInv, IsMissing, Task
    <2>1. CASE \E f \in e..size : inOff' = f /\ bufEnd' = f
      BY <2>1
    <2>2. CASE UNCHANGED <<inOff, bufEnd>> /\ e \leq bufEnd /\ p = rd
      <3> SUFFICES ASSUME inOff # bufEnd PROVE FALSE
        BY <2>2
      <3>1. Run!Missing # {}
        BY DEF Run!Missing
      <3>2. PICK m \in DOMAIN script : IsMissing(m) /\ inOff > m /\ rd \geq inOff
        BY <3>1 DEF ReadingInv, RestInv
      <3>3. m = p
        <4>1. PICK j, k \in DOMAIN text :
                /\ script[m].kind = Alone(text[j]).kind
                /\ script[p].kind = Alone(text[k]).kind
                /\ j = k => m = p
          BY <1>1, <1>2, BoundariesAre
        <4>2. j = k
          BY <1>1, <3>2, <4>1 DEF OneMissing, IsMissing
        <4> QED BY <4>1, <4>2
      <3> QED BY <1>6, <1>7, <2>2, <3>2, <3>3
    <2> QED BY <1>9, <2>1, <2>2
  <1> QED BY <1>7, <1>8, <1>10, <1>11, <1>12, <1>13, <1>14 DEF ReadingInv

(* A child that gives back what the shell has not read leaves the offset   *)
(* where the shell reads next.                                             *)
LEMMA ExecFailsInv ==
  ASSUME ReadingInv, Run!ExecFails, UNCHANGED <<text, readerVars>>
  PROVE  ReadingInv'
  <1>1. /\ child = "forked" /\ Task(job).kind = "missing" /\ child' = "zombie"
        /\ inOff' = IF Run!GivesBack THEN inOff - Run!Unread ELSE inOff
        /\ UNCHANGED <<text, script, seekable, rd, bufEnd, pc, cur, job>>
    BY DEF Run!ExecFails, Run!inputVars, Run!shellVars, Run!bufferVars, readerVars
  <1>2. /\ Run!Size' = Run!Size /\ Boundaries' = Boundaries /\ Run!Missing' = Run!Missing
        /\ \A q : IsMissing(q)' = IsMissing(q)
    BY <1>1, SameSize DEF IsMissing
  <1>3. TheText'
    BY <1>1, SameSize DEF ReadingInv, TheText
  <1>4. /\ inOff \in Nat /\ bufEnd \in Nat /\ rd \in Nat
        /\ rd \leq bufEnd /\ bufEnd \leq Run!Size /\ Run!Size \in Nat
    BY ReadingIsText, NotTorn
  <1>5. \/ inOff' = inOff
        \/ inOff' = rd /\ IsMissing(cur) /\ rd > cur
    <2>1. CASE seekable /\ rd = Run!Size
      <3>1. Run!Unread = 0
        BY <1>4, <2>1 DEF Run!Unread
      <3> QED BY <1>1, <1>4, <3>1
    <2>2. CASE seekable /\ rd # Run!Size
      <3>1. inOff = bufEnd /\ IsMissing(cur) /\ rd > cur
        BY <1>1, <2>2 DEF ReadingInv, ForkedInv
      <3>2. bufEnd - (bufEnd - rd) = rd
        BY <1>4
      <3> QED BY <1>1, <3>1, <3>2 DEF Run!Unread
    <2>3. CASE ~ seekable
      BY <1>1, <2>3 DEF Run!GivesBack
    <2> QED BY <2>1, <2>2, <2>3
  <1>6. inOff' \in Boundaries
    BY <1>5 DEF ReadingInv
  <1>7. RestInv'
    <2>1. CASE inOff' = inOff
      BY <1>1, <1>2, <2>1 DEF ReadingInv, RestInv
    <2>2. CASE inOff' = rd /\ IsMissing(cur) /\ rd > cur
      <3>1. cur \in DOMAIN script /\ rd \geq rd
        BY <1>4, <2>2 DEF IsMissing
      <3> QED BY <1>1, <1>2, <2>2, <3>1 DEF RestInv
    <2> QED BY <1>5, <2>1, <2>2
  <1>8. pc = "wait"
    BY <1>1 DEF ReadingInv
  <1> QED BY <1>1, <1>2, <1>3, <1>6, <1>7, <1>8 DEF ReadingInv, ForkedInv

(* A program reads lines of a file only where no program is missing.       *)
LEMMA TakesLinesInv ==
  ASSUME ReadingInv, TakesLines
  PROVE  ReadingInv'
  <1>1. PICK e \in Boundaries : Run!TakesInput(e)
    BY DEF TakesLines
  <1>2. /\ child = "running" /\ (seekable => Run!Missing = {})
        /\ inOff' = e
        /\ UNCHANGED <<text, script, seekable, rd, bufEnd, pc, cur, job, child>>
    BY <1>1 DEF TakesLines, Run!TakesInput, Run!inputVars, Run!shellVars, Run!bufferVars, readerVars
  <1>3. /\ Run!Size' = Run!Size /\ Boundaries' = Boundaries /\ Run!Missing' = Run!Missing
    BY <1>2, SameSize
  <1>4. TheText'
    BY <1>2, SameSize DEF ReadingInv, TheText
  <1>5. RestInv'
    BY <1>2, <1>3 DEF RestInv
  <1>6. pc = "wait"
    BY <1>2 DEF ReadingInv
  <1>7. ForkedInv'
    BY <1>2, <1>6 DEF ForkedInv
  <1> QED BY <1>2, <1>3, <1>4, <1>5, <1>6, <1>7 DEF ReadingInv

LEMMA ReadingInvNext == OneMissing /\ ReadingInv /\ [SessionNext]_sessionVars => ReadingInv'
  <1> SUFFICES ASSUME OneMissing, ReadingInv, [SessionNext]_sessionVars
               PROVE  ReadingInv'
    OBVIOUS
  <1> USE DEF Run!inputVars, Run!bufferVars, Run!outputVars, Run!shellVars, readerVars
  <1>1. CASE TakeLine
    BY <1>1, TakeLineInv
  <1>2. CASE RunStep /\ Run!ExecFails
    BY <1>2, ExecFailsInv DEF RunStep
  (* The other steps leave the offset, the buffer and the line alone.      *)
  <1>3. ASSUME UNCHANGED <<text, script, seekable, inOff, rd, bufEnd, cur, job>>,
               pc' = "fork" => pc = "fork",
               child' = "forked" => child = "forked" \/ pc = "fork",
               pc' # "wait" => child' = "none"
        PROVE  ReadingInv'
    <2>1. /\ Run!Size' = Run!Size /\ Boundaries' = Boundaries /\ Run!Missing' = Run!Missing
          /\ \A q : IsMissing(q)' = IsMissing(q)
      BY <1>3, SameSize DEF IsMissing
    <2>2. TheText'
      BY <1>3, SameSize DEF ReadingInv, TheText
    <2>3. RestInv'
      BY <1>3, <2>1 DEF ReadingInv, RestInv
    <2>4. ForkedInv'
      BY <1>3, <2>1 DEF ReadingInv, ForkedInv
    <2> QED BY <1>3, <2>1, <2>2, <2>3, <2>4 DEF ReadingInv
  <1>4. CASE Exec
    BY <1>3, <1>4 DEF Exec, Run!Exec, ReadingInv
  <1>5. CASE RunStep /\ Run!ReadEof
    BY <1>3, <1>5 DEF RunStep, Run!ReadEof, ReadingInv
  <1>6. CASE RunStep /\ (Run!Fork \/ Run!ForkFails)
    BY <1>3, <1>6 DEF RunStep, Run!Fork, Run!ForkFails, ReadingInv
  <1>7. CASE RunStep /\ Run!Wait
    BY <1>3, <1>7 DEF RunStep, Run!Wait, Run!Reapable, Run!AfterWait, ReadingInv
  <1>8. CASE RunStep /\ (Run!ExecBlank \/ Run!Finish)
    BY <1>3, <1>8 DEF RunStep, Run!ExecBlank, Run!Finish, ReadingInv
  <1>9. CASE RunStep /\ Run!Interrupt
    BY <1>3, <1>9 DEF RunStep, Run!Interrupt, ReadingInv
  <1>10. CASE RunStep /\ Run!Exited
    BY <1>3, <1>10 DEF RunStep, Run!Exited, Run!vars, ReadingInv
  <1>11. CASE UNCHANGED sessionVars
    BY <1>3, <1>11 DEF sessionVars, runVars, ReadingInv
  <1>12. CASE TakesLines
    BY <1>12, TakesLinesInv
  <1> QED BY <1>1, <1>2, <1>4, <1>5, <1>6, <1>7, <1>8, <1>9, <1>10, <1>11, <1>12
          DEF SessionNext, RunStep

LEMMA AlwaysReading == OneMissing /\ Session => []ReadingInv
  <1>1. OneMissing => OneMissing'
    BY DEF OneMissing
  <1>2. OneMissing /\ SessionInit => (OneMissing /\ ReadingInv)
    BY ReadingInvInit
  <1>3. OneMissing /\ ReadingInv /\ [SessionNext]_sessionVars => (OneMissing /\ ReadingInv)'
    BY <1>1, ReadingInvNext
  <1> QED BY <1>2, <1>3, PTL DEF Session

(* A step of the session is one of Shell, or leaves its variables alone.   *)
LEMMA StepImplements ==
  ASSUME ReadingInv, Terminated, clean', [SessionNext]_sessionVars
  PROVE  [Run!Next]_(Run!vars)
  <1>1. CASE TakeLine
    <2>1. Task(job') = Run!JobAt(Run!ReadsAt) /\ Run!Take(Task(job'))
      BY <1>1, ReadsTheScript DEF TakeLine
    <2>2. ~ Run!Torn
      BY ReadingIsText, NotTorn
    <2>3. Run!ReadLine
      BY <2>1, <2>2 DEF Run!ReadLine
    <2> QED BY <2>3 DEF Run!Next, Run!ShellStep
  <1>2. CASE Exec
    BY <1>2 DEF Exec, Run!Next, Run!ChildStep
  <1>3. CASE RunStep
    BY <1>3 DEF RunStep, Run!Next, Run!ShellStep, Run!ChildStep
  <1>4. CASE TakesLines
    <2>1. PICK e \in Boundaries : Run!TakesInput(e)
      BY <1>4 DEF TakesLines
    <2>2. e \in (inOff + 1)..Run!Size /\ inOff \in Nat /\ Run!Size \in Nat
      BY <2>1, ReadingIsText, NotTorn DEF Run!TakesInput
    <2>3. e \in 0..Run!Size
      BY <2>2
    <2> QED BY <2>1, <2>3 DEF Run!Next, Run!ChildStep
  <1>5. CASE UNCHANGED sessionVars
    BY <1>5 DEF sessionVars, runVars, readerVars, Run!vars, Run!inputVars, Run!shellVars,
       Run!bufferVars, Run!outputVars, Run!history
  <1> QED BY <1>1, <1>2, <1>3, <1>4, <1>5 DEF SessionNext

(* Cutting words out of a buffer that is never cleared, and reading where  *)
(* a child may have moved the offset to, the session does, step by step,   *)
(* what Shell says of the lines one by one, up to the first name that is   *)
(* put together in a block of memory that is not clean (3600sh.c:33-61,    *)
(* 97-107, 188-191).                                                       *)
THEOREM SessionImplementsShell == OneMissing /\ Session => ImplementsShell
  <1>1. ReadingInv /\ [SessionNext]_sessionVars => (Terminated /\ clean' => [Run!Next]_(Run!vars))
    BY StepImplements
  <1> QED BY <1>1, AlwaysReading, PTL DEF Session, ImplementsShell

-----------------------------------------------------------------------------
(* The words that are found, and the cells where they are cut off.         *)
Stops == {NUL, NL, BLANK, "#"}

IsCut(buf, c) == c = MaxLine \/ buf[c] \in Stops

WordsAt(buf) == {Word(buf, q) : q \in {p \in 0..MaxLine : WordEnd(buf, p) # WordBegin(buf, p)}}

LEMMA WordsCutOut ==
  ASSUME NEW buf
  PROVE  /\ Range(Words(buf).words) \subseteq WordsAt(buf)
         /\ \A c \in Words(buf).cuts : IsCut(buf, c)
  <1> DEFINE W == WordsAt(buf)
             Good(r) == r.words \in Seq(W) /\ \A c \in r.cuts : IsCut(buf, c)
  <1>1. PICK f :
          /\ \A p \in Starts :
               /\ WordEnd(buf, p) = WordBegin(buf, p) => f[p].words = << >>
               /\ WordEnd(buf, p) # WordBegin(buf, p)
                    => f[p].words = <<Word(buf, p)>> \o f[NextWord(buf, p)].words
          /\ Words(buf) = f[0]
          /\ \A p \in Starts :
               f[p].cuts = IF WordEnd(buf, p) = WordBegin(buf, p) THEN {}
                           ELSE {WordEnd(buf, p)} \cup f[NextWord(buf, p)].cuts
    BY WordsUnfold
  <1> DEFINE Bad == {m \in Starts : ~ Good(f[MaxLine + 1 - m])}
  <1>2. Bad = {}
    <2> SUFFICES ASSUME Bad # {} PROVE FALSE
      OBVIOUS
    <2>1. Bad \in SUBSET Nat
      BY ReaderAssumption DEF Starts
    <2>2. PICK m \in Bad : \A k \in Bad : m \leq k
      <3> HIDE DEF Bad
      <3> QED BY <2>1, LeastNatural
    <2>3. PICK p : p = MaxLine + 1 - m
      OBVIOUS
    <2>4. p \in Starts /\ p \in 0..(MaxLine + 1) /\ ~ Good(f[p]) /\ m \in Nat
      <3>1. m \in Starts /\ ~ Good(f[p])
        BY <2>2, <2>3
      <3> HIDE DEF Good
      <3> QED BY <2>3, <3>1, ReaderAssumption DEF Starts
    <2>5. WordEnd(buf, p) # WordBegin(buf, p)
      <3> SUFFICES ASSUME WordEnd(buf, p) = WordBegin(buf, p) PROVE FALSE
        OBVIOUS
      <3>1. f[p].words = << >> /\ f[p].cuts = {}
        BY <1>1, <2>4
      <3> HIDE DEF W
      <3>2. << >> \in Seq(W)
        BY EmptySeq
      <3> QED BY <2>4, <3>1, <3>2
    <2>6. p \in 0..MaxLine /\ NextWord(buf, p) \in (p + 1)..(MaxLine + 1)
      <3> HIDE DEF Good
      <3> QED BY <2>4, <2>5, NextWordIsLater, ReaderAssumption
    <2>7. Word(buf, p) \in W
      BY <2>5, <2>6 DEF WordsAt
    <2>8. PICK q : q = NextWord(buf, p)
      OBVIOUS
    <2>9. Good(f[q])
      <3>1. /\ MaxLine + 1 - q \in Starts /\ MaxLine + 1 - (MaxLine + 1 - q) = q
            /\ ~ (m \leq MaxLine + 1 - q)
        <4> HIDE DEF Good
        <4> QED BY <2>3, <2>4, <2>6, <2>8, ReaderAssumption DEF Starts
      <3>2. MaxLine + 1 - q \notin Bad
        <4> HIDE DEF Bad
        <4> QED BY <2>2, <3>1
      <3> HIDE DEF Good
      <3> QED BY <3>1, <3>2
    <2>10. /\ f[p].words = <<Word(buf, p)>> \o f[q].words
           /\ f[p].cuts = {WordEnd(buf, p)} \cup f[q].cuts
      <3> HIDE DEF Good
      <3> QED BY <1>1, <2>4, <2>5, <2>8
    <2>11. f[p].words \in Seq(W)
      <3> HIDE DEF W
      <3>1. <<Word(buf, p)>> \in Seq(W)
        BY <2>7
      <3> QED BY <2>9, <2>10, <3>1, ConcatProperties
    <2>12. IsCut(buf, WordEnd(buf, p))
      <3>1. p \in Nat /\ p \leq MaxLine
        BY <2>6, ReaderAssumption
      <3>2. PICK b \in p..MaxLine : WordBegin(buf, p) = b
        BY <3>1, WordBeginIsFirst
      <3>3. PICK e \in b..MaxLine :
              WordEnd(buf, p) = e /\ (e < MaxLine => buf[e] \in {NUL, NL, BLANK, "#"})
        BY <3>1, <3>2, WordEndIsFirst
      <3>4. e < MaxLine \/ e = MaxLine
        BY <3>1, <3>2, <3>3, ReaderAssumption
      <3> QED BY <3>3, <3>4 DEF IsCut, Stops
    <2> HIDE DEF W, Bad
    <2> QED BY <2>4, <2>9, <2>10, <2>11, <2>12
  <1>3. Good(f[0])
    <2>1. MaxLine + 1 \in Starts /\ MaxLine + 1 - (MaxLine + 1) = 0
      BY ReaderAssumption DEF Starts
    <2>2. MaxLine + 1 \notin Bad
      <3> HIDE DEF Bad
      <3> QED BY <1>2
    <2> HIDE DEF Good
    <2> QED BY <2>1, <2>2
  <1>4. Range(f[0].words) \subseteq W
    <2> HIDE DEF W
    <2> QED BY <1>3 DEF Range
  <1> QED BY <1>1, <1>3, <1>4

(* A word is empty only where it names an empty variable.                  *)
NamesIn(buf, v, i) ==
  /\ i \in Cells /\ i + Len(v) \in Cells
  /\ buf[i] = "$"
  /\ \A k \in DOMAIN v : i + k \in Cells /\ buf[i + k] = v[k] /\ buf[i + k] \notin Stops

LEMMA EmptyWord ==
  ASSUME NEW buf, << >> \in WordsAt(buf)
  PROVE  \E v \in DOMAIN Env : Env[v] = << >> /\ \E i : NamesIn(buf, v, i)
  <1>1. PICK p \in 0..MaxLine : WordEnd(buf, p) # WordBegin(buf, p) /\ Word(buf, p) = << >>
    BY DEF WordsAt
  <1>2. p \in Nat /\ p \leq MaxLine /\ MaxLine \in Nat
    BY ReaderAssumption
  <1>3. PICK b \in p..MaxLine : WordBegin(buf, p) = b
    BY <1>2, WordBeginIsFirst
  <1>4. PICK e \in b..MaxLine :
          WordEnd(buf, p) = e /\ \A c \in b..(e - 1) : buf[c] \notin {NUL, NL, BLANK, "#"}
    BY <1>2, <1>3, WordEndIsFirst
  <1>5. PICK n \in Nat \ {0} : n = e - b
    BY <1>1, <1>2, <1>3, <1>4
  <1>6. PICK w : w = [i \in 1..n |-> buf[b + i - 1]]
    OBVIOUS
  <1> DEFINE S == {buf[b + i - 1] : i \in 1..n}
  <1>7. w \in Seq(S) /\ Len(w) = n
    <2>1. \A i \in 1..n : buf[b + i - 1] \in S
      OBVIOUS
    <2> HIDE DEF S
    <2> QED BY <1>6, <2>1
  <1>8. w # << >>
    BY <1>5, <1>7
  <1>9. Expand(w) = << >>
    BY <1>1, <1>3, <1>4, <1>5, <1>6 DEF Word
  <1>10. PICK v : v = Tail(w)
    OBVIOUS
  <1>11. w[1] = "$" /\ v \in DOMAIN Env /\ Env[v] = << >>
    <2>1. <<"UNDEFINED">> # << >>
      OBVIOUS
    <2> QED BY <1>8, <1>9, <1>10, <2>1 DEF Expand
  <1>12. /\ Len(v) = n - 1 /\ DOMAIN v = 1..(n - 1)
         /\ \A k \in 1..(n - 1) : v[k] = w[k + 1]
    <2> HIDE DEF S
    <2>1. /\ Tail(w) \in Seq(S)
          /\ Len(Tail(w)) = Len(w) - 1
          /\ \A k \in 1..Len(Tail(w)) : Tail(w)[k] = w[k + 1]
      BY <1>7, <1>8, HeadTailProperties
    <2>2. v \in Seq(S) /\ Len(v) = n - 1 /\ \A k \in 1..Len(v) : v[k] = w[k + 1]
      BY <1>7, <1>10, <2>1
    <2> QED BY <2>2, LenProperties
  <1> HIDE DEF S
  <1>13. /\ b \in Cells /\ b + (n - 1) \in Cells
         /\ \A k \in 1..(n - 1) : b + k \in Cells /\ b + k \in b..(e - 1) /\ k + 1 \in 1..n
    BY <1>2, <1>3, <1>4, <1>5 DEF Cells
  <1>14. buf[b] = "$"
    <2>1. 1 \in 1..n /\ b + 1 - 1 = b
      BY <1>2, <1>3, <1>5
    <2>2. w[1] = buf[b + 1 - 1]
      BY <1>6, <2>1
    <2> QED BY <1>11, <2>1, <2>2
  <1>15. ASSUME NEW k \in 1..(n - 1)
         PROVE  buf[b + k] = v[k] /\ buf[b + k] \notin Stops
    <2>1. b + (k + 1) - 1 = b + k
      BY <1>2, <1>3
    <2>2. w[k + 1] = buf[b + (k + 1) - 1]
      BY <1>6, <1>13
    <2> QED BY <1>4, <1>12, <1>13, <2>1, <2>2 DEF Stops
  <1>16. NamesIn(buf, v, b)
    BY <1>12, <1>13, <1>14, <1>15 DEF NamesIn
  <1> QED BY <1>11, <1>16

LEMMA TakeLineTypes ==
  ASSUME ReadingInv, TypeOK, TakeLine
  PROVE  TypeOK'
  <1>1. PICK l \in Lines : l = LineFrom(Run!ReadsAt)
    BY ReadsTheScript
  <1>2. PICK buf, cuts : buf = Fgets(cmd, l) /\ cuts = Words(buf).cuts
    OBVIOUS
  <1>3. /\ line' = l /\ argv' = Words(buf).words
        /\ cmd' = [c \in Cells |-> IF c \in cuts THEN NUL ELSE buf[c]]
    BY <1>1, <1>2 DEF TakeLine, Read, CutOut
  <1>4. ASSUME NEW c \in Cells PROVE buf[c] \in Chars
    <2>1. buf[c] = IF c < Len(l) THEN l[c + 1] ELSE IF c = Len(l) THEN NUL ELSE cmd[c]
      BY <1>2 DEF Fgets
    <2>2. l \in Seq(STRING) /\ c \in Nat
      BY ReaderAssumption, CellsAreNumbers
    <2>3. c < Len(l) => l[c + 1] \in Range(l)
      BY <2>2 DEF Range
    <2> QED BY <2>1, <2>3 DEF Chars, TypeOK
  <1>5. cmd' \in [Cells -> Chars]
    <2>1. NUL \in Chars
      BY DEF Chars
    <2> QED BY <1>3, <1>4, <2>1
  (* The cells of the name are not cut off.                                *)
  <1>6. ASSUME << >> \in Range(argv')
        PROVE  \E v \in DOMAIN Env : Env[v] = << >> /\ \E i \in Cells : Names(v, i)'
    <2>1. << >> \in WordsAt(buf)
      BY <1>3, <1>6, WordsCutOut
    <2>2. PICK v \in DOMAIN Env : Env[v] = << >> /\ \E i : NamesIn(buf, v, i)
      BY <2>1, EmptyWord
    <2>3. PICK i : NamesIn(buf, v, i)
      BY <2>2
    <2>4. \A c \in cuts : c = MaxLine \/ buf[c] \in Stops
      BY <1>2, WordsCutOut DEF IsCut
    <2>5. \A c \in Cells : c # MaxLine
      BY ReaderAssumption DEF Cells
    <2>6. cmd'[i] = "$"
      <3>1. i \in Cells /\ buf[i] = "$" /\ "$" \notin Stops
        BY <2>3 DEF NamesIn, Stops, NUL, NL, BLANK
      <3> QED BY <1>3, <2>4, <2>5, <3>1
    <2>7. \A k \in DOMAIN v : cmd'[i + k] = v[k]
      BY <1>3, <2>3, <2>4, <2>5 DEF NamesIn
    <2>8. Names(v, i)'
      BY <2>3, <2>6, <2>7 DEF Names, NamesIn
    <2> QED BY <2>2, <2>3, <2>8 DEF NamesIn
  <1>7. job'.kind \in {"none", "run", "redirect", "exit"} /\ clean' \in BOOLEAN
    <2>1. PICK remains \in Remains :
            /\ job' = Job(argv', remains)
            /\ clean' = (clean /\ (job'.kind = "redirect" => remains = << >>))
      BY DEF TakeLine, Read
    <2>2. job'.kind \in {"none", "run", "redirect", "exit"}
      BY <2>1 DEF Job
    <2>3. clean' \in BOOLEAN
      BY <2>1
    <2> QED BY <2>2, <2>3
  <1>8. (<< >> \in Range(argv) =>
           \E v \in DOMAIN Env : Env[v] = << >> /\ \E i \in Cells : Names(v, i))'
    BY <1>6
  <1>9. line' \in Lines \cup {<< >>}
    BY <1>1, <1>3
  <1> QED BY <1>5, <1>7, <1>8, <1>9 DEF TypeOK

(* The buffer holds characters of the input and terminators, what is read  *)
(* is one of its lines, and a word that is found is empty only where the   *)
(* line names an empty variable (3600sh.c:66-107).                         *)
THEOREM ReaderTypes == OneMissing /\ Session => []TypeOK
  <1>1. SessionInit => TypeOK
    BY DEF SessionInit, Init, TypeOK, Chars, Range
  <1>2. ASSUME ReadingInv, TypeOK, [SessionNext]_sessionVars PROVE TypeOK'
    <2>1. CASE TakeLine
      BY <1>2, <2>1, TakeLineTypes
    <2>2. CASE UNCHANGED readerVars
      BY <1>2, <2>2 DEF TypeOK, Names, readerVars
    <2> QED BY <1>2, <2>1, <2>2, SessionSteps
  <1> QED BY <1>1, <1>2, AlwaysReading, PTL DEF Session

-----------------------------------------------------------------------------
(* The job of words with a redirection at most in front of the last one.   *)
TidyWords(words) ==
  /\ words \in Seq(Seq(STRING))
  /\ \A n \in DOMAIN words : words[n] = Redirect => n = Len(words) - 1

OutputFile(words) == IF IsRedirect(words) THEN FileOf(Last(words)) ELSE "none"

(* What main() makes of such words, when the block of memory is clean: the *)
(* command they are.                                                       *)
IsJobOf(j, words) ==
  IF Leaves(words) THEN Task(j) = [kind |-> "exit", file |-> "none"]
  ELSE /\ Task(j) = [kind |-> Kind(words), file |-> OutputFile(words)]
       /\ j.args = Command(words).args

LEMMA OneWordFlat ==
  ASSUME NEW w \in Seq(STRING)
  PROVE  FlattenSeq(<<w>>) = w
  <1>1. PICK s : s = <<w>>
    OBVIOUS
  <1>2. s \in Seq(Seq(STRING)) /\ Len(s) = 1 /\ s[1] = w
    BY <1>1
  <1>3. /\ FlattenSeq(SubSeq(s, 1, 1)) = FlattenSeq(s)
        /\ FlattenSeq(SubSeq(s, 1, 0)) = << >>
        /\ FlattenSeq(SubSeq(s, 1, 1)) = FlattenSeq(SubSeq(s, 1, 0)) \o s[1]
    <2>1. PICK n : n = Len(s)
      OBVIOUS
    <2>2. /\ FlattenSeq(SubSeq(s, 1, n)) = FlattenSeq(s)
          /\ FlattenSeq(SubSeq(s, 1, 0)) = << >>
          /\ \A k \in 1..n :
               FlattenSeq(SubSeq(s, 1, k)) = FlattenSeq(SubSeq(s, 1, k - 1)) \o s[k]
      BY <1>2, <2>1, FlattenUnfold
    <2>3. n = 1 /\ 1 \in 1..n /\ 1 - 1 = 0
      BY <1>2, <2>1
    <2> QED BY <2>2, <2>3
  <1>4. FlattenSeq(s) = << >> \o w
    BY <1>2, <1>3
  <1> QED BY <1>1, <1>4

LEMMA JobOfTidy ==
  ASSUME NEW words, TidyWords(words)
  PROVE  IsJobOf(Job(words, << >>), words)
  <1>1. PICK n \in Nat : n = Len(words) /\ DOMAIN words = 1..n /\ words \in Seq(Seq(STRING))
    BY LenProperties DEF TidyWords
  <1>2. CASE Leaves(words)
    <2>1. Job(words, << >>) = [kind |-> "exit"]
      BY <1>2 DEF Job, Leaves
    <2> QED BY <1>2, <2>1 DEF IsJobOf, Task
  <1>3. CASE ~ Leaves(words) /\ ~ IsRedirect(words)
    <2>1. ~ (Len(words) > 2 /\ Redirect \in Range(words))
      BY <1>1, <1>3 DEF IsRedirect, TidyWords, Range
    <2>2. Job(words, << >>) = [kind |-> "run", args |-> words]
      BY <1>3, <2>1 DEF Job, Leaves
    <2> QED BY <1>3, <2>2 DEF IsJobOf, Task, OutputFile, Command
  <1>4. CASE ~ Leaves(words) /\ IsRedirect(words)
    <2>1. n > 2 /\ n - 1 \in 1..n /\ words[n - 1] = Redirect
      BY <1>1, <1>4 DEF IsRedirect
    <2>2. RedirectAt(words) = n - 2
      <3>1. \A i \in 1..n : words[i] = Redirect => i = n - 1
        BY <1>1 DEF TidyWords
      <3>2. \A j \in 1..(n - 1 - 1) : words[j] # Redirect
        BY <1>1, <3>1
      <3> DEFINE IsFirst(i) == words[i] = Redirect /\ \A j \in 1..(i - 1) : words[j] # Redirect
      <3>3. PICK first : first = CHOOSE i \in DOMAIN words : IsFirst(i)
        OBVIOUS
      <3>4. n - 1 \in DOMAIN words /\ IsFirst(n - 1)
        BY <1>1, <2>1, <3>2
      <3>5. first \in DOMAIN words /\ IsFirst(first)
        <4> HIDE DEF IsFirst
        <4> QED BY <3>3, <3>4
      <3>6. first = n - 1
        BY <1>1, <3>1, <3>5
      <3>7. RedirectAt(words) = first - 1
        BY <3>3 DEF RedirectAt
      <3> QED BY <3>6, <3>7
    <2>3. PICK z \in Int : z = n - 2
      OBVIOUS
    <2>4. \A i \in 1..z : words[i] \in Seq(STRING)
      BY <1>1, <2>3
    <2>5. PICK args : args = SubSeq(words, 1, z)
      OBVIOUS
    <2>6. /\ args \in Seq(Seq(STRING)) /\ Len(args) = z
          /\ \A i \in 1..z : args[i] = words[i]
      <3>1. /\ SubSeq(words, 1, z) \in Seq(Seq(STRING))
            /\ Len(SubSeq(words, 1, z)) = IF 1 \leq z THEN z - 1 + 1 ELSE 0
            /\ \A i \in 1..(z - 1 + 1) : SubSeq(words, 1, z)[i] = words[1 + i - 1]
        BY <2>4, SubSeqProperties
      <3> QED BY <2>1, <2>3, <2>5, <3>1
    <2>7. ShiftedArgs(words) = args
      <3>1. ShiftedArgs(words) = [i \in 1..z |-> words[i]]
        BY <1>1, <2>1, <2>2, <2>3 DEF ShiftedArgs, Shifts
      <3>2. [i \in 1..z |-> words[i]] \in Seq(Seq(STRING)) /\ Len([i \in 1..z |-> words[i]]) = z
        BY <2>1, <2>3, <2>4
      <3> QED BY <2>6, <3>1, <3>2, SeqEqual
    <2>8. FileName(words, << >>) = Last(words)
      <3>1. words[n] \in Seq(STRING) /\ Last(words) = words[n]
        BY <1>1, <2>1 DEF Last
      <3>2. SubSeq(words, n, n) = <<words[n]>>
        <4>1. \A i \in n..n : words[i] \in Seq(STRING)
          BY <3>1
        <4>2. PICK last : last = SubSeq(words, n, n)
          OBVIOUS
        <4>3. last \in Seq(Seq(STRING)) /\ Len(last) = n - n + 1 /\ \A i \in 1..(n - n + 1) : last[i] = words[n + i - 1]
          BY <4>1, <4>2, SubSeqProperties
        <4>4. last \in Seq(Seq(STRING)) /\ Len(last) = 1 /\ last[1] = words[n]
          BY <4>3
        <4>5. PICK one : one = <<words[n]>>
          OBVIOUS
        <4>6. one \in Seq(Seq(STRING)) /\ Len(one) = 1 /\ one[1] = words[n]
          BY <3>1, <4>5
        <4>7. \A i \in 1..1 : last[i] = one[i]
          BY <4>4, <4>6
        <4> QED BY <4>2, <4>4, <4>5, <4>6, <4>7, SeqEqual
      <3>3. FileName(words, << >>) = << >> \o FlattenSeq(SubSeq(words, n, n))
        <4>1. RedirectAt(words) + 2 = n
          BY <2>2
        <4> QED BY <1>1, <4>1 DEF FileName
      <3>4. PICK w \in Seq(STRING) : w = words[n]
        BY <3>1
      <3>5. FileName(words, << >>) = << >> \o w
        BY <3>2, <3>3, <3>4, OneWordFlat
      <3> QED BY <3>1, <3>4, <3>5
    <2>9. Job(words, << >>) = [kind |-> "redirect", args |-> args, file |-> Last(words)]
      <3>1. Len(words) > 2 /\ Redirect \in Range(words)
        BY <1>1, <2>1 DEF Range
      <3>2. ~ (words # << >> /\ words[1] = <<"exit">>)
        BY <1>4 DEF Leaves
      <3> QED BY <2>7, <2>8, <3>1, <3>2 DEF Job
    <2>10. Command(words).args = args
      BY <1>1, <1>4, <2>3, <2>5 DEF Command
    <2>11. Kind(args) = Kind(words)
      <3>1. args # << >> /\ words # << >> /\ args[1] = words[1]
        BY <1>1, <2>1, <2>3, <2>6
      <3> QED BY <3>1 DEF Kind
    <2> QED BY <1>4, <2>9, <2>10, <2>11 DEF IsJobOf, Task, OutputFile
  <1> QED BY <1>2, <1>3, <1>4

-----------------------------------------------------------------------------
(* The lines of the text and their offsets, and what the script says.      *)
LEMMA OfTheText ==
  ASSUME TheText
  PROVE  /\ DOMAIN text \in SUBSET Nat
         /\ DOMAIN script = {Offset(text, k) : k \in DOMAIN text}
         /\ \A k \in DOMAIN text :
              /\ text[k] \in Lines
              /\ Offset(text, k) \in Nat
              /\ LineFrom(Offset(text, k)) = text[k]
              /\ script[Offset(text, k)].kind = Alone(text[k]).kind
              /\ script[Offset(text, k)].file = Alone(text[k]).file
              /\ script[Offset(text, k)].len = Len(text[k])
         /\ \A j, k \in DOMAIN text : j < k =>
              /\ Offset(text, j) < Offset(text, k)
              /\ Offset(text, j) + Len(text[j]) \leq Offset(text, k)
              /\ Offset(text, j) + Len(text[j]) \in DOMAIN script
  <1>1. text \in Seq(Lines) /\ Len(text) \in Nat \ {0} /\ script = ScriptOf(text)
    BY TextShape DEF TheText
  <1>2. PICK n \in Nat \ {0} : n = Len(text)
    BY <1>1
  <1>3. /\ DOMAIN script = {Offset(text, k) : k \in 1..n}
        /\ \A k \in 1..n :
             script[Offset(text, k)] =
               [kind |-> Alone(text[k]).kind, file |-> Alone(text[k]).file, len |-> Len(text[k])]
        /\ \A k \in 1..n : Run!NextLine(Offset(text, k)) = Offset(text, k + 1)
    BY <1>1, <1>2, ScriptOfText
  <1>4. /\ \A k \in 1..(n + 1) : Offset(text, k) \in Nat
        /\ \A k \in 1..n : Offset(text, k + 1) = Offset(text, k) + Len(text[k])
        /\ \A j, k \in 1..(n + 1) : j < k => Offset(text, j) < Offset(text, k)
        /\ \A k \in 1..n : SubSeq(Bytes, Offset(text, k) + 1, Offset(text, k + 1)) = text[k]
    BY <1>1, <1>2, LinesOfText DEF Bytes
  <1>5. DOMAIN text = 1..n
    BY <1>1, <1>2
  <1>6. \A k \in 1..n : k \in 1..(n + 1) /\ k + 1 \in 1..(n + 1)
    OBVIOUS
  <1>7. ASSUME NEW k \in 1..n
        PROVE  /\ script[Offset(text, k)].kind = Alone(text[k]).kind
               /\ script[Offset(text, k)].file = Alone(text[k]).file
               /\ script[Offset(text, k)].len = Len(text[k])
    <2>1. PICK kind, file, len :
            kind = Alone(text[k]).kind /\ file = Alone(text[k]).file /\ len = Len(text[k])
      OBVIOUS
    <2>2. PICK r : r = script[Offset(text, k)]
      OBVIOUS
    <2>3. r = [kind |-> kind, file |-> file, len |-> len]
      BY <1>3, <2>1, <2>2
    <2> QED BY <2>1, <2>2, <2>3
  <1>8. ASSUME NEW k \in 1..n
        PROVE  text[k] \in Lines /\ Offset(text, k) \in Nat /\ LineFrom(Offset(text, k)) = text[k]
    <2>1. text[k] \in Lines
      BY <1>1, <1>2
    <2>2. LineFrom(Offset(text, k)) = text[k]
      BY <1>3, <1>4 DEF LineFrom
    <2> QED BY <1>4, <1>6, <2>1, <2>2
  <1>9. ASSUME NEW j \in 1..n, NEW k \in 1..n, j < k
        PROVE  /\ Offset(text, j) < Offset(text, k)
               /\ Offset(text, j) + Len(text[j]) \leq Offset(text, k)
               /\ Offset(text, j) + Len(text[j]) \in DOMAIN script
    <2>1. j + 1 \in 1..n /\ (j + 1 = k \/ j + 1 < k)
      BY <1>9
    <2>2. Offset(text, j + 1) = Offset(text, j) + Len(text[j])
      BY <1>4
    <2>3. Offset(text, j + 1) \in DOMAIN script
      BY <1>3, <2>1
    <2>4. Offset(text, j + 1) \in Nat /\ Offset(text, k) \in Nat
      BY <1>4, <1>6, <2>1
    <2>5. Offset(text, j + 1) \leq Offset(text, k)
      <3>1. CASE j + 1 = k
        BY <2>4, <3>1
      <3>2. CASE j + 1 < k
        BY <1>4, <1>6, <2>1, <2>4, <3>2
      <3> QED BY <2>1, <3>1, <3>2
    <2> QED BY <1>4, <1>6, <1>9, <2>2, <2>3, <2>5
  <1> QED BY <1>3, <1>5, <1>7, <1>8, <1>9

RunProofs == INSTANCE ShellProofs WITH job <- Task(job), Inputs <- {}

(* The script of a text is one, and the shell's invariant holds at first.  *)
LEMMA TextIsScript == TheText => RunProofs!IsScript(script)
  <1> SUFFICES ASSUME TheText PROVE RunProofs!IsScript(script)
    OBVIOUS
  <1>1. /\ Run!Size \in Nat \ {0} /\ 0 \in DOMAIN script /\ DOMAIN script \subseteq Nat
        /\ \A p \in DOMAIN script : p < Run!Size
    BY BoundariesAre DEF TheText
  <1>2. IsFiniteSet(DOMAIN script)
    <2>1. PICK size \in Nat : size = Run!Size
      BY <1>1
    <2>2. IsFiniteSet(0..size) /\ DOMAIN script \in SUBSET (0..size)
      BY <1>1, <2>1, FS_Interval
    <2> QED BY <2>2, FS_Subset
  <1>3. \A k \in DOMAIN text : Len(text[k]) \in Nat \ {0}
    BY OfTheText, ReaderAssumption
  <1>4. \A j : Task(j).kind \in {"run", "missing", "blank", "exit"}
    BY DEF Task, Kind
  <1>5. ASSUME NEW p \in DOMAIN script
        PROVE  script[p].kind \in RunProofs!Kinds /\ script[p].len \in Nat \ {0}
    <2>1. PICK k \in DOMAIN text : p = Offset(text, k)
      BY OfTheText
    <2>2. script[p].kind = Alone(text[k]).kind /\ script[p].len = Len(text[k])
      BY <2>1, OfTheText
    <2>3. Alone(text[k]).kind \in {"run", "missing", "blank", "exit"}
      BY <1>4 DEF Alone
    <2> QED BY <1>3, <2>2, <2>3 DEF RunProofs!Kinds
  <1>6. ASSUME NEW p \in DOMAIN script, NEW q \in DOMAIN script, q > p
        PROVE  q \geq p + script[p].len /\ p + script[p].len \in DOMAIN script
    <2>1. PICK j \in DOMAIN text : p = Offset(text, j)
      BY OfTheText
    <2>2. PICK k \in DOMAIN text : q = Offset(text, k)
      BY OfTheText
    <2>3. script[p].len = Len(text[j])
      BY <2>1, OfTheText
    <2>4. j < k
      <3>1. j \in Nat /\ k \in Nat /\ p \in Nat /\ q \in Nat
        BY <2>1, <2>2, OfTheText
      <3>2. k < j => q < p
        BY <2>1, <2>2, OfTheText
      <3> QED BY <1>6, <2>1, <2>2, <3>1, <3>2
    <2>5. p + Len(text[j]) \leq q /\ p + Len(text[j]) \in DOMAIN script
      BY <2>1, <2>2, <2>4, OfTheText
    <2> QED BY <1>1, <1>3, <2>3, <2>5
  <1>7. RunProofs!IsFiniteSet(DOMAIN script)
    BY <1>2 DEF IsFiniteSet, RunProofs!IsFiniteSet
  <1> QED BY <1>1, <1>5, <1>6, <1>7 DEF RunProofs!IsScript

(* ShellProofs' names for what Run is.                                     *)
LEMMA SameNames ==
  /\ Run!Size = RunProofs!Size
  /\ Run!ReadsAt = RunProofs!ReadsAt
  /\ Run!Torn = RunProofs!Torn
  /\ Run!LineEnd = RunProofs!LineEnd
  /\ Run!OffsetIsSafe = RunProofs!OffsetIsSafe
  /\ Run!JobAt(Run!ReadsAt) = RunProofs!JobAt(RunProofs!ReadsAt)
  /\ Run!vars = RunProofs!vars
  BY DEF Run!Size, RunProofs!Size, Run!Ends, RunProofs!Ends, Run!ReadsAt, RunProofs!ReadsAt,
     Run!Unread, RunProofs!Unread, Run!OffsetIsSafe, RunProofs!OffsetIsSafe,
     Run!Missing, RunProofs!Missing, Run!Torn, RunProofs!Torn, Run!LineEnd, RunProofs!LineEnd,
     Run!AfterLine, RunProofs!AfterLine,
     Run!JobAt, RunProofs!JobAt, Run!LineAt, RunProofs!LineAt, Run!NextLine, RunProofs!NextLine,
     Run!NoFile, RunProofs!NoFile, Run!vars, RunProofs!vars, Run!inputVars, RunProofs!inputVars,
     Run!shellVars, RunProofs!shellVars, Run!bufferVars, RunProofs!bufferVars,
     Run!outputVars, RunProofs!outputVars, Run!history, RunProofs!history

LEMMA SameTake == ASSUME NEW j PROVE Run!Take(j) => RunProofs!Take(j)
  BY SameNames
     DEF Run!Take, RunProofs!Take, Run!Unread, RunProofs!Unread,
     Run!Begin, RunProofs!Begin, Run!NoFile, RunProofs!NoFile, Run!SaveStdout, RunProofs!SaveStdout,
     Run!Reopened, RunProofs!Reopened, Run!inputVars, RunProofs!inputVars,
     Run!history, RunProofs!history

LEMMA SameForkFails == Run!ForkFails => RunProofs!ForkFails
  <1>1. Run!Cardinality(unforked) = RunProofs!Cardinality(unforked)
    BY DEF Run!Cardinality, RunProofs!Cardinality
  <1> QED BY <1>1 DEF Run!ForkFails, RunProofs!ForkFails, Run!inputVars, RunProofs!inputVars,
     Run!bufferVars, RunProofs!bufferVars, Run!outputVars, RunProofs!outputVars,
     Run!history, RunProofs!history

(* What Shell may do besides taking a line.                                *)
LEMMA SameSteps ==
  ASSUME Exec \/ RunStep
  PROVE  RunProofs!Next
  <1> USE DEF Run!inputVars, RunProofs!inputVars, Run!shellVars, RunProofs!shellVars,
              Run!bufferVars, RunProofs!bufferVars, Run!outputVars, RunProofs!outputVars,
              Run!history, RunProofs!history
  <1>1. CASE Exec
    <2>1. RunProofs!Exec
      BY <1>1 DEF Exec, Run!Exec, RunProofs!Exec
    <2> QED BY <2>1 DEF RunProofs!Next, RunProofs!ChildStep
  <1>2. CASE RunStep
    <2>1. Run!ReadEof => RunProofs!ReadEof
      BY SameNames DEF Run!ReadEof, RunProofs!ReadEof, Run!Unread, RunProofs!Unread
    <2>2. Run!Fork => RunProofs!Fork
      BY DEF Run!Fork, RunProofs!Fork
    <2>3. Run!Wait => RunProofs!Wait
      BY DEF Run!Wait, RunProofs!Wait, Run!Reapable, RunProofs!Reapable,
         Run!AfterWait, RunProofs!AfterWait, Run!NoFile, RunProofs!NoFile,
         Run!Restored, RunProofs!Restored
    <2>4. Run!ExecFails => RunProofs!ExecFails
      BY SameNames DEF Run!ExecFails, RunProofs!ExecFails, Run!GivesBack, RunProofs!GivesBack,
         Run!Unread, RunProofs!Unread
    <2>5. Run!ExecBlank => RunProofs!ExecBlank
      BY DEF Run!ExecBlank, RunProofs!ExecBlank
    <2>6. Run!Finish => RunProofs!Finish
      BY DEF Run!Finish, RunProofs!Finish
    <2>7. Run!Interrupt => RunProofs!Interrupt
      BY DEF Run!Interrupt, RunProofs!Interrupt
    <2>8. Run!Exited => RunProofs!Exited
      BY DEF Run!Exited, RunProofs!Exited, Run!vars, RunProofs!vars
    <2> QED BY <1>2, <2>1, <2>2, <2>3, <2>4, <2>5, <2>6, <2>7, <2>8, SameForkFails
            DEF RunStep, RunProofs!Next, RunProofs!ShellStep, RunProofs!ChildStep
  <1> QED BY <1>1, <1>2

-----------------------------------------------------------------------------
(* A line of a tidy text, in terms of its runs of characters.              *)
RunsOf(k) == PlainRuns(text[k])

JobOf(k) == Job(RunsOf(k), << >>)

LEMMA TidyLine ==
  ASSUME TheText, Tidy, NEW k \in DOMAIN text
  PROVE  /\ \A buf : Words(Fgets(buf, text[k])).words = RunsOf(k)
         /\ TidyWords(RunsOf(k))
         /\ OutputFile(RunsOf(k)) \in Openable \cup {"none"}
         /\ script[Offset(text, k)].kind = IF Leaves(RunsOf(k)) THEN "exit" ELSE Kind(RunsOf(k))
         /\ script[Offset(text, k)].file = IF Leaves(RunsOf(k)) THEN "none" ELSE OutputFile(RunsOf(k))
  <1>1. PICK l : l = text[k]
    OBVIOUS
  <1>2. l \in Seq(STRING) /\ Len(l) \in Nat \ {0} /\ Len(l) < MaxLine
    BY <1>1, OfTheText, ReaderAssumption
  <1>3. PlainEnded(l)
    BY <1>1 DEF Tidy, Plain, PlainEnded
  <1>4. PICK words : words = RunsOf(k)
    OBVIOUS
  <1>5. /\ \A buf : Words(Fgets(buf, l)).words = words
        /\ words \in Seq(Seq(STRING))
    BY <1>1, <1>2, <1>3, <1>4, PlainLineRuns DEF RunsOf
  <1>6. \A n \in DOMAIN words :
          words[n] = Redirect => n = Len(words) - 1 /\ FileOf(Last(words)) \in Openable
    BY <1>4 DEF Tidy, RunsOf
  <1>7. TidyWords(words)
    BY <1>5, <1>6 DEF TidyWords
  <1>8. OutputFile(words) \in Openable \cup {"none"}
    <2>1. IsRedirect(words) => Len(words) - 1 \in DOMAIN words
      BY <1>5 DEF IsRedirect
    <2> QED BY <1>6, <2>1 DEF OutputFile, IsRedirect
  <1>9. IsJobOf(Job(words, << >>), words)
    BY <1>7, JobOfTidy
  <1>10. Alone(l) = Task(Job(words, << >>))
    BY <1>5 DEF Alone
  <1>11. /\ Alone(l).kind = IF Leaves(words) THEN "exit" ELSE Kind(words)
         /\ Alone(l).file = IF Leaves(words) THEN "none" ELSE OutputFile(words)
    BY <1>9, <1>10 DEF IsJobOf
  <1> QED BY <1>1, <1>4, <1>5, <1>7, <1>8, <1>11, OfTheText

-----------------------------------------------------------------------------
(* The job in hand is that of a line, and so is all that has been started. *)
InHand == \E k \in DOMAIN text : cur = Offset(text, k) /\ job = JobOf(k)

IsStarted(program, run) ==
  \E k \in DOMAIN text :
    /\ run.at = Offset(text, k)
    /\ program = [args |-> JobOf(k).args, out |-> run.out]

Startable == [args : {JobOf(k).args : k \in DOMAIN text}, out : Openable \cup {"out", "closed"}]

StartedInv ==
  /\ started \in Seq(Startable)
  /\ Len(started) = Len(ran)
  /\ \A i \in 1..Len(ran) : IsStarted(started[i], ran[i])

TidyInv ==
  /\ TheText
  /\ Tidy /\ Run!OffsetIsSafe /\ ~ taken /\ clean =>
       /\ RunProofs!Inv
       /\ pc \in {"fork", "wait"} => InHand
       /\ StartedInv

LEMMA TidyInit == SessionInit => TidyInv
  <1> SUFFICES ASSUME SessionInit PROVE TidyInv
    OBVIOUS
  <1>1. TheText
    BY ReadingInvInit DEF ReadingInv
  <1>2. RunProofs!IsScript(script)
    BY <1>1, TextIsScript
  <1>3. /\ inOff = 0 /\ rd = 0 /\ bufEnd = 0 /\ pc = "prompt" /\ cur = 0 /\ child = "none"
        /\ out1 = "out" /\ saved = "nothing" /\ ran = << >> /\ unforked = {} /\ started = << >>
    BY DEF SessionInit
  <1>4. RunProofs!Inv
    BY <1>2, <1>3, RunProofs!FreshInv, SessionAssumption DEF RunProofs!NoFile
  <1>5. StartedInv
    BY <1>3 DEF StartedInv
  <1> QED BY <1>1, <1>3, <1>4, <1>5 DEF TidyInv

(* The line taken is the one that stands where reading goes on.            *)
LEMMA TakesALine ==
  ASSUME TheText, Tidy, Run!OffsetIsSafe, ~ taken, clean', RunProofs!Inv, TakeLine
  PROVE  /\ Task(job') = Run!JobAt(Run!ReadsAt)
         /\ ~ RunProofs!Torn
         /\ \E k \in DOMAIN text : cur' = Offset(text, k) /\ job' = JobOf(k)
  <1>1. PICK p : p = Run!ReadsAt
    OBVIOUS
  <1>2. /\ pc = "prompt" /\ p < Run!Size /\ cur' = p
        /\ job' = Job(Words(Fgets(cmd, LineFrom(p))).words, << >>)
    BY <1>1, TakenJob DEF TakeLine, Run!Take
  <1>3. p \in DOMAIN script /\ ~ RunProofs!Torn
    <2>1. RunProofs!OffsetIsSafe /\ RunProofs!ReadsAt = p /\ RunProofs!ReadsAt < RunProofs!Size
      BY <1>1, <1>2, SameNames
    <2>2. RunProofs!TypeInv /\ RunProofs!ReadInv
      BY <2>1 DEF RunProofs!Inv, RunProofs!ExactInv
    <2>3. RunProofs!ReadsAt = rd /\ rd \in DOMAIN script /\ ~ RunProofs!Torn
      BY <2>1, <2>2, RunProofs!ReadsNext, SessionAssumption DEF RunProofs!NoFile
    <2> QED BY <2>1, <2>3
  <1>4. PICK k \in DOMAIN text : p = Offset(text, k)
    BY <1>3, OfTheText
  <1>5. LineFrom(p) = text[k]
    BY <1>4, OfTheText
  <1>6. PICK words : words = RunsOf(k)
    OBVIOUS
  <1>7. job' = Job(words, << >>)
    BY <1>2, <1>5, <1>6, TidyLine
  <1>8. /\ TidyWords(words)
        /\ script[p].kind = IF Leaves(words) THEN "exit" ELSE Kind(words)
        /\ script[p].file = IF Leaves(words) THEN "none" ELSE OutputFile(words)
    BY <1>4, <1>6, TidyLine
  <1>9. Task(job') = [kind |-> script[p].kind, file |-> script[p].file]
    BY <1>7, <1>8, JobOfTidy DEF IsJobOf
  <1>10. Run!JobAt(p) = [kind |-> script[p].kind, file |-> script[p].file]
    BY <1>3 DEF Run!JobAt, Run!LineAt
  <1> QED BY <1>1, <1>2, <1>3, <1>4, <1>6, <1>7, <1>9, <1>10 DEF JobOf

(* Once a program has read some lines, or a block was not clean, that      *)
(* stays so.                                                               *)
LEMMA HistoryStays ==
  ASSUME [SessionNext]_sessionVars
  PROVE  (taken => taken') /\ (TakesLines => taken') /\ (clean' => clean)
  <1> USE DEF Run!history, readerVars
  <1>1. CASE TakeLine
    <2>1. UNCHANGED taken
      BY <1>1 DEF TakeLine, Run!Take
    <2>2. ~ TakesLines \/ taken'
      BY DEF TakesLines, Run!TakesInput
    <2> QED BY <1>1, <2>1, <2>2, TakenJob
  <1>2. CASE Exec
    BY <1>2 DEF Exec, Run!Exec, TakesLines, Run!TakesInput
  <1>3. CASE RunStep
    BY <1>3 DEF RunStep, Run!ReadEof, Run!Fork, Run!ForkFails, Run!Wait, Run!ExecFails,
                Run!ExecBlank, Run!Finish, Run!Interrupt, Run!Exited, Run!vars,
                TakesLines, Run!TakesInput
  <1>4. CASE TakesLines
    BY <1>4 DEF TakesLines, Run!TakesInput
  <1>5. CASE UNCHANGED sessionVars
    BY <1>5 DEF sessionVars, runVars, TakesLines, Run!TakesInput
  <1> QED BY <1>1, <1>2, <1>3, <1>4, <1>5 DEF SessionNext

LEMMA TidySteps ==
  ASSUME TheText, Tidy, Run!OffsetIsSafe, ~ taken', clean', RunProofs!Inv,
         [SessionNext]_sessionVars
  PROVE  [RunProofs!Next]_(RunProofs!vars)
  <1>0. ~ taken /\ ~ TakesLines
    BY HistoryStays
  <1>1. CASE TakeLine
    <2>1. Run!Take(Run!JobAt(Run!ReadsAt)) /\ ~ RunProofs!Torn
      BY <1>0, <1>1, TakesALine DEF TakeLine
    <2>2. RunProofs!ReadLine
      BY <2>1, SameNames, SameTake DEF RunProofs!ReadLine
    <2> QED BY <2>2 DEF RunProofs!Next, RunProofs!ShellStep
  <1>2. CASE Exec \/ RunStep
    BY <1>2, SameSteps
  <1>3. CASE UNCHANGED sessionVars
    BY <1>3 DEF sessionVars, runVars, readerVars, RunProofs!vars, RunProofs!inputVars,
       RunProofs!shellVars, RunProofs!bufferVars, RunProofs!outputVars, RunProofs!history
  <1> QED BY <1>0, <1>1, <1>2, <1>3 DEF SessionNext

(* Only TakeLine takes a line in hand, and only Exec starts a program.     *)
LEMMA KeepsHand ==
  ASSUME RunStep \/ UNCHANGED sessionVars
  PROVE  /\ UNCHANGED <<job, cur, ran, started>>
         /\ pc' \in {"fork", "wait"} => pc \in {"fork", "wait"}
  <1> USE DEF Run!inputVars, Run!bufferVars, Run!outputVars, Run!shellVars, Run!history, readerVars
  <1>1. CASE RunStep
    BY <1>1 DEF RunStep, Run!ReadEof, Run!Fork, Run!ForkFails, Run!Wait, Run!AfterWait,
       Run!ExecFails, Run!ExecBlank, Run!Finish, Run!Interrupt, Run!Exited, Run!vars
  <1>2. CASE UNCHANGED sessionVars
    BY <1>2 DEF sessionVars, runVars
  <1> QED BY <1>1, <1>2

LEMMA SameText ==
  ASSUME UNCHANGED <<text, script, seekable>>
  PROVE  /\ Tidy' = Tidy /\ TheText' = TheText
         /\ UNCHANGED taken => Run!OffsetIsSafe' = Run!OffsetIsSafe
         /\ InHand' = \E k \in DOMAIN text : cur' = Offset(text, k) /\ job' = JobOf(k)
         /\ Startable' = Startable
         /\ \A program, run : IsStarted(program, run)' = IsStarted(program, run)
  <1>1. Tidy' = Tidy /\ (UNCHANGED taken => Run!OffsetIsSafe' = Run!OffsetIsSafe)
    BY SameSize DEF Tidy, Plain, Run!OffsetIsSafe
  <1>2. TheText' = TheText
    BY SameSize DEF TheText
  <1>3. InHand' = \E k \in DOMAIN text : cur' = Offset(text, k) /\ job' = JobOf(k)
    BY DEF InHand, JobOf, RunsOf
  <1>4. Startable' = Startable
    BY DEF Startable, JobOf, RunsOf
  <1>5. \A program, run : IsStarted(program, run)' = IsStarted(program, run)
    BY DEF IsStarted, JobOf, RunsOf
  <1> QED BY <1>1, <1>2, <1>3, <1>4, <1>5

(* What a program starts with is what the line in hand asks for.           *)
LEMMA ExecStarts ==
  ASSUME InHand, RunProofs!Inv, StartedInv, Exec, UNCHANGED <<text, script, seekable>>
  PROVE  StartedInv'
  <1>1. PICK k \in DOMAIN text : cur = Offset(text, k) /\ job = JobOf(k)
    BY DEF InHand
  <1>2. PICK program : program = [args |-> JobOf(k).args, out |-> out1]
    OBVIOUS
  <1>3. PICK run : run = [at |-> cur, out |-> out1]
    OBVIOUS
  <1>4. started' = Append(started, program) /\ ran' = Append(ran, run)
    BY <1>1, <1>2, <1>3 DEF Exec, Run!Exec
  <1>5. /\ ran \in Seq([at : Nat, out : Openable \cup {"out", "closed"}])
        /\ out1 \in Openable \cup {"out", "closed"} /\ cur \in Nat
    BY DEF RunProofs!Inv, RunProofs!TypeInv
  <1>6. program \in Startable /\ run \in [at : Nat, out : Openable \cup {"out", "closed"}]
    BY <1>2, <1>3, <1>5 DEF Startable
  <1>7. PICK n \in Nat : n = Len(ran) /\ n = Len(started)
    BY <1>5 DEF StartedInv
  <1>8. started \in Seq(Startable)
    BY DEF StartedInv
  <1>9. /\ started' \in Seq(Startable) /\ Len(started') = n + 1
        /\ \A i \in 1..n : started'[i] = started[i]
        /\ started'[n + 1] = program
    BY <1>4, <1>6, <1>7, <1>8, AppendProperties
  <1>10. /\ Len(ran') = n + 1
         /\ \A i \in 1..n : ran'[i] = ran[i]
         /\ ran'[n + 1] = run
    <2>1. PICK Runs : Runs = [at : Nat, out : Openable \cup {"out", "closed"}]
      OBVIOUS
    <2>2. ran \in Seq(Runs) /\ run \in Runs
      BY <1>5, <1>6, <2>1
    <2>3. /\ Len(Append(ran, run)) = Len(ran) + 1
          /\ \A i \in 1..Len(ran) : Append(ran, run)[i] = ran[i]
          /\ Append(ran, run)[Len(ran) + 1] = run
      BY <2>2, AppendProperties
    <2> QED BY <1>4, <1>7, <2>3
  <1>11. ASSUME NEW i \in 1..(n + 1) PROVE IsStarted(started'[i], ran'[i])
    <2>1. CASE i \in 1..n
      BY <1>7, <1>9, <1>10, <2>1 DEF StartedInv
    <2>2. CASE i = n + 1
      <3>1. IsStarted(program, run)
        BY <1>1, <1>2, <1>3 DEF IsStarted
      <3> QED BY <1>9, <1>10, <2>2, <3>1
    <2> QED BY <2>1, <2>2
  <1>12. \A i \in 1..(n + 1) : IsStarted(started[i], ran[i])'
    BY <1>11 DEF IsStarted, JobOf, RunsOf
  <1> QED BY <1>9, <1>10, <1>12, SameText DEF StartedInv

LEMMA TidyNext == TidyInv /\ [SessionNext]_sessionVars => TidyInv'
  <1> SUFFICES ASSUME TidyInv, [SessionNext]_sessionVars PROVE TidyInv'
    OBVIOUS
  <1>1. UNCHANGED <<text, script, seekable>>
    BY SessionSteps
  <1>2. TheText'
    BY <1>1, SameText DEF TidyInv
  <1>3. ASSUME Tidy', Run!OffsetIsSafe', ~ taken', clean'
        PROVE  RunProofs!Inv' /\ (pc' \in {"fork", "wait"} => InHand') /\ StartedInv'
    <2>0. Tidy /\ Run!OffsetIsSafe /\ ~ taken /\ clean /\ ~ TakesLines
      <3>1. ~ taken /\ clean /\ ~ TakesLines
        BY <1>3, HistoryStays
      <3>2. Run!Missing' = Run!Missing
        BY <1>1, SameSize
      <3>3. Run!OffsetIsSafe
        BY <1>1, <1>3, <3>1, <3>2 DEF Run!OffsetIsSafe
      <3> QED BY <1>1, <1>3, <3>1, <3>3, SameText
    <2>1. TheText /\ RunProofs!Inv /\ (pc \in {"fork", "wait"} => InHand) /\ StartedInv
      BY <2>0 DEF TidyInv
    <2>2. RunProofs!Inv'
      <3>1. [RunProofs!Next]_(RunProofs!vars)
        BY <1>3, <2>0, <2>1, TidySteps
      <3> QED BY <2>1, <3>1, RunProofs!NextInv, SessionAssumption DEF RunProofs!NoFile
    <2>3. CASE TakeLine
      <3>1. InHand'
        BY <1>1, <1>3, <2>0, <2>1, <2>3, TakesALine, SameText
      <3>2. UNCHANGED <<ran, started>>
        BY <2>3 DEF TakeLine, Run!Take, Run!history
      <3>3. StartedInv'
        BY <1>1, <2>1, <3>2, SameText DEF StartedInv, IsStarted, JobOf, RunsOf
      <3> QED BY <2>2, <3>1, <3>3
    <2>4. CASE Exec
      <3>1. pc = "wait" /\ UNCHANGED <<job, cur, pc>>
        BY <2>1, <2>4 DEF Exec, Run!Exec, Run!shellVars, readerVars, RunProofs!Inv, RunProofs!ChildInv
      <3>2. InHand /\ InHand'
        BY <1>1, <2>1, <3>1, SameText DEF InHand
      <3> QED BY <1>1, <2>1, <2>2, <2>4, <3>2, ExecStarts
    <2>5. CASE RunStep \/ UNCHANGED sessionVars
      <3>1. /\ UNCHANGED <<job, cur, ran, started>>
            /\ pc' \in {"fork", "wait"} => pc \in {"fork", "wait"}
        BY <2>5, KeepsHand
      <3>2. StartedInv'
        BY <1>1, <2>1, <3>1, SameText DEF StartedInv, IsStarted, JobOf, RunsOf
      <3>3. pc' \in {"fork", "wait"} => InHand'
        BY <1>1, <2>1, <3>1, SameText DEF InHand
      <3> QED BY <2>2, <3>2, <3>3
    <2> QED BY <2>0, <2>3, <2>4, <2>5 DEF SessionNext
  <1> QED BY <1>2, <1>3 DEF TidyInv

-----------------------------------------------------------------------------
(* When the shell is gone, what has been started is what the text asks  *)
(* for.                                                                    *)
LEMMA WantedLines ==
  ASSUME TheText, Tidy, NEW k \in DOMAIN text
  PROVE  Offset(text, k) \in RunProofs!Wanted <=> k \in CommandLines
  <1>1. DOMAIN text \in SUBSET Nat /\ DOMAIN script = {Offset(text, j) : j \in DOMAIN text}
    BY OfTheText
  <1>2. \A j \in DOMAIN text :
          script[Offset(text, j)].kind = IF Leaves(RunsOf(j)) THEN "exit" ELSE Kind(RunsOf(j))
    BY TidyLine
  <1>3. \A j \in DOMAIN text : Kind(RunsOf(j)) # "exit"
    BY DEF Kind
  <1>4. \A j \in DOMAIN text : Offset(text, j) > Offset(text, k) <=> j > k
    <2> TAKE j \in DOMAIN text
    <2>1. Offset(text, j) \in Nat /\ Offset(text, k) \in Nat
      BY OfTheText
    <2>2. j < k => Offset(text, j) < Offset(text, k)
      BY OfTheText
    <2>3. k < j => Offset(text, k) < Offset(text, j)
      BY OfTheText
    <2> QED BY <1>1, <2>1, <2>2, <2>3
  <1>5. Offset(text, k) \in RunProofs!Wanted <=>
          /\ ~ Leaves(RunsOf(k)) /\ Kind(RunsOf(k)) = "run"
          /\ \A j \in DOMAIN text : Leaves(RunsOf(j)) => j > k
    <2>1. Offset(text, k) \in RunProofs!Wanted <=>
            /\ script[Offset(text, k)].kind = "run"
            /\ \A j \in DOMAIN text :
                 script[Offset(text, j)].kind = "exit" => Offset(text, j) > Offset(text, k)
      BY <1>1 DEF RunProofs!Wanted
    <2> QED BY <1>2, <1>3, <1>4, <2>1
  <1>6. k \in CommandLines <=>
          /\ Kind(RunsOf(k)) = "run"
          /\ \A j \in 1..k : ~ Leaves(RunsOf(j))
    BY DEF CommandLines, RunsOf
  <1>7. DOMAIN text = 1..Len(text) /\ Len(text) \in Nat
    BY TextShape DEF TheText
  <1>8. (\A j \in DOMAIN text : Leaves(RunsOf(j)) => j > k) <=> (\A j \in 1..k : ~ Leaves(RunsOf(j)))
    BY <1>7
  <1>9. k \in 1..k
    BY <1>7
  <1> QED BY <1>5, <1>6, <1>8, <1>9

LEMMA RunsInTextOrder ==
  ASSUME TheText, Tidy, NEW m \in Nat, m = Len(ran), NEW at \in [1..m -> DOMAIN text],
         DOMAIN ran = 1..m, \A i \in 1..m : ran[i].at = Offset(text, at[i]),
         {ran[i].at : i \in DOMAIN ran} = RunProofs!Wanted,
         \A i, j \in DOMAIN ran : i < j => ran[i].at < ran[j].at
  PROVE  InOrder(CommandLines, m, at)
  <1>1. /\ DOMAIN text \in SUBSET Nat
        /\ \A j \in DOMAIN text : Offset(text, j) \in Nat
        /\ \A j, k \in DOMAIN text : j < k => Offset(text, j) < Offset(text, k)
    BY OfTheText
  <1>2. at \in [1..m -> CommandLines]
    BY WantedLines
  <1>3. ASSUME NEW k \in CommandLines PROVE \E i \in 1..m : at[i] = k
    <2>1. k \in DOMAIN text
      BY DEF CommandLines
    <2>2. Offset(text, k) \in RunProofs!Wanted
      BY <2>1, WantedLines
    <2>3. PICK i \in 1..m : ran[i].at = Offset(text, k)
      BY <2>2
    <2>4. at[i] \in DOMAIN text /\ Offset(text, at[i]) = Offset(text, k)
      BY <2>3
    <2> QED BY <1>1, <2>1, <2>4
  <1>4. ASSUME NEW i \in 1..m, NEW j \in 1..m, i < j PROVE at[i] < at[j]
    <2>1. Offset(text, at[i]) < Offset(text, at[j])
      BY <1>4
    <2>2. at[i] \in DOMAIN text /\ at[j] \in DOMAIN text
      OBVIOUS
    <2> QED BY <1>1, <2>1, <2>2
  <1> QED BY <1>2, <1>3, <1>4 DEF InOrder

LEMMA TidyExit == TidyInv => RunsTheText
  <1> SUFFICES ASSUME TidyInv, Tidy, Run!OffsetIsSafe, ~ taken, clean, unforked = {}, pc = "exited"
               PROVE  started = Commands
    BY DEF RunsTheText
  <1>1. TheText /\ RunProofs!Inv /\ StartedInv
    BY DEF TidyInv
  <1>2. PICK m \in Nat : m = Len(ran) /\ m = Len(started) /\ DOMAIN ran = 1..m
    BY <1>1 DEF RunProofs!Inv, RunProofs!TypeInv, StartedInv
  <1>3. \A i \in 1..m : IsStarted(started[i], ran[i])
    BY <1>1, <1>2 DEF StartedInv
  <1>4. PICK at : at = [i \in 1..m |-> CHOOSE k \in DOMAIN text :
                          /\ ran[i].at = Offset(text, k)
                          /\ started[i] = [args |-> JobOf(k).args, out |-> ran[i].out]]
    OBVIOUS
  <1>5. ASSUME NEW i \in 1..m
        PROVE  /\ at[i] \in DOMAIN text /\ ran[i].at = Offset(text, at[i])
               /\ started[i] = [args |-> JobOf(at[i]).args, out |-> ran[i].out]
    BY <1>3, <1>4 DEF IsStarted
  <1>6. at \in [1..m -> DOMAIN text]
    <2>1. \A i \in 1..m : at[i] \in DOMAIN text
      BY <1>5
    <2> QED BY <1>4, <2>1
  <1>7. /\ {ran[i].at : i \in DOMAIN ran} = RunProofs!Wanted
        /\ \A i, j \in DOMAIN ran : i < j => ran[i].at < ran[j].at
    <2>1. RunProofs!RunsExactlyTheScript
      BY <1>1, RunProofs!ExactOnExit, SessionAssumption DEF RunProofs!NoFile
    <2>2. RunProofs!EachLineOnce
      BY <1>1, SameNames DEF RunProofs!Inv, RunProofs!SafeInv, RunProofs!OrderInv
    <2>3. RunProofs!OffsetIsSafe
      BY SameNames
    <2> QED BY <2>1, <2>2, <2>3 DEF RunProofs!RunsExactlyTheScript, RunProofs!EachLineOnce
  <1>8. InOrder(CommandLines, m, at)
    BY <1>1, <1>2, <1>5, <1>6, <1>7, RunsInTextOrder
  <1>9. Cardinality(CommandLines) = m /\ \A n \in 1..m : Nth(CommandLines, n) = at[n]
    <2>1. CommandLines \in SUBSET Nat
      BY <1>1, OfTheText DEF CommandLines
    <2> QED BY <1>8, <2>1, NthOf
  <1>10. ASSUME NEW i \in 1..m PROVE started[i] = Command(RunsOf(at[i]))
    <2>1. PICK words : words = RunsOf(at[i])
      OBVIOUS
    <2>2. at[i] \in CommandLines /\ at[i] \in DOMAIN text
      BY <1>5, <1>8 DEF InOrder
    <2>3. ~ Leaves(words)
      <3>1. at[i] \in 1..at[i]
        BY <1>1, <2>2, TextShape DEF TheText
      <3> QED BY <2>1, <2>2, <3>1 DEF CommandLines, RunsOf
    <2>4. /\ TidyWords(words) /\ OutputFile(words) \in Openable \cup {"none"}
          /\ script[Offset(text, at[i])].file = OutputFile(words)
      BY <1>1, <2>1, <2>2, <2>3, TidyLine
    <2>5. Job(words, << >>).args = Command(words).args
      BY <2>3, <2>4, JobOfTidy DEF IsJobOf
    <2>6. ran[i].out = Command(words).out
      <3>1. \A p \in DOMAIN script : script[p].file \in Openable \cup {"none"}
        <4> TAKE p \in DOMAIN script
        <4>1. PICK k \in DOMAIN text : p = Offset(text, k)
          BY <1>1, OfTheText
        <4> QED BY <1>1, <4>1, TidyLine
      <3>2. ran[i].out = IF OutputFile(words) = "none" THEN "out" ELSE OutputFile(words)
        <4>1. RunProofs!OutputWhereAsked /\ RunProofs!OffsetIsSafe
          BY <1>1, SameNames DEF RunProofs!Inv, RunProofs!SafeInv
        <4>2. script[ran[i].at].file = OutputFile(words)
          BY <1>5, <2>4
        <4> QED BY <1>2, <3>1, <4>1, <4>2 DEF RunProofs!OutputWhereAsked, RunProofs!NoFile
      <3>3. IsRedirect(words) => OutputFile(words) # "none"
        <4>1. IsRedirect(words) => FileOf(Last(words)) \in Openable
          <5>1. IsRedirect(words) => Len(words) - 1 \in DOMAIN words /\ words[Len(words) - 1] = Redirect
            BY <2>4 DEF IsRedirect, TidyWords
          <5> QED BY <2>1, <2>2, <5>1 DEF Tidy, RunsOf
        <4> QED BY <4>1, SessionAssumption DEF OutputFile
      <3> QED BY <3>2, <3>3 DEF Command, OutputFile
    <2>7. started[i] = [args |-> Job(words, << >>).args, out |-> ran[i].out]
      BY <1>5, <2>1 DEF JobOf
    <2>8. Command(words) = [args |-> Command(words).args, out |-> Command(words).out]
      BY DEF Command
    <2> QED BY <2>1, <2>5, <2>6, <2>7, <2>8
  <1>11. Commands = [n \in 1..m |-> Command(RunsOf(at[n]))]
    BY <1>9 DEF Commands, RunsOf
  <1>12. started = [n \in 1..m |-> started[n]]
    BY <1>1, <1>2 DEF StartedInv
  <1> QED BY <1>10, <1>11, <1>12

(* From end to end, for any text: of plain words, with "> file" at most at *)
(* the end of a line, every command in front of an exit has run once, in   *)
(* order, with exactly its own words and its output where it asked, when   *)
(* the shell is gone, unless a program has read some of the lines itself,  *)
(* or a block of memory was not clean (3600sh.c:33-61, 66-107, 110-165,    *)
(* 188-191).                                                               *)
THEOREM TextIsRun == Session => []RunsTheText
  BY TidyInit, TidyNext, TidyExit, PTL DEF Session
=============================================================================
