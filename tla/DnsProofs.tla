----------------------------- MODULE DnsProofs -----------------------------
(***************************************************************************)
(* The client of DnsClient, for any names and any replies.                 *)
(***************************************************************************)
EXTENDS DnsClient, InductionLemmas, SequenceTheorems, TLAPS

-----------------------------------------------------------------------------
(* The cells of a packet.                                                  *)
Packets == Seq(Byte)

LEMMA SeqOfFunction ==
  ASSUME NEW S, NEW m \in Nat, NEW x, x = [i \in 1..m |-> x[i]], \A i \in 1..m : x[i] \in S
  PROVE  x \in Seq(S) /\ Len(x) = m
  <1>1. x \in [1..m -> S]
    BY Zenon
  <1> QED BY <1>1

LEMMA FunctionOfSeq ==
  ASSUME NEW S, NEW d \in Seq(S), NEW m, m = Len(d)
  PROVE  d = [i \in 1..m |-> d[i]]
  <1>1. DOMAIN d = 1..m
    OBVIOUS
  <1>2. d = [i \in DOMAIN d |-> d[i]]
    OBVIOUS
  <1> QED BY <1>1, <1>2, Zenon

LEMMA JoinedSeq ==
  ASSUME NEW S, NEW s \in Seq(S), NEW t \in Seq(S), NEW m, m = Len(s), NEW n, n = Len(t)
  PROVE  /\ s \o t \in Seq(S)
         /\ Len(s \o t) = m + n
         /\ \A i \in 1..(m + n) : (s \o t)[i] = IF i \leq m THEN s[i] ELSE t[i - m]
  BY ConcatProperties

LEMMA CellsAreBytes ==
  ASSUME NEW packet \in Packets, NEW i \in Nat
  PROVE  At(packet, i) \in Byte /\ At(packet, i) \in Nat
  <1>1. CASE i < Len(packet)
    <2>1. i + 1 \in 1..Len(packet)
      BY <1>1 DEF Packets
    <2>2. packet[i + 1] \in Byte
      BY <2>1 DEF Packets
    <2>3. At(packet, i) = packet[i + 1]
      BY <1>1 DEF At
    <2>4. \A b \in Byte : b \in Nat
      BY DEF Byte
    <2> QED BY <2>2, <2>3, <2>4
  <1>2. CASE ~ (i < Len(packet))
    BY <1>2 DEF At, Byte
  <1> QED BY <1>1, <1>2

LEMMA WordsAreNumbers ==
  ASSUME NEW packet \in Packets, NEW i \in Nat
  PROVE  U16At(packet, i) \in Nat
  BY CellsAreBytes DEF U16At

LEMMA CellsOfBoth ==
  ASSUME NEW s \in Packets, NEW t \in Packets
  PROVE  /\ s \o t \in Packets
         /\ Len(s \o t) = Len(s) + Len(t)
         /\ \A i \in Nat : i < Len(s) => At(s \o t, i) = At(s, i)
         /\ \A i \in Nat : At(s \o t, Len(s) + i) = At(t, i)
  <1>1. /\ s \in Seq(Byte) /\ t \in Seq(Byte)
        /\ Len(s) \in Nat /\ Len(t) \in Nat
    BY DEF Packets
  <1>2. /\ s \o t \in Seq(Byte)
        /\ Len(s \o t) = Len(s) + Len(t)
        /\ \A i \in 1..(Len(s) + Len(t)) : (s \o t)[i] = IF i \leq Len(s) THEN s[i] ELSE t[i - Len(s)]
    BY <1>1, ConcatProperties
  <1>3. ASSUME NEW i \in Nat, i < Len(s) PROVE At(s \o t, i) = At(s, i)
    <2>1. i + 1 \in 1..(Len(s) + Len(t)) /\ i + 1 \leq Len(s) /\ i < Len(s) + Len(t)
      BY <1>1, <1>3
    <2> QED BY <1>2, <1>3, <2>1 DEF At
  <1>4. ASSUME NEW i \in Nat PROVE At(s \o t, Len(s) + i) = At(t, i)
    <2>1. PICK m \in Nat, n \in Nat : m = Len(s) /\ n = Len(t)
      BY <1>1
    <2>2. CASE i < n
      <3>1. /\ m + i + 1 \in 1..(m + n) /\ ~ (m + i + 1 \leq m)
            /\ m + i + 1 - m = i + 1 /\ m + i < m + n
        BY <2>2
      <3> QED BY <1>2, <2>1, <2>2, <3>1 DEF At
    <2>3. CASE ~ (i < n)
      <3>1. ~ (m + i < m + n)
        BY <2>3
      <3> QED BY <1>2, <2>1, <2>3, <3>1 DEF At
    <2> QED BY <2>2, <2>3
  <1> QED BY <1>1, <1>2, <1>3, <1>4 DEF Packets

-----------------------------------------------------------------------------
(* The walk over a name.                                                   *)
LEMMA NextCellType ==
  ASSUME NEW packet \in Packets, NEW offset \in Nat
  PROVE  NextCell(packet, offset) \in [Nat -> Nat]
  <1>1. Pointer(packet, offset) \in Nat
    BY WordsAreNumbers DEF Pointer
  <1> QED BY <1>1 DEF NextCell

LEMMA WalkUnfold ==
  ASSUME NEW packet \in Packets, NEW offset \in Nat
  PROVE  /\ Walk(packet, offset)[0] = offset + 1
         /\ \A k \in Nat :
              Walk(packet, offset)[k + 1] = NextCell(packet, offset)[Walk(packet, offset)[k]]
  <1>1. PICK next \in [Nat -> Nat] : next = NextCell(packet, offset)
    BY NextCellType
  <1>2. PICK first \in Nat : first = offset + 1
    OBVIOUS
  <1>3. PICK Rule : Rule = [p \in Nat \X Nat |-> next[p[2]]]
    OBVIOUS
  <1>4. Rule \in [Nat \X Nat -> Nat]
    BY <1>3
  <1>5. PICK f \in [Nat -> Nat] : f[0] = first /\ \A k \in Nat : f[k + 1] = next[f[k]]
    <2>1. PICK f \in [Nat -> Nat] : Follows(f, first, Rule)
      BY <1>4, RecursionOverNat
    <2>2. \A k \in Nat : Rule[<<k, f[k]>>] = next[f[k]]
      BY <1>3
    <2> QED BY <2>1, <2>2 DEF Follows
  <1> DEFINE Stepping(g) == [k \in Nat |-> IF k = 0 THEN first ELSE next[g[k - 1]]]
             cells == CHOOSE g : g = Stepping(g)
  <1>6. ASSUME NEW m \in Nat
        PROVE  f[m] = IF m = 0 THEN first ELSE next[f[m - 1]]
    <2>1. CASE m # 0
      <3>1. m - 1 \in Nat /\ (m - 1) + 1 = m
        BY <2>1
      <3> QED BY <1>5, <2>1, <3>1
    <2> QED BY <1>5, <2>1
  <1>7. f = Stepping(f)
    <2>1. f = [m \in Nat |-> f[m]]
      OBVIOUS
    <2> QED BY <1>6, <2>1
  <1>8. cells = Stepping(cells)
    <2> HIDE DEF Stepping
    <2> QED BY <1>7
  <1>9. Walk(packet, offset) = cells
    BY <1>1, <1>2 DEF Walk
  <1> HIDE DEF cells
  <1>10. \A m \in Nat : cells[m] = IF m = 0 THEN first ELSE next[cells[m - 1]]
    BY <1>8
  <1>11. \A m \in Nat : m + 1 \in Nat /\ m + 1 # 0 /\ (m + 1) - 1 = m
    OBVIOUS
  <1> QED BY <1>1, <1>2, <1>9, <1>10, <1>11

LEMMA LengthsAreNumbers ==
  ASSUME NEW packet \in Packets, NEW offset \in Nat, NameEnds(packet, offset)
  PROVE  /\ NameLength(packet, offset) \in Nat
         /\ Len(DNSToName(packet, offset)) = NameLength(packet, offset)
         /\ Len(DNSToName(packet, offset)) \in Nat
  <1>1. Len(packet) \in Nat
    BY DEF Packets
  <1>2. NameLength(packet, offset) \in 0..Len(packet)
    BY DEF NameEnds, NameLength
  <1>3. PICK n \in Nat : n = NameLength(packet, offset)
    BY <1>1, <1>2
  <1> DEFINE f == [k \in 1..n |-> Character(At(packet, Walk(packet, offset)[k - 1]))]
             S == {Character(At(packet, Walk(packet, offset)[k - 1])) : k \in 1..n}
  <1>4. f \in Seq(S) /\ Len(f) = n
    <2>1. \A k \in 1..n : f[k] \in S
      OBVIOUS
    <2>2. f = [k \in 1..n |-> f[k]]
      OBVIOUS
    <2> HIDE DEF f, S
    <2> QED BY <2>1, <2>2
  <1>5. DNSToName(packet, offset) = f
    BY <1>3 DEF DNSToName
  <1> HIDE DEF f
  <1> QED BY <1>3, <1>4, <1>5

(* A name that ends can end in one place only.                             *)
LEMMA LengthIs ==
  ASSUME NEW packet, NEW offset, NEW k \in Nat, k \leq Len(packet), Len(packet) \in Nat,
         EndsAfter(packet, offset, k)
  PROVE  NameEnds(packet, offset) /\ NameLength(packet, offset) = k
  <1>1. k \in 0..Len(packet)
    OBVIOUS
  <1>2. ASSUME NEW j \in 0..Len(packet), EndsAfter(packet, offset, j) PROVE j = k
    <2>1. ~ (j < k)
      BY <1>2 DEF EndsAfter
    <2>2. ~ (k < j)
      BY <1>2 DEF EndsAfter
    <2> QED BY <2>1, <2>2
  <1> QED BY <1>1, <1>2 DEF NameEnds, NameLength

LEMMA NextCellIs ==
  ASSUME NEW packet \in Packets, NEW offset \in Nat, NEW c \in Nat
  PROVE  /\ ~ IsPointer(At(packet, c)) => NextCell(packet, offset)[c] = c + 1
         /\ IsPointer(At(packet, c)) => NextCell(packet, offset)[c] = Pointer(packet, offset) + 1
  BY DEF NextCell

(* Without a pointer the walk goes straight on to the zero byte.           *)
GoesStraight(packet, offset, m) ==
  /\ m \in Nat /\ m \leq Len(packet)
  /\ \A j \in 1..m : At(packet, offset + j) # 0 /\ ~ IsPointer(At(packet, offset + j))
  /\ At(packet, offset + 1 + m) = 0

ReadsStraight(packet, offset, m) ==
  /\ NameEnds(packet, offset)
  /\ NameLength(packet, offset) = m
  /\ DNSToName(packet, offset) = [k \in 1..m |-> Character(At(packet, offset + k))]

LEMMA StraightWalk ==
  ASSUME NEW packet \in Packets, NEW offset \in Nat, NEW m, GoesStraight(packet, offset, m)
  PROVE  ReadsStraight(packet, offset, m)
  <1>0. /\ m \in Nat /\ m \leq Len(packet)
        /\ \A j \in 1..m : At(packet, offset + j) # 0 /\ ~ IsPointer(At(packet, offset + j))
        /\ At(packet, offset + 1 + m) = 0
    BY DEF GoesStraight
  <1> DEFINE T == {k \in Nat : k \leq m => Walk(packet, offset)[k] = offset + 1 + k}
  <1>1. 0 \in T
    BY WalkUnfold
  <1>2. ASSUME NEW k \in Nat, k \in T PROVE k + 1 \in T
    <2> SUFFICES ASSUME k + 1 \leq m PROVE Walk(packet, offset)[k + 1] = offset + 1 + (k + 1)
      OBVIOUS
    <2>1. Walk(packet, offset)[k] = offset + (k + 1)
      <3>1. k \leq m
        BY <1>0
      <3>2. Walk(packet, offset)[k] = offset + 1 + k
        BY <1>2, <3>1
      <3>3. offset + 1 + k = offset + (k + 1)
        OBVIOUS
      <3> QED BY <3>2, <3>3
    <2>2. k + 1 \in 1..m
      BY <1>0
    <2>3. ~ IsPointer(At(packet, offset + (k + 1)))
      BY <1>0, <2>2
    <2>4. NextCell(packet, offset)[offset + (k + 1)] = offset + (k + 1) + 1
      BY <2>3, NextCellIs
    <2>5. Walk(packet, offset)[k + 1] = NextCell(packet, offset)[offset + (k + 1)]
      <3>1. PICK w : w = Walk(packet, offset)
        OBVIOUS
      <3>2. w[k + 1] = NextCell(packet, offset)[w[k]]
        BY <3>1, WalkUnfold
      <3> QED BY <2>1, <3>1, <3>2
    <2> QED BY <2>4, <2>5
  <1>3. \A k \in 0..m : Walk(packet, offset)[k] = offset + 1 + k
    <2> SUFFICES ASSUME NEW k \in 0..m PROVE k \in T
      BY <1>0
    <2> HIDE DEF T
    <2> QED BY <1>1, <1>2, AllNumbers
  <1>4. \A j \in 0..(m - 1) : At(packet, Walk(packet, offset)[j]) # 0
    <2> TAKE j \in 0..(m - 1)
    <2>1. j \in 0..m /\ j + 1 \in 1..m /\ offset + 1 + j = offset + (j + 1)
      BY <1>0
    <2> QED BY <1>0, <1>3, <2>1
  <1>5. EndsAfter(packet, offset, m)
    <2>1. m \in 0..m
      BY <1>0
    <2> QED BY <1>0, <1>3, <1>4, <2>1 DEF EndsAfter
  <1>6. NameEnds(packet, offset) /\ NameLength(packet, offset) = m
    <2>1. Len(packet) \in Nat
      BY DEF Packets
    <2> QED BY <1>0, <1>5, <2>1, LengthIs
  <1>7. \A k \in 1..m : Walk(packet, offset)[k - 1] = offset + k
    <2> TAKE k \in 1..m
    <2>1. k - 1 \in 0..m /\ offset + 1 + (k - 1) = offset + k
      BY <1>0
    <2> QED BY <1>3, <2>1
  <1> QED BY <1>6, <1>7 DEF DNSToName, ReadsStraight

(* The name of the first answer.  The client is two bytes in front of it,  *)
(* at the class of the question; from there the walk takes the pointer for *)
(* one to the byte 1 of the packet, runs through the flags of the header   *)
(* and has taken four steps when it ends: so many as there are bytes to    *)
(* the end of the name.                                                    *)
LEMMA WalkThroughHeader ==
  ASSUME NEW packet \in Packets, NEW offset \in Nat, 4 \leq Len(packet),
         At(packet, offset) = 0, At(packet, offset + 1) = 1, At(packet, offset + 2) = 192,
         At(packet, 2) # 0, ~ IsPointer(At(packet, 2)),
         At(packet, 3) # 0, ~ IsPointer(At(packet, 3)),
         At(packet, 4) = 0
  PROVE  NameEnds(packet, offset) /\ Len(DNSToName(packet, offset)) = 4
  <1>1. PICK w : w = Walk(packet, offset)
    OBVIOUS
  <1>2. w[0] = offset + 1 /\ \A k \in Nat : w[k + 1] = NextCell(packet, offset)[w[k]]
    BY ZenonT(30), <1>1, WalkUnfold
  <1>3. ~ IsPointer(1) /\ IsPointer(192)
    BY DEF IsPointer
  <1>4. Pointer(packet, offset) = 1
    BY DEF Pointer, U16At
  <1>5. w[1] = offset + 2
    <2>1. NextCell(packet, offset)[offset + 1] = offset + 1 + 1
      BY <1>3, NextCellIs
    <2>2. w[1] = NextCell(packet, offset)[w[0]]
      <3>1. PICK z \in Nat : z = 0
        OBVIOUS
      <3>2. w[z + 1] = NextCell(packet, offset)[w[z]]
        BY <1>2
      <3>3. z + 1 = 1
        BY <3>1
      <3> QED BY <3>1, <3>2, <3>3
    <2> QED BY <1>2, <2>1, <2>2
  <1>6. w[2] = 2
    <2>1. NextCell(packet, offset)[offset + 2] = 1 + 1
      BY <1>3, <1>4, NextCellIs
    <2>2. w[1 + 1] = NextCell(packet, offset)[w[1]]
      BY <1>2
    <2> QED BY <1>5, <2>1, <2>2
  <1>7. w[3] = 3
    <2>1. NextCell(packet, offset)[2] = 2 + 1
      BY NextCellIs
    <2>2. w[2 + 1] = NextCell(packet, offset)[w[2]]
      BY <1>2
    <2> QED BY <1>6, <2>1, <2>2
  <1>8. w[4] = 4
    <2>1. NextCell(packet, offset)[3] = 3 + 1
      BY NextCellIs
    <2>2. w[3 + 1] = NextCell(packet, offset)[w[3]]
      BY <1>2
    <2> QED BY <1>7, <2>1, <2>2
  <1>9. EndsAfter(packet, offset, 4)
    <2>1. At(packet, w[4]) = 0
      BY <1>8
    <2>2. ASSUME NEW j \in 0..(4 - 1) PROVE At(packet, w[j]) # 0
      <3>1. j = 0 \/ j = 1 \/ j = 2 \/ j = 3
        OBVIOUS
      <3>2. w[0] = offset + 1
        BY <1>2
      <3>3. At(packet, w[0]) # 0 /\ At(packet, w[1]) # 0 /\ At(packet, w[2]) # 0 /\ At(packet, w[3]) # 0
        BY <1>5, <1>6, <1>7, <3>2
      <3> QED BY <3>1, <3>3
    <2> QED BY <1>1, <2>1, <2>2 DEF EndsAfter
  <1>10. NameEnds(packet, offset) /\ NameLength(packet, offset) = 4
    <2>1. Len(packet) \in Nat
      BY DEF Packets
    <2> QED BY <1>9, <2>1, LengthIs
  <1> QED BY ZenonT(30), <1>10, LengthsAreNumbers

-----------------------------------------------------------------------------
(* A name in the packet and as the user writes it.                         *)
LabelsOf(labels) == [i \in DOMAIN labels |-> <<Len(labels[i])>> \o labels[i]]

DottedLabels(labels) == [i \in DOMAIN labels |-> <<DOT>> \o labels[i]]

LEMMA OneByte ==
  ASSUME NEW b \in Byte
  PROVE  <<b>> \in Packets /\ Len(<<b>>) = 1 /\ <<b>>[1] = b /\ At(<<b>>, 0) = b
  BY DEF Packets, At

LEMMA NamesAreBytes ==
  ASSUME NEW labels \in Seq(Packets), \A i \in DOMAIN labels : Len(labels[i]) \in Byte
  PROVE  NameToDNS(labels) \in Packets
  <1>1. DOMAIN labels = 1..Len(labels) /\ Len(labels) \in Nat
    OBVIOUS
  <1>2. \A i \in DOMAIN labels : <<Len(labels[i])>> \o labels[i] \in Seq(Byte)
    <2> TAKE i \in DOMAIN labels
    <2>1. <<Len(labels[i])>> \in Packets /\ labels[i] \in Packets
      BY <1>1, OneByte
    <2> QED BY <2>1, CellsOfBoth DEF Packets
  <1>3. PICK n \in Nat : n = Len(labels)
    OBVIOUS
  <1>4. LabelsOf(labels) \in Seq(Seq(Byte)) /\ Len(LabelsOf(labels)) = n
    BY <1>1, <1>2, <1>3 DEF LabelsOf
  <1>5. FlattenSeq(LabelsOf(labels)) \in Seq(Byte)
    BY <1>4, FlattenUnfold
  <1> QED BY <1>5 DEF NameToDNS, LabelsOf, Packets

(* Names that the client understands: a label is at most nine long, and    *)
(* none of its characters can be taken for a length or a pointer.          *)
PlainName(labels) ==
  /\ labels \in Seq(Packets)
  /\ labels # << >>
  /\ \A i \in DOMAIN labels :
       Len(labels[i]) \in 1..9 /\ \A j \in 1..Len(labels[i]) : labels[i][j] \in 10..191

ReadsAs(s, t) ==
  /\ s \in Packets /\ t \in Packets
  /\ Len(s) = Len(t)
  /\ \A i \in 1..Len(s) : s[i] \in 1..191 /\ Character(s[i]) = t[i]

LEMMA ReadsAsBoth ==
  ASSUME NEW s, NEW t, NEW u, NEW v, ReadsAs(s, t), ReadsAs(u, v)
  PROVE  ReadsAs(s \o u, t \o v) /\ Len(s \o u) = Len(s) + Len(u)
  <1>1. PICK m \in Nat, n \in Nat : m = Len(s) /\ m = Len(t) /\ n = Len(u) /\ n = Len(v)
    BY DEF ReadsAs, Packets
  <1>2. s \in Seq(Byte) /\ t \in Seq(Byte) /\ u \in Seq(Byte) /\ v \in Seq(Byte)
    BY DEF ReadsAs, Packets
  <1>3. PICK S : s \in Seq(S) /\ t \in Seq(S) /\ u \in Seq(S) /\ v \in Seq(S) /\ S = Byte
    BY <1>2
  <1>a. s \in Seq(S) /\ u \in Seq(S) /\ m = Len(s) /\ n = Len(u)
    BY <1>1, <1>3
  <1>b. t \in Seq(S) /\ v \in Seq(S) /\ m = Len(t) /\ n = Len(v)
    BY <1>1, <1>3
  <1>4. /\ s \o u \in Seq(S) /\ Len(s \o u) = m + n
        /\ \A i \in 1..(m + n) : (s \o u)[i] = IF i \leq m THEN s[i] ELSE u[i - m]
    BY <1>a, JoinedSeq
  <1>5. /\ t \o v \in Seq(S) /\ Len(t \o v) = m + n
        /\ \A i \in 1..(m + n) : (t \o v)[i] = IF i \leq m THEN t[i] ELSE v[i - m]
    BY <1>b, JoinedSeq
  <1>6. ASSUME NEW i \in 1..(m + n)
        PROVE  (s \o u)[i] \in 1..191 /\ Character((s \o u)[i]) = (t \o v)[i]
    <2>1. CASE i \leq m
      <3>1. i \in 1..m
        BY <2>1
      <3>2. s[i] \in 1..191 /\ Character(s[i]) = t[i]
        BY <1>1, <3>1 DEF ReadsAs
      <3>3. (s \o u)[i] = s[i] /\ (t \o v)[i] = t[i]
        BY <1>4, <1>5, <2>1
      <3> QED BY <3>2, <3>3
    <2>2. CASE ~ (i \leq m)
      <3>1. i - m \in 1..n
        BY <2>2
      <3>2. u[i - m] \in 1..191 /\ Character(u[i - m]) = v[i - m]
        BY <1>1, <3>1 DEF ReadsAs
      <3>3. (s \o u)[i] = u[i - m] /\ (t \o v)[i] = v[i - m]
        BY <1>4, <1>5, <2>2
      <3> QED BY <3>2, <3>3
    <2> QED BY <2>1, <2>2
  <1>7. s \o u \in Packets /\ t \o v \in Packets
    BY <1>3, <1>4, <1>5 DEF Packets
  <1> QED BY <1>1, <1>4, <1>5, <1>6, <1>7 DEF ReadsAs

LEMMA LabelReadsAs ==
  ASSUME NEW labels, PlainName(labels), NEW i \in DOMAIN labels
  PROVE  ReadsAs(<<Len(labels[i])>> \o labels[i], <<DOT>> \o labels[i])
  <1>1. PICK l : l = labels[i]
    OBVIOUS
  <1>2. l \in Packets /\ Len(l) \in 1..9 /\ \A j \in 1..Len(l) : l[j] \in 10..191
    <2>1. PICK S : S = Packets
      OBVIOUS
    <2>2. labels \in Seq(S)
      BY <2>1 DEF PlainName
    <2>3. l \in S
      BY <1>1, <2>2
    <2>4. Len(l) \in 1..9 /\ \A j \in 1..Len(l) : l[j] \in 10..191
      BY <1>1 DEF PlainName
    <2> QED BY <2>1, <2>3, <2>4
  <1>3. ReadsAs(l, l)
    <2>1. ASSUME NEW j \in 1..Len(l) PROVE l[j] \in 1..191 /\ Character(l[j]) = l[j]
      <3>1. PICK c \in 10..191 : c = l[j]
        BY <1>2
      <3>2. c \in 1..191 /\ Character(c) = c
        BY DEF Character
      <3> QED BY <3>1, <3>2
    <2> QED BY <1>2, <2>1 DEF ReadsAs
  <1>4. ReadsAs(<<Len(l)>>, <<DOT>>)
    <2>1. PICK n \in 1..9 : n = Len(l)
      BY <1>2
    <2>2. n \in Byte /\ DOT \in Byte
      BY DEF Byte, DOT
    <2>3. Character(n) = DOT /\ n \in 1..191
      BY DEF Character
    <2>4. PICK s, t : s = <<n>> /\ t = <<DOT>>
      OBVIOUS
    <2>5. s \in Packets /\ t \in Packets
      BY <2>2, <2>4, OneByte
    <2>6. Len(s) = 1 /\ Len(t) = 1 /\ s[1] = n /\ t[1] = DOT
      BY <2>4
    <2>7. \A k \in 1..Len(s) : s[k] \in 1..191 /\ Character(s[k]) = t[k]
      <3>1. \A k \in 1..Len(s) : k = 1
        BY <2>6
      <3> QED BY <2>3, <2>6, <3>1
    <2>8. ReadsAs(s, t)
      BY <2>5, <2>6, <2>7 DEF ReadsAs
    <2> QED BY <2>1, <2>4, <2>8
  <1> QED BY <1>1, <1>3, <1>4, ReadsAsBoth

(* DNSToName() of what nameToDNS() yields is the name, but for the dot in  *)
(* front.                                                                  *)
Spells(name, n, text) ==
  /\ name \in Packets /\ n = Len(name) /\ n \in Nat /\ n \geq 1
  /\ \A i \in 1..n : name[i] \in 1..191
  /\ text = [i \in 1..(n - 1) |-> Character(name[i + 1])]

LEMMA NameReadsAsText ==
  ASSUME NEW labels, PlainName(labels)
  PROVE  Spells(NameToDNS(labels), Len(NameToDNS(labels)), Text(labels))
  <1>1. PICK m \in Nat \ {0} : m = Len(labels) /\ DOMAIN labels = 1..m
    BY EmptySeq DEF PlainName
  <1>2. PICK x, y : x = LabelsOf(labels) /\ y = DottedLabels(labels)
    OBVIOUS
  <1>3. \A i \in 1..m : ReadsAs(x[i], y[i])
    BY <1>1, <1>2, LabelReadsAs DEF LabelsOf, DottedLabels
  <1>4. x \in Seq(Packets) /\ Len(x) = m /\ y \in Seq(Packets) /\ Len(y) = m
    <2>1. x = [i \in 1..m |-> x[i]] /\ y = [i \in 1..m |-> y[i]]
      BY <1>1, <1>2 DEF LabelsOf, DottedLabels
    <2>2. PICK S : S = Packets
      OBVIOUS
    <2>3. \A i \in 1..m : x[i] \in S /\ y[i] \in S
      BY <1>3, <2>2 DEF ReadsAs
    <2>4. x \in Seq(S) /\ Len(x) = m /\ y \in Seq(S) /\ Len(y) = m
      BY <2>1, <2>3, SeqOfFunction
    <2> QED BY <2>2, <2>4
  <1>a. PICK S : S = Byte
    OBVIOUS
  <1>b. x \in Seq(Seq(S)) /\ m = Len(x)
    BY <1>4, <1>a DEF Packets
  <1>c. y \in Seq(Seq(S)) /\ m = Len(y)
    BY <1>4, <1>a DEF Packets
  <1>5. PICK f : /\ IsFront(S, x, m, f)
                 /\ \A k \in 0..m : FlattenSeq(SubSeq(x, 1, k)) = f[k]
                 /\ FlattenSeq(x) = f[m]
    BY <1>b, FlattenHasFronts
  <1>6. PICK g : /\ IsFront(S, y, m, g)
                 /\ \A k \in 0..m : FlattenSeq(SubSeq(y, 1, k)) = g[k]
                 /\ FlattenSeq(y) = g[m]
    BY <1>c, FlattenHasFronts
  <1>7. f[0] = << >> /\ \A k \in 1..m : f[k] = f[k - 1] \o x[k]
    BY <1>5 DEF IsFront
  <1>8. g[0] = << >> /\ \A k \in 1..m : g[k] = g[k - 1] \o y[k]
    BY <1>6 DEF IsFront
  <1> DEFINE T == {k \in Nat : k \leq m => ReadsAs(f[k], g[k]) /\ Len(f[k]) \geq k}
  <1>9. 0 \in T
    <2>1. << >> \in Packets /\ Len(<< >>) = 0
      BY DEF Packets
    <2> QED BY <1>7, <1>8, <2>1 DEF ReadsAs
  <1>10. ASSUME NEW k \in Nat, k \in T PROVE k + 1 \in T
    <2> SUFFICES ASSUME k + 1 \leq m PROVE ReadsAs(f[k + 1], g[k + 1]) /\ Len(f[k + 1]) \geq k + 1
      OBVIOUS
    <2>1. k + 1 \in 1..m /\ k + 1 - 1 = k
      OBVIOUS
    <2>2. ReadsAs(f[k], g[k]) /\ Len(f[k]) \geq k
      BY <1>10
    <2>3. ReadsAs(x[k + 1], y[k + 1])
      BY <1>3, <2>1
    <2>4. f[k + 1] = f[k] \o x[k + 1] /\ g[k + 1] = g[k] \o y[k + 1]
      <3>1. PICK q \in 1..m : q = k + 1
        BY <2>1
      <3>2. f[q] = f[q - 1] \o x[q] /\ g[q] = g[q - 1] \o y[q]
        BY <1>7, <1>8
      <3>3. q - 1 = k
        BY <3>1
      <3> QED BY <3>1, <3>2, <3>3
    <2>5. /\ ReadsAs(f[k] \o x[k + 1], g[k] \o y[k + 1])
          /\ Len(f[k] \o x[k + 1]) = Len(f[k]) + Len(x[k + 1])
      BY <2>2, <2>3, ReadsAsBoth
    <2>6. Len(x[k + 1]) \geq 1 /\ Len(x[k + 1]) \in Nat
      <3>1. PICK l : l = labels[k + 1] /\ x[k + 1] = <<Len(l)>> \o l
        BY <1>1, <1>2, <2>1 DEF LabelsOf
      <3>2. l \in Packets /\ Len(l) \in 1..9
        BY <1>1, <2>1, <3>1 DEF PlainName
      <3>3. Len(l) \in Byte
        BY <3>2 DEF Byte
      <3>4. Len(<<Len(l)>> \o l) = 1 + Len(l)
        BY <3>2, <3>3, OneByte, CellsOfBoth
      <3> QED BY <3>1, <3>2, <3>4
    <2>7. Len(f[k]) \in Nat
      BY <2>2 DEF ReadsAs, Packets
    <2>8. Len(f[k]) + Len(x[k + 1]) \geq k + 1
      <3>1. PICK a \in Nat, b \in Nat : a = Len(f[k]) /\ b = Len(x[k + 1])
        BY <2>6, <2>7
      <3>2. a \geq k /\ b \geq 1
        BY <2>2, <2>6, <3>1
      <3>3. a + b \geq k + 1
        BY <3>2
      <3> QED BY <3>1, <3>3
    <2> HIDE DEF T
    <2> QED BY <2>4, <2>5, <2>8
  <1>11. ReadsAs(f[m], g[m]) /\ Len(f[m]) \geq m
    <2> HIDE DEF T
    <2>1. m \in T
      BY <1>9, <1>10, AllNumbers
    <2> USE DEF T
    <2> QED BY <2>1
  <1>12. PICK n \in Nat \ {0} : n = Len(f[m])
    BY <1>11 DEF ReadsAs, Packets
  <1>13. NameToDNS(labels) = f[m]
    BY <1>2, <1>5 DEF NameToDNS, LabelsOf
  <1>14. Text(labels) = Tail(g[m])
    BY <1>2, <1>6 DEF Text, DottedLabels
  <1>15. /\ g[m] \in Packets /\ f[m] \in Packets /\ Len(g[m]) = n
         /\ \A i \in 1..n : f[m][i] \in 1..191 /\ Character(f[m][i]) = g[m][i]
    BY <1>11, <1>12 DEF ReadsAs
  <1>16. Tail(g[m]) = [i \in 1..(n - 1) |-> Character(f[m][i + 1])]
    <2>1. PICK t : t = Tail(g[m])
      OBVIOUS
    <2>2. t \in Seq(Byte) /\ Len(t) = n - 1 /\ \A i \in 1..(n - 1) : t[i] = g[m][i + 1]
      <3>1. g[m] \in Seq(Byte) /\ g[m] # << >>
        BY <1>15 DEF Packets
      <3> QED BY <1>15, <2>1, <3>1, HeadTailProperties
    <2>3. t = [i \in 1..(n - 1) |-> t[i]]
      BY <2>2
    <2>4. \A i \in 1..(n - 1) : t[i] = Character(f[m][i + 1])
      <3> TAKE i \in 1..(n - 1)
      <3>1. i + 1 \in 1..n
        OBVIOUS
      <3> QED BY <1>15, <2>2, <3>1
    <2> QED BY <2>1, <2>3, <2>4
  <1>17. Spells(f[m], n, Tail(g[m]))
    BY SMTT(30), <1>12, <1>15, <1>16 DEF Spells
  <1> QED BY <1>12, <1>13, <1>14, <1>17

-----------------------------------------------------------------------------
(* What the packets hold.                                                  *)
LEMMA WordBytes ==
  ASSUME NEW n \in Word
  PROVE  /\ n \in Nat
         /\ n \div 256 \in Byte /\ n % 256 \in Byte
         /\ 256 * (n \div 256) + (n % 256) = n
  <1>1. n \in Nat /\ n < 65536
    BY SMTT(30) DEF Word
  <1>2. n \div 256 \in Nat /\ n % 256 \in Nat /\ n % 256 < 256 /\ n = 256 * (n \div 256) + (n % 256)
    BY <1>1
  <1>3. n \div 256 < 256
    BY <1>1, <1>2
  <1> QED BY <1>1, <1>2, <1>3 DEF Byte

LEMMA SmallWords ==
  ASSUME NEW k \in Nat, k < 256
  PROVE  k \in Word /\ k \in Byte
  BY DEF Word, Byte

LEMMA CellsOfPair ==
  ASSUME NEW b \in Byte, NEW c \in Byte
  PROVE  <<b, c>> \in Packets /\ Len(<<b, c>>) = 2 /\ At(<<b, c>>, 0) = b /\ At(<<b, c>>, 1) = c
  BY DEF Packets, At

(* u is t behind s, which is m long.                                       *)
Behind(u, s, m, t) ==
  /\ u \in Packets
  /\ Len(u) = m + Len(t)
  /\ \A i \in Nat : i < m => At(u, i) = At(s, i)
  /\ \A i \in Nat : At(u, m + i) = At(t, i)

LEMMA JoinedBehind ==
  ASSUME NEW s \in Packets, NEW t \in Packets, NEW m, Len(s) = m
  PROVE  Behind(s \o t, s, m, t)
  BY CellsOfBoth DEF Behind

(* t is the two bytes of n behind s, which is m long.                      *)
PairBehind(t, s, m, n) ==
  /\ t \in Packets
  /\ Len(t) = m + 2
  /\ \A i \in Nat : i < m => At(t, i) = At(s, i)
  /\ At(t, m) = n \div 256
  /\ At(t, m + 1) = n % 256

LEMMA PairAppended ==
  ASSUME NEW s \in Packets, NEW n \in Word, NEW m \in Nat, Len(s) = m
  PROVE  PairBehind(s \o U16(n), s, m, n)
  <1>1. PICK u : u = U16(n)
    OBVIOUS
  <1>2. u \in Packets /\ Len(u) = 2 /\ At(u, 0) = n \div 256 /\ At(u, 1) = n % 256
    BY <1>1, WordBytes, CellsOfPair DEF U16
  <1>3. Behind(s \o u, s, m, u)
    BY <1>2, JoinedBehind
  <1>4. At(s \o u, m + 0) = At(u, 0) /\ At(s \o u, m + 1) = At(u, 1)
    BY <1>3 DEF Behind
  <1>5. m + 0 = m
    OBVIOUS
  <1>6. At(s \o u, m) = n \div 256 /\ At(s \o u, m + 1) = n % 256
    BY <1>2, <1>4, <1>5
  <1>7. /\ s \o u \in Packets /\ Len(s \o u) = m + 2
        /\ \A i \in Nat : i < m => At(s \o u, i) = At(s, i)
    BY <1>2, <1>3 DEF Behind
  <1> QED BY <1>1, <1>6, <1>7 DEF PairBehind

LEMMA HeaderIs ==
  ASSUME NEW id \in Word, NEW flags \in Byte, NEW rcodes \in Byte, NEW ancount \in Word,
         NEW h, h = Header(id, flags, rcodes, ancount)
  PROVE  /\ h \in Packets /\ Len(h) = 12
         /\ U16At(h, 0) = id
         /\ At(h, 0) = id \div 256 /\ At(h, 1) = id % 256
         /\ At(h, 2) = flags /\ At(h, 3) = rcodes
         /\ At(h, 4) = 0
         /\ At(h, 6) = ancount \div 256 /\ At(h, 7) = ancount % 256
         /\ U16At(h, 6) = ancount
  <1>0. 0 \in Word /\ 1 \in Word
    BY SmallWords
  <1>1. PICK a : a = U16(id)
    OBVIOUS
  <1>2. a \in Packets /\ Len(a) = 2 /\ At(a, 0) = id \div 256 /\ At(a, 1) = id % 256
    BY <1>1, WordBytes, CellsOfPair DEF U16
  <1>3. PICK b : b = a \o <<flags, rcodes>>
    OBVIOUS
  <1>4. /\ b \in Packets /\ Len(b) = 4
        /\ At(b, 0) = id \div 256 /\ At(b, 1) = id % 256 /\ At(b, 2) = flags /\ At(b, 3) = rcodes
    <2>1. PICK f : f = <<flags, rcodes>>
      OBVIOUS
    <2>2. f \in Packets /\ Len(f) = 2 /\ At(f, 0) = flags /\ At(f, 1) = rcodes
      BY <2>1, CellsOfPair
    <2>3. /\ b \in Packets /\ Len(b) = 2 + Len(f)
          /\ \A i \in Nat : i < 2 => At(b, i) = At(a, i)
          /\ \A i \in Nat : At(b, 2 + i) = At(f, i)
      <3>1. Behind(a \o f, a, 2, f)
        BY <1>2, <2>2, JoinedBehind
      <3>2. b = a \o f
        BY <1>3, <2>1
      <3> QED BY <3>1, <3>2 DEF Behind
    <2>4. At(b, 2 + 0) = At(f, 0) /\ At(b, 2 + 1) = At(f, 1)
      BY <1>2, <2>3
    <2>5. At(b, 0) = At(a, 0) /\ At(b, 1) = At(a, 1)
      BY <1>2, <2>3
    <2> QED BY <1>2, <2>2, <2>3, <2>4, <2>5
  <1>5. PICK c : c = b \o U16(1)
    OBVIOUS
  <1>6. /\ c \in Packets /\ Len(c) = 6
        /\ At(c, 0) = id \div 256 /\ At(c, 1) = id % 256 /\ At(c, 2) = flags /\ At(c, 3) = rcodes
        /\ At(c, 4) = 0
    <2>1. /\ c \in Packets /\ Len(c) = 4 + 2
          /\ \A i \in Nat : i < 4 => At(c, i) = At(b, i)
          /\ At(c, 4) = 1 \div 256
      <3>1. PairBehind(c, b, 4, 1)
        BY <1>0, <1>4, <1>5, PairAppended
      <3> QED BY <3>1 DEF PairBehind
    <2> QED BY <1>4, <2>1
  <1>7. PICK d : d = c \o U16(ancount)
    OBVIOUS
  <1>8. /\ d \in Packets /\ Len(d) = 8
        /\ At(d, 0) = id \div 256 /\ At(d, 1) = id % 256 /\ At(d, 2) = flags /\ At(d, 3) = rcodes
        /\ At(d, 4) = 0
        /\ At(d, 6) = ancount \div 256 /\ At(d, 7) = ancount % 256
    <2>1. /\ d \in Packets /\ Len(d) = 6 + 2
          /\ \A i \in Nat : i < 6 => At(d, i) = At(c, i)
          /\ At(d, 6) = ancount \div 256 /\ At(d, 6 + 1) = ancount % 256
      <3>1. PairBehind(d, c, 6, ancount)
        BY <1>6, <1>7, PairAppended
      <3> QED BY <3>1 DEF PairBehind
    <2> QED BY <1>6, <2>1
  <1>9. PICK e : e = d \o U16(0)
    OBVIOUS
  <1>10. e \in Packets /\ Len(e) = 10 /\ \A i \in Nat : i < 8 => At(e, i) = At(d, i)
    <2>1. PairBehind(e, d, 8, 0)
      BY ZenonT(30), <1>0, <1>8, <1>9, PairAppended
    <2> QED BY <2>1 DEF PairBehind
  <1>11. h = e \o U16(0)
    BY <1>1, <1>3, <1>5, <1>7, <1>9 DEF Header
  <1>12. h \in Packets /\ Len(h) = 10 + 2 /\ \A i \in Nat : i < 10 => At(h, i) = At(e, i)
    <2>1. PairBehind(h, e, 10, 0)
      BY <1>0, <1>10, <1>11, PairAppended
    <2> QED BY <2>1 DEF PairBehind
  <1>13. \A i \in Nat : i < 8 => At(h, i) = At(d, i)
    BY <1>10, <1>12
  <1>14. /\ At(h, 0) = id \div 256 /\ At(h, 1) = id % 256 /\ At(h, 2) = flags /\ At(h, 3) = rcodes
         /\ At(h, 4) = 0
         /\ At(h, 6) = ancount \div 256 /\ At(h, 7) = ancount % 256
    BY <1>8, <1>13
  <1>15. U16At(h, 0) = id /\ U16At(h, 6) = ancount
    BY <1>14, WordBytes DEF U16At
  <1> QED BY <1>12, <1>14, <1>15

Asks(r, name, n) ==
  /\ r \in Packets /\ n \in Nat /\ Len(r) = 17 + n
  /\ \A i \in Nat : i < n => At(r, 12 + i) = At(name, i)
  /\ At(r, 12 + n) = 0
  /\ At(r, 13 + n) = 0 /\ At(r, 14 + n) = 1
  /\ At(r, 15 + n) = 0 /\ At(r, 16 + n) = 1

LEMMA RequestIs ==
  ASSUME NEW labels, NEW name \in Packets, name = NameToDNS(labels), NEW n, n = Len(name),
         NEW r, r = Request(labels)
  PROVE  Asks(r, name, n)
  <1>0. 0 \in Byte /\ 1 \in Byte /\ 0 \in Word /\ 1 \in Word /\ HEADER_ID \in Word /\ n \in Nat
    BY DEF Byte, Word, HEADER_ID, Packets
  <1>1. PICK h : h = Header(HEADER_ID, 1, 0, 0)
    OBVIOUS
  <1>2. h \in Packets /\ Len(h) = 12
    BY <1>0, <1>1, HeaderIs
  <1>3. PICK a : a = h \o name
    OBVIOUS
  <1>4. /\ a \in Packets /\ Len(a) = 12 + n
        /\ \A i \in Nat : At(a, 12 + i) = At(name, i)
    <2>1. Behind(a, h, 12, name)
      BY <1>2, <1>3, JoinedBehind
    <2> QED BY <2>1 DEF Behind
  <1>5. PICK z : z = <<0>>
    OBVIOUS
  <1>6. z \in Packets /\ Len(z) = 1 /\ At(z, 0) = 0
    BY <1>0, <1>5, OneByte
  <1>7. PICK b : b = a \o z
    OBVIOUS
  <1>8. /\ b \in Packets /\ Len(b) = 12 + n + 1
        /\ \A i \in Nat : i < 12 + n => At(b, i) = At(a, i)
        /\ At(b, 12 + n) = 0
    <2>1. /\ b \in Packets /\ Len(b) = 12 + n + 1
          /\ \A i \in Nat : i < 12 + n => At(b, i) = At(a, i)
          /\ \A i \in Nat : At(b, 12 + n + i) = At(z, i)
      <3>1. Behind(b, a, 12 + n, z)
        BY <1>4, <1>6, <1>7, JoinedBehind
      <3> QED BY <1>6, <3>1 DEF Behind
    <2>2. At(b, 12 + n + 0) = At(z, 0)
      BY <2>1
    <2>3. 12 + n + 0 = 12 + n
      BY <1>0
    <2>4. At(b, 12 + n) = 0
      BY <1>6, <2>2, <2>3
    <2> QED BY <2>1, <2>4
  <1>9. PICK m \in Nat : m = 13 + n
    BY <1>0
  <1>10. m = Len(b)
    BY <1>0, <1>8, <1>9
  <1>11. PICK c : c = b \o U16(1)
    OBVIOUS
  <1>12. /\ c \in Packets /\ Len(c) = m + 2
         /\ \A i \in Nat : i < m => At(c, i) = At(b, i)
         /\ At(c, m) = 0 /\ At(c, m + 1) = 1
    <2>1. /\ c \in Packets /\ Len(c) = m + 2
          /\ \A i \in Nat : i < m => At(c, i) = At(b, i)
          /\ At(c, m) = 1 \div 256 /\ At(c, m + 1) = 1 % 256
      <3>1. PairBehind(c, b, m, 1)
        BY <1>0, <1>8, <1>10, <1>11, PairAppended
      <3> QED BY <3>1 DEF PairBehind
    <2>2. 1 \div 256 = 0 /\ 1 % 256 = 1
      OBVIOUS
    <2> QED BY <2>1, <2>2
  <1>13. r = c \o U16(1)
    BY <1>1, <1>3, <1>5, <1>7, <1>11 DEF Request
  <1>14. PICK k \in Nat : k = m + 2
    OBVIOUS
  <1>15. /\ r \in Packets /\ Len(r) = k + 2
         /\ \A i \in Nat : i < k => At(r, i) = At(c, i)
         /\ At(r, k) = 0 /\ At(r, k + 1) = 1
    <2>1. k = Len(c)
      BY <1>12, <1>14
    <2>2. /\ r \in Packets /\ Len(r) = k + 2
          /\ \A i \in Nat : i < k => At(r, i) = At(c, i)
          /\ At(r, k) = 1 \div 256 /\ At(r, k + 1) = 1 % 256
      <3>1. PairBehind(r, c, k, 1)
        BY <1>0, <1>12, <1>13, <2>1, PairAppended
      <3> QED BY <3>1 DEF PairBehind
    <2>3. 1 \div 256 = 0 /\ 1 % 256 = 1
      OBVIOUS
    <2> QED BY <2>2, <2>3
  <1>16. At(r, m) = 0 /\ At(r, m + 1) = 1
    <2>1. m < k /\ m + 1 < k /\ m + 1 \in Nat
      BY <1>14
    <2> QED BY <1>12, <1>15, <2>1
  <1>17. \A i \in Nat : i < m => At(r, i) = At(b, i)
    <2> TAKE i \in Nat
    <2> HAVE i < m
    <2>1. i < k
      BY <1>14
    <2> QED BY <1>12, <1>15, <2>1
  <1>18. At(r, 12 + n) = 0
    <2>1. 12 + n \in Nat /\ 12 + n < m
      BY <1>0, <1>9
    <2> QED BY <1>8, <1>17, <2>1
  <1>19. ASSUME NEW i \in Nat, i < n PROVE At(r, 12 + i) = At(name, i)
    <2>1. 12 + i \in Nat /\ 12 + i < 12 + n /\ 12 + i < m
      BY <1>0, <1>9, <1>19
    <2>2. At(r, 12 + i) = At(b, 12 + i)
      BY <1>17, <2>1
    <2>3. At(b, 12 + i) = At(a, 12 + i)
      BY <1>8, <2>1
    <2> QED BY <1>4, <2>2, <2>3
  <1>20. m + 1 = 14 + n /\ k = 15 + n /\ k + 1 = 16 + n /\ k + 2 = 17 + n
    BY <1>0, <1>9, <1>14
  <1> QED BY <1>0, <1>9, <1>15, <1>16, <1>18, <1>19, <1>20 DEF Asks

LEMMA QuestionIs ==
  ASSUME NEW r \in Packets, NEW m \in Nat, Len(r) = 12 + m
  PROVE  /\ Question(r) \in Packets /\ Len(Question(r)) = m
         /\ \A i \in Nat : At(Question(r), i) = At(r, 12 + i)
  <1>1. PICK s : s = SubSeq(r, 13, 12 + m)
    OBVIOUS
  <1>2. Question(r) = s
    BY <1>1 DEF Question, HeaderSize
  <1>3. /\ s \in Seq(Byte) /\ Len(s) = m
        /\ \A i \in 1..m : s[i] = r[12 + i]
    <2>1. r \in Seq(Byte)
      BY DEF Packets
    <2>2. s \in Seq(Byte)
      BY <1>1, <2>1
    <2>3. Len(s) = m /\ \A i \in 1..m : s[i] = r[13 + i - 1]
      BY <1>1, <2>1
    <2>4. \A i \in 1..m : 13 + i - 1 = 12 + i
      OBVIOUS
    <2> QED BY <2>2, <2>3, <2>4
  <1>4. ASSUME NEW i \in Nat PROVE At(s, i) = At(r, 12 + i)
    <2>1. CASE i < m
      <3>1. i + 1 \in 1..m /\ 12 + i < 12 + m /\ 12 + (i + 1) = 12 + i + 1
        BY <2>1
      <3> QED BY <1>3, <2>1, <3>1 DEF At
    <2>2. CASE ~ (i < m)
      <3>1. ~ (12 + i < 12 + m)
        BY <2>2
      <3> QED BY <1>3, <2>2, <3>1 DEF At
    <2> QED BY <2>1, <2>2
  <1> QED BY <1>2, <1>3, <1>4 DEF Packets

Gives(r, answer, n) ==
  /\ r \in Packets
  /\ n \in Nat /\ Len(r) = 12 + n
  /\ At(r, 0) = 192 /\ At(r, 1) = 12
  /\ At(r, 2) = answer.type \div 256 /\ At(r, 3) = answer.type % 256
  /\ At(r, 4) = answer.class \div 256 /\ At(r, 5) = answer.class % 256
  /\ U16At(r, 2) = answer.type /\ U16At(r, 4) = answer.class
  /\ U16At(r, 10) = n
  /\ \A i \in Nat : At(r, 12 + i) = At(answer.rdata, i)

LEMMA RecordIs ==
  ASSUME NEW answer \in Answer, Len(answer.rdata) \in Word
  PROVE  Gives(Record(answer), answer, Len(answer.rdata))
  <1> DEFINE r == Record(answer)
  <1>0. /\ 0 \in Word /\ 60 \in Word /\ 192 \in Byte /\ 12 \in Byte
        /\ answer.type \in Word /\ answer.class \in Word /\ answer.rdata \in Packets
    <2>1. answer.type \in Word /\ answer.class \in Word /\ answer.rdata \in Seq(Byte)
      BY DEF Answer
    <2>2. 0 \in Word /\ 60 \in Word /\ 192 \in Byte /\ 12 \in Byte
      BY SmallWords
    <2> QED BY <2>1, <2>2 DEF Packets
  <1>1. PICK type \in Word, class \in Word, rdata \in Packets, n \in Word :
          type = answer.type /\ class = answer.class /\ rdata = answer.rdata /\ n = Len(rdata)
    BY <1>0
  <1>2. PICK a : a = <<192, 12>>
    OBVIOUS
  <1>3. a \in Packets /\ Len(a) = 2 /\ At(a, 0) = 192 /\ At(a, 1) = 12
    BY <1>0, <1>2, CellsOfPair
  <1>4. PICK b : b = a \o U16(type)
    OBVIOUS
  <1>5. /\ b \in Packets /\ Len(b) = 4
        /\ At(b, 0) = 192 /\ At(b, 1) = 12
        /\ At(b, 2) = type \div 256 /\ At(b, 3) = type % 256
    <2>1. /\ b \in Packets /\ Len(b) = 2 + 2
          /\ \A i \in Nat : i < 2 => At(b, i) = At(a, i)
          /\ At(b, 2) = type \div 256 /\ At(b, 2 + 1) = type % 256
      <3>0. a \in Packets /\ Len(a) = 2 /\ type \in Word /\ b = a \o U16(type)
        BY <1>1, <1>3, <1>4
      <3>1. PairBehind(b, a, 2, type)
        BY <3>0, PairAppended
      <3> QED BY <3>1 DEF PairBehind
    <2> QED BY <1>3, <2>1
  <1>6. PICK c : c = b \o U16(class)
    OBVIOUS
  <1>7. /\ c \in Packets /\ Len(c) = 6
        /\ At(c, 0) = 192 /\ At(c, 1) = 12
        /\ At(c, 2) = type \div 256 /\ At(c, 3) = type % 256
        /\ At(c, 4) = class \div 256 /\ At(c, 5) = class % 256
    <2>1. /\ c \in Packets /\ Len(c) = 4 + 2
          /\ \A i \in Nat : i < 4 => At(c, i) = At(b, i)
          /\ At(c, 4) = class \div 256 /\ At(c, 4 + 1) = class % 256
      <3>0. b \in Packets /\ Len(b) = 4 /\ class \in Word /\ c = b \o U16(class)
        BY <1>1, <1>5, <1>6
      <3>1. PairBehind(c, b, 4, class)
        BY <3>0, PairAppended
      <3> QED BY <3>1 DEF PairBehind
    <2> QED BY <1>5, <2>1
  <1>8. PICK d : d = c \o U16(0)
    OBVIOUS
  <1>9. d \in Packets /\ Len(d) = 8 /\ \A i \in Nat : i < 6 => At(d, i) = At(c, i)
    <2>0. c \in Packets /\ Len(c) = 6 /\ 0 \in Word /\ d = c \o U16(0)
      BY <1>0, <1>7, <1>8
    <2>1. PairBehind(d, c, 6, 0)
      BY <2>0, PairAppended
    <2> QED BY <2>1 DEF PairBehind
  <1>10. PICK e : e = d \o U16(60)
    OBVIOUS
  <1>11. e \in Packets /\ Len(e) = 10 /\ \A i \in Nat : i < 8 => At(e, i) = At(d, i)
    <2>1. PairBehind(e, d, 8, 60)
      BY <1>0, <1>9, <1>10, PairAppended
    <2> QED BY <2>1 DEF PairBehind
  <1>12. PICK f : f = e \o U16(n)
    OBVIOUS
  <1>13. /\ f \in Packets /\ Len(f) = 12 /\ \A i \in Nat : i < 10 => At(f, i) = At(e, i)
         /\ At(f, 10) = n \div 256 /\ At(f, 10 + 1) = n % 256
    <2>1. PairBehind(f, e, 10, n)
      BY <1>1, <1>11, <1>12, PairAppended
    <2> QED BY <2>1 DEF PairBehind
  <1>14. r = f \o rdata
    BY <1>1, <1>2, <1>4, <1>6, <1>8, <1>10, <1>12 DEF Record, HeaderSize
  <1> HIDE DEF r
  <1>15. /\ r \in Packets /\ Len(r) = 12 + Len(rdata)
         /\ \A i \in Nat : i < 12 => At(r, i) = At(f, i)
         /\ \A i \in Nat : At(r, 12 + i) = At(rdata, i)
    <2>1. Behind(r, f, 12, rdata)
      BY <1>1, <1>13, <1>14, JoinedBehind
    <2> QED BY <2>1 DEF Behind
  <1>16. \A i \in Nat : i < 6 => At(r, i) = At(c, i)
    BY <1>9, <1>11, <1>13, <1>15
  <1>17. /\ At(r, 0) = 192 /\ At(r, 1) = 12
         /\ At(r, 2) = type \div 256 /\ At(r, 3) = type % 256
         /\ At(r, 4) = class \div 256 /\ At(r, 5) = class % 256
    BY <1>7, <1>16
  <1>18. At(r, 10) = n \div 256 /\ At(r, 11) = n % 256
    BY <1>13, <1>15
  <1>19. U16At(r, 2) = type /\ U16At(r, 4) = class /\ U16At(r, 10) = n
    <2>1. U16At(r, 2) = 256 * At(r, 2) + At(r, 3) /\ U16At(r, 4) = 256 * At(r, 4) + At(r, 5)
      BY DEF U16At
    <2>2. U16At(r, 10) = 256 * At(r, 10) + At(r, 11)
      BY DEF U16At
    <2>3. /\ 256 * (type \div 256) + (type % 256) = type
          /\ 256 * (class \div 256) + (class % 256) = class
          /\ 256 * (n \div 256) + (n % 256) = n
      BY WordBytes
    <2> QED BY <1>17, <1>18, <2>1, <2>2, <2>3
  <1>20. n \in Nat
    BY WordBytes
  <1>21. Gives(r, answer, n)
    BY <1>1, <1>15, <1>17, <1>19, <1>20 DEF Gives
  <1> USE DEF r
  <1> QED BY <1>1, <1>21

Answers(reply) == FlattenSeq([i \in DOMAIN reply.answers |-> Record(reply.answers[i])])

StartsWith(u, s) ==
  /\ Len(u) \geq Len(s)
  /\ \A i \in Nat : i < Len(s) => At(u, i) = At(s, i)

LEMMA StillStartsWith ==
  ASSUME NEW u \in Packets, NEW s \in Packets, NEW t \in Packets, StartsWith(u, s)
  PROVE  StartsWith(u \o t, s)
  <1>1. PICK k \in Nat, m \in Nat, n \in Nat : k = Len(s) /\ m = Len(u) /\ n = Len(t)
    BY DEF Packets
  <1>2. Behind(u \o t, u, m, t)
    BY <1>1, JoinedBehind
  <1>3. Len(u \o t) = m + n /\ \A i \in Nat : i < m => At(u \o t, i) = At(u, i)
    BY <1>1, <1>2 DEF Behind
  <1>4. m \geq k /\ \A i \in Nat : i < k => At(u, i) = At(s, i)
    BY <1>1 DEF StartsWith
  <1>5. Len(u \o t) \geq k
    BY <1>3, <1>4
  <1>6. ASSUME NEW i \in Nat, i < k PROVE At(u \o t, i) = At(s, i)
    <2>1. i < m
      BY <1>4, <1>6
    <2> QED BY <1>3, <1>4, <1>6, <2>1
  <1> QED BY <1>1, <1>5, <1>6 DEF StartsWith

LEMMA FrontsGrow ==
  ASSUME NEW x, NEW m \in Nat, NEW f, \A k \in 1..m : f[k] = f[k - 1] \o x[k],
         \A k \in 1..m : x[k] \in Packets, \A k \in 0..m : f[k] \in Packets,
         NEW j \in 0..m
  PROVE  StartsWith(f[m], f[j])
  <1> DEFINE T == {d \in Nat : j + d \leq m => StartsWith(f[j + d], f[j])}
  <1>1. 0 \in T
    <2>1. f[j] \in Packets /\ j + 0 = j
      OBVIOUS
    <2>2. Len(f[j]) \in Nat
      BY <2>1 DEF Packets
    <2>3. StartsWith(f[j], f[j])
      BY <2>2 DEF StartsWith
    <2> QED BY <2>1, <2>3
  <1>2. ASSUME NEW d \in Nat, d \in T PROVE d + 1 \in T
    <2> SUFFICES ASSUME j + (d + 1) \leq m PROVE StartsWith(f[j + (d + 1)], f[j])
      OBVIOUS
    <2>1. PICK q \in 1..m : q = j + (d + 1)
      OBVIOUS
    <2>2. q - 1 = j + d /\ q - 1 \in 0..m
      BY <2>1
    <2>3. StartsWith(f[q - 1], f[j])
      BY <1>2, <2>2
    <2>4. f[q - 1] \in Packets /\ x[q] \in Packets /\ f[j] \in Packets
      BY <2>2
    <2>5. StartsWith(f[q - 1] \o x[q], f[j])
      BY <2>3, <2>4, StillStartsWith
    <2> HIDE DEF T
    <2>6. f[q] = f[q - 1] \o x[q]
      OBVIOUS
    <2> QED BY <2>1, <2>5, <2>6
  <1>3. m - j \in T
    <2> HIDE DEF T
    <2>1. m - j \in Nat
      OBVIOUS
    <2> QED BY <1>1, <1>2, <2>1, AllNumbers
  <1>4. j + (m - j) = m /\ j + (m - j) \leq m
    OBVIOUS
  <1> QED BY <1>3, <1>4

(* Where the first two answers are.                                        *)
LEMMA AnswersAre ==
  ASSUME NEW reply, IsReply(reply), NEW m, m = Len(reply.answers),
         NEW a, a = Answers(reply)
  PROVE  /\ m \in Nat /\ m \in Word
         /\ \A i \in 1..m : reply.answers[i] \in Answer /\ Len(reply.answers[i].rdata) \in Word
         /\ a \in Packets
         /\ m \geq 1 => StartsWith(a, Record(reply.answers[1]))
         /\ m \geq 2 => StartsWith(a, Record(reply.answers[1]) \o Record(reply.answers[2]))
  <1>1. /\ reply.answers \in Seq(Answer) /\ m \in Word
        /\ \A i \in DOMAIN reply.answers : Len(reply.answers[i].rdata) \in Word
    BY DEF IsReply
  <1>2. PICK answers \in Seq(Answer) : answers = reply.answers
    BY <1>1
  <1>3. m \in Nat /\ DOMAIN answers = 1..m
    BY <1>2
  <1>4. \A i \in 1..m : answers[i] \in Answer /\ Len(answers[i].rdata) \in Word
    BY <1>1, <1>2, <1>3
  <1>5. PICK x : x = [i \in 1..m |-> Record(answers[i])]
    OBVIOUS
  <1>6. \A i \in 1..m : x[i] \in Packets /\ x[i] = Record(answers[i])
    <2> TAKE i \in 1..m
    <2>1. Gives(Record(answers[i]), answers[i], Len(answers[i].rdata))
      BY <1>4, RecordIs
    <2> QED BY <1>5, <2>1 DEF Gives
  <1>7. a = FlattenSeq(x)
    BY <1>2, <1>3, <1>5 DEF Answers
  <1>8. x \in Seq(Packets) /\ Len(x) = m
    <2>1. x = [i \in 1..m |-> x[i]]
      BY <1>5
    <2> QED BY <1>3, <1>6, <2>1, SeqOfFunction
  <1>9. PICK f : IsFront(Byte, x, m, f) /\ FlattenSeq(x) = f[m]
    <2>1. PICK S : S = Byte
      OBVIOUS
    <2>2. x \in Seq(Seq(S)) /\ m = Len(x)
      BY <1>8, <2>1 DEF Packets
    <2>3. \E f : IsFront(S, x, m, f) /\ FlattenSeq(x) = f[m]
      BY <2>2, FlattenHasFronts
    <2> QED BY <2>1, <2>3
  <1>10. /\ f[0] = << >>
         /\ \A k \in 1..m : f[k] = f[k - 1] \o x[k]
         /\ \A k \in 0..m : f[k] \in Packets
    BY <1>9 DEF IsFront, Packets
  <1>11. m \in 0..m
    BY <1>3
  <1>12. a \in Packets
    BY <1>7, <1>9, <1>10, <1>11
  <1>13. ASSUME NEW j \in 0..m PROVE StartsWith(a, f[j])
    <2>1. \A k \in 1..m : x[k] \in Packets
      BY <1>6
    <2>2. StartsWith(f[m], f[j])
      BY <1>3, <1>10, <2>1, FrontsGrow
    <2> QED BY <1>7, <1>9, <2>2
  <1>14. ASSUME m \geq 1 PROVE f[1] = Record(answers[1]) /\ StartsWith(a, f[1])
    <2>1. PICK k \in 1..m : k = 1
      BY <1>3, <1>14
    <2>2. f[k] = f[k - 1] \o x[k]
      BY <1>10
    <2>3. k - 1 = 0 /\ k \in 0..m
      BY <2>1
    <2>4. f[k] = << >> \o x[k]
      BY <1>10, <2>2, <2>3
    <2>5. x[k] \in Seq(Byte)
      BY <1>6 DEF Packets
    <2>6. << >> \o x[k] = x[k]
      BY <2>5
    <2>7. f[1] = Record(answers[1])
      BY <1>6, <2>1, <2>4, <2>6
    <2>8. StartsWith(a, f[k])
      BY <1>13, <2>3
    <2> QED BY <2>1, <2>7, <2>8
  <1>15. ASSUME m \geq 2
         PROVE  StartsWith(a, Record(answers[1]) \o Record(answers[2]))
    <2>1. PICK k \in 1..m : k = 2
      BY <1>3, <1>15
    <2>2. f[k] = f[k - 1] \o x[k]
      BY <1>10
    <2>3. k - 1 = 1 /\ k \in 0..m /\ m \geq 1
      BY <2>1
    <2>4. f[k - 1] = Record(answers[1])
      BY <1>14, <2>3
    <2>5. x[k] = Record(answers[2])
      BY <1>6, <2>1
    <2>6. StartsWith(a, f[k])
      BY <1>13, <2>3
    <2> QED BY <2>2, <2>4, <2>5, <2>6
  <1> QED BY <1>1, <1>2, <1>3, <1>4, <1>12, <1>14, <1>15

(* The flags that the server sets.                                         *)
Flags(reply) == 128 + 4 * reply.aa + 2 * reply.tc + 1

Rcodes(reply) == 128 * reply.ra + reply.rcode

Says(packet, name, n, reply, a) ==
  /\ packet \in Packets /\ n \in Nat /\ a \in Packets
  /\ Len(packet) = 17 + n + Len(a)
  /\ U16At(packet, 0) = reply.id
  /\ At(packet, 2) = Flags(reply) /\ At(packet, 3) = Rcodes(reply)
  /\ At(packet, 4) = 0
  /\ U16At(packet, 6) = Len(reply.answers)
  /\ \A i \in Nat : i < n => At(packet, 12 + i) = At(name, i)
  /\ At(packet, 12 + n) = 0
  /\ At(packet, 13 + n) = 0 /\ At(packet, 14 + n) = 1
  /\ At(packet, 15 + n) = 0 /\ At(packet, 16 + n) = 1
  /\ \A i \in Nat : At(packet, 17 + n + i) = At(a, i)

LEMMA PacketIs ==
  ASSUME NEW labels, NEW name \in Packets, name = NameToDNS(labels), NEW n, n = Len(name),
         NEW reply, IsReply(reply), NEW packet, packet = Packet(reply, Request(labels)),
         NEW a, a = Answers(reply)
  PROVE  Says(packet, name, n, reply, a)
  <1>1. /\ reply.id \in Word /\ reply.aa \in {0, 1} /\ reply.tc \in {0, 1}
        /\ reply.ra \in {0, 1} /\ reply.rcode \in 0..15
    BY DEF IsReply
  <1>2. Flags(reply) \in Byte /\ Rcodes(reply) \in Byte
    BY SMTT(30), <1>1, SmallWords DEF Flags, Rcodes
  <1>3. PICK m \in Word : m = Len(reply.answers)
    BY AnswersAre
  <1>4. a \in Packets
    BY AnswersAre
  <1>5. PICK h : h = Header(reply.id, Flags(reply), Rcodes(reply), m)
    OBVIOUS
  <1>6. /\ h \in Packets /\ Len(h) = 12
        /\ At(h, 0) = reply.id \div 256 /\ At(h, 1) = reply.id % 256
        /\ At(h, 2) = Flags(reply) /\ At(h, 3) = Rcodes(reply)
        /\ At(h, 4) = 0
        /\ At(h, 6) = m \div 256 /\ At(h, 7) = m % 256
    BY <1>1, <1>2, <1>5, HeaderIs
  <1>7. PICK r : r = Request(labels)
    OBVIOUS
  <1>8. /\ r \in Packets /\ n \in Nat /\ Len(r) = 17 + n
        /\ \A i \in Nat : i < n => At(r, 12 + i) = At(name, i)
        /\ At(r, 12 + n) = 0
        /\ At(r, 13 + n) = 0 /\ At(r, 14 + n) = 1
        /\ At(r, 15 + n) = 0 /\ At(r, 16 + n) = 1
    <2>1. Asks(r, name, n)
      BY <1>7, RequestIs
    <2> QED BY <2>1 DEF Asks
  <1>9. PICK q : q = Question(r)
    OBVIOUS
  <1>10. /\ q \in Packets /\ Len(q) = 5 + n
         /\ \A i \in Nat : At(q, i) = At(r, 12 + i)
    <2>1. PICK k \in Nat : k = 5 + n
      BY <1>8
    <2>2. Len(r) = 12 + k
      BY <1>8, <2>1
    <2> QED BY <1>8, <1>9, <2>1, <2>2, QuestionIs
  <1>11. PICK u : u = h \o q
    OBVIOUS
  <1>12. PICK w \in Nat : w = 17 + n
    BY <1>8
  <1>13. /\ u \in Packets /\ Len(u) = w
         /\ \A i \in Nat : i < 12 => At(u, i) = At(h, i)
         /\ \A i \in Nat : At(u, 12 + i) = At(r, 12 + i)
    <2>1. Behind(u, h, 12, q)
      BY <1>6, <1>10, <1>11, JoinedBehind
    <2>2. /\ u \in Packets /\ Len(u) = 12 + Len(q)
          /\ \A i \in Nat : i < 12 => At(u, i) = At(h, i)
          /\ \A i \in Nat : At(u, 12 + i) = At(q, i)
      BY <2>1 DEF Behind
    <2>3. 12 + Len(q) = w
      BY <1>8, <1>10, <1>12
    <2> QED BY <1>10, <2>2, <2>3
  <1>14. packet = u \o a
    BY <1>3, <1>5, <1>7, <1>9, <1>11 DEF Packet, Answers, Flags, Rcodes
  <1>15. /\ packet \in Packets /\ Len(packet) = w + Len(a)
         /\ \A i \in Nat : i < w => At(packet, i) = At(u, i)
         /\ \A i \in Nat : At(packet, w + i) = At(a, i)
    <2>1. Behind(packet, u, w, a)
      BY <1>4, <1>13, <1>14, JoinedBehind
    <2> QED BY <2>1 DEF Behind
  <1>16. \A i \in Nat : i < 12 => At(packet, i) = At(h, i)
    <2> TAKE i \in Nat
    <2> HAVE i < 12
    <2>1. i < w
      BY <1>8, <1>12
    <2> QED BY <1>13, <1>15, <2>1
  <1>17. \A i \in Nat : i < 5 + n => At(packet, 12 + i) = At(r, 12 + i)
    <2> TAKE i \in Nat
    <2> HAVE i < 5 + n
    <2>1. 12 + i < w /\ 12 + i \in Nat
      BY <1>8, <1>12
    <2> QED BY <1>13, <1>15, <2>1
  <1>18. /\ At(packet, 2) = Flags(reply) /\ At(packet, 3) = Rcodes(reply)
         /\ At(packet, 4) = 0
    BY <1>6, <1>16
  <1>19. U16At(packet, 0) = reply.id
    <2>1. At(packet, 0) = reply.id \div 256 /\ At(packet, 0 + 1) = reply.id % 256
      BY <1>6, <1>16
    <2> QED BY <1>1, <2>1, WordBytes DEF U16At
  <1>20. U16At(packet, 6) = Len(reply.answers)
    <2>1. At(packet, 6) = m \div 256 /\ At(packet, 6 + 1) = m % 256
      BY <1>6, <1>16
    <2> QED BY ZenonT(30), <1>3, <2>1, WordBytes DEF U16At
  <1>21. ASSUME NEW i \in Nat, i < n PROVE At(packet, 12 + i) = At(name, i)
    <2>1. i < 5 + n
      BY <1>8, <1>21
    <2> QED BY <1>8, <1>17, <1>21, <2>1
  <1>22. /\ At(packet, 12 + n) = 0
         /\ At(packet, 13 + n) = 0 /\ At(packet, 14 + n) = 1
         /\ At(packet, 15 + n) = 0 /\ At(packet, 16 + n) = 1
    <2>1. ASSUME NEW d \in 0..4 PROVE At(packet, 12 + (n + d)) = At(r, 12 + (n + d))
      <3>1. n + d \in Nat /\ n + d < 5 + n
        BY <1>8
      <3> QED BY <1>17, <3>1
    <2>2. /\ At(packet, 12 + (n + 0)) = At(r, 12 + (n + 0))
          /\ At(packet, 12 + (n + 1)) = At(r, 12 + (n + 1))
          /\ At(packet, 12 + (n + 2)) = At(r, 12 + (n + 2))
          /\ At(packet, 12 + (n + 3)) = At(r, 12 + (n + 3))
          /\ At(packet, 12 + (n + 4)) = At(r, 12 + (n + 4))
      BY <2>1
    <2>3. /\ 12 + (n + 0) = 12 + n /\ 12 + (n + 1) = 13 + n /\ 12 + (n + 2) = 14 + n
          /\ 12 + (n + 3) = 15 + n /\ 12 + (n + 4) = 16 + n
      BY <1>8
    <2> QED BY <1>8, <2>2, <2>3
  <1> QED BY <1>4, <1>8, <1>12, <1>15, <1>18, <1>19, <1>20, <1>21, <1>22 DEF Says

-----------------------------------------------------------------------------
(* What the parser makes of them.                                          *)
NameAt(packet, offset, name, n) ==
  /\ n \leq Len(packet)
  /\ \A i \in Nat : i < n => At(packet, offset + i) = At(name, i)
  /\ At(packet, offset + n) = 0

Understood(packet, offset, n, text) ==
  /\ NameEnds(packet, offset)
  /\ DNSToName(packet, offset) = text
  /\ Len(DNSToName(packet, offset)) = n - 1

LEMMA NameIsRead ==
  ASSUME NEW name, NEW n, NEW text, Spells(name, n, text),
         NEW packet \in Packets, NEW offset \in Nat, NameAt(packet, offset, name, n)
  PROVE  Understood(packet, offset, n, text)
  <1>1. /\ n \in Nat /\ n \geq 1 /\ n = Len(name) /\ name \in Packets
        /\ \A i \in 1..n : name[i] \in 1..191
        /\ text = [i \in 1..(n - 1) |-> Character(name[i + 1])]
    BY DEF Spells
  <1>2. PICK m : m \in Nat /\ m = n - 1
    <2>1. n \in Nat /\ n \geq 1
      BY <1>1
    <2>2. n - 1 \in Nat
      BY <2>1
    <2> QED BY <2>2
  <1>3. ASSUME NEW j \in 1..m
        PROVE  /\ At(packet, offset + j) = name[j + 1]
               /\ At(packet, offset + j) # 0 /\ ~ IsPointer(At(packet, offset + j))
    <2>1. j \in Nat /\ j < n /\ j + 1 \in 1..n
      BY <1>1, <1>2
    <2>2. At(packet, offset + j) = At(name, j)
      BY <2>1 DEF NameAt
    <2>3. At(name, j) = name[j + 1]
      BY <1>1, <2>1 DEF At
    <2>4. PICK c \in 1..191 : c = name[j + 1]
      BY <1>1, <2>1
    <2>5. c # 0 /\ ~ IsPointer(c)
      BY DEF IsPointer
    <2> QED BY <2>2, <2>3, <2>4, <2>5
  <1>4. At(packet, offset + 1 + m) = 0
    <2>1. offset + 1 + m = offset + n
      BY <1>1, <1>2
    <2> QED BY <2>1 DEF NameAt
  <1>5. m \leq Len(packet)
    <2>1. Len(packet) \in Nat
      BY DEF Packets
    <2> QED BY <1>1, <1>2, <2>1 DEF NameAt
  <1>6. ReadsStraight(packet, offset, m)
    <2>1. GoesStraight(packet, offset, m)
      BY <1>2, <1>3, <1>4, <1>5 DEF GoesStraight
    <2> QED BY <2>1, StraightWalk
  <1>7. DNSToName(packet, offset) = text
    BY <1>1, <1>2, <1>3, <1>6 DEF ReadsStraight
  <1>8. Len(DNSToName(packet, offset)) = m
    BY <1>6, LengthsAreNumbers DEF ReadsStraight
  <1>9. NameEnds(packet, offset)
    BY <1>6 DEF ReadsStraight
  <1> QED BY <1>1, <1>2, <1>7, <1>8, <1>9 DEF Understood

(* The replies that the client goes on to read.                            *)
LEMMA HeaderIsRead ==
  ASSUME NEW reply, IsReply(reply), U16At(buffer, 0) = reply.id,
         At(buffer, 2) = Flags(reply), At(buffer, 3) = Rcodes(reply)
  PROVE  /\ Compromised <=> ~ Usable(reply)
         /\ NotFound <=> reply.rcode = 3
         /\ Auth = IF reply.aa = 1 THEN "auth" ELSE "nonauth"
  <1>1. /\ reply.aa \in {0, 1} /\ reply.tc \in {0, 1}
        /\ reply.ra \in {0, 1} /\ reply.rcode \in 0..15
    BY DEF IsReply
  <1>2. PICK aa \in {0, 1}, tc \in {0, 1}, ra \in {0, 1}, rcode \in 0..15 :
          aa = reply.aa /\ tc = reply.tc /\ ra = reply.ra /\ rcode = reply.rcode
    BY <1>1
  <1>3. PICK f, g : f = 128 + 4 * aa + 2 * tc + 1 /\ g = 128 * ra + rcode
    OBVIOUS
  <1>4. /\ Bit(f, 128) = 1 /\ Bit(f, 1) = 1
        /\ Bit(f, 2) = tc /\ Bit(f, 4) = aa
    BY <1>3 DEF Bit
  <1>5. Bit(g, 128) = ra /\ g % 16 = rcode
    <2>1. CASE ra = 0
      <3>1. g = rcode
        BY <1>3, <2>1
      <3> QED BY <2>1, <3>1 DEF Bit
    <2>2. CASE ra = 1
      <3>1. g = 128 + rcode
        BY <1>3, <2>2
      <3>2. g \div 128 = 1 /\ g % 16 = rcode
        BY <3>1
      <3> QED BY <2>2, <3>2 DEF Bit
    <2> QED BY <2>1, <2>2
  <1>6. At(buffer, 2) = f /\ At(buffer, 3) = g
    BY <1>2, <1>3 DEF Flags, Rcodes
  <1>7. Compromised <=> ~ Usable(reply)
    <2>1. Compromised <=> reply.id # HEADER_ID \/ tc # 0 \/ ra # 1
      BY <1>4, <1>5, <1>6 DEF Compromised
    <2> QED BY <1>2, <2>1 DEF Usable
  <1>8. NotFound <=> reply.rcode = 3
    BY <1>2, <1>5, <1>6 DEF NotFound
  <1>9. Auth = IF reply.aa = 1 THEN "auth" ELSE "nonauth"
    BY <1>2, <1>4, <1>6 DEF Auth
  <1> QED BY <1>7, <1>8, <1>9

LEMMA QuestionIsRead ==
  ASSUME NEW name, NEW n, NEW text, Spells(name, n, text),
         NEW reply, NEW packet, NEW a, Says(packet, name, n, reply, a)
  PROVE  Understood(packet, 12, n, text) /\ U16At(packet, 13 + n) = 1
  <1>3. /\ packet \in Packets /\ n \in Nat /\ a \in Packets
        /\ Len(packet) = 17 + n + Len(a)
        /\ \A i \in Nat : i < n => At(packet, 12 + i) = At(name, i)
        /\ At(packet, 12 + n) = 0
        /\ At(packet, 13 + n) = 0 /\ At(packet, 14 + n) = 1
    BY DEF Says
  <1>4. n \leq Len(packet)
    <2>1. Len(a) \in Nat
      BY <1>3 DEF Packets
    <2> QED BY <1>3, <2>1
  <1>5. Understood(packet, 12, n, text)
    <2>1. NameAt(packet, 12, name, n)
      BY <1>3, <1>4 DEF NameAt
    <2> QED BY <1>3, <2>1, NameIsRead
  <1>6. U16At(packet, 13 + n) = 1
    <2>1. 13 + n + 1 = 14 + n
      BY <1>3
    <2> QED BY <1>3, <2>1 DEF U16At
  <1> QED BY <1>5, <1>6

(* The client is behind the name of the first answer, at its type.         *)
FirstRead(packet, n, answer, k) ==
  /\ packet \in Packets /\ n \in Nat /\ answer \in Answer /\ k \in Nat /\ k = Len(answer.rdata)
  /\ NameEnds(packet, 15 + n)
  /\ Len(DNSToName(packet, 15 + n)) = 4
  /\ U16At(packet, 19 + n) = answer.type
  /\ U16At(packet, 21 + n) = answer.class
  /\ U16At(packet, 27 + n) = k
  /\ \A i \in Nat : i < k => At(packet, 29 + n + i) = At(answer.rdata, i)
  /\ Len(packet) \geq 29 + n + k

LEMMA FirstAnswerIsRead ==
  ASSUME NEW reply, IsReply(reply), Usable(reply), Len(reply.answers) \geq 1,
         NEW packet, NEW name, NEW n, Says(packet, name, n, reply, Answers(reply)),
         NEW answer, answer = reply.answers[1]
  PROVE  FirstRead(packet, n, answer, Len(answer.rdata))
  <1>2. PICK a : a = Answers(reply)
    OBVIOUS
  <1>3. PICK m : m = Len(reply.answers)
    OBVIOUS
  <1>4. /\ packet \in Packets /\ n \in Nat /\ a \in Packets
        /\ Len(packet) = 17 + n + Len(a)
        /\ At(packet, 2) = Flags(reply) /\ At(packet, 3) = Rcodes(reply)
        /\ At(packet, 4) = 0
        /\ At(packet, 15 + n) = 0 /\ At(packet, 16 + n) = 1
        /\ \A i \in Nat : At(packet, 17 + n + i) = At(a, i)
    BY <1>2 DEF Says
  <1>5. PICK r : r = Record(answer)
    OBVIOUS
  <1>6. /\ answer \in Answer /\ Len(answer.rdata) \in Word /\ StartsWith(a, r)
    <2>1. /\ m \in Nat
          /\ \A i \in 1..m : reply.answers[i] \in Answer /\ Len(reply.answers[i].rdata) \in Word
          /\ m \geq 1 => StartsWith(a, Record(reply.answers[1]))
      BY <1>2, <1>3, AnswersAre
    <2>2. 1 \in 1..m /\ m \geq 1
      BY <1>3, <2>1
    <2> QED BY <1>5, <2>1, <2>2
  <1>7. PICK rdata, k : k \in Word /\ rdata = answer.rdata /\ k = Len(rdata)
    BY <1>6
  <1>8. /\ r \in Packets
        /\ Len(r) = 12 + k
        /\ At(r, 0) = 192
        /\ U16At(r, 2) = answer.type /\ U16At(r, 4) = answer.class
        /\ U16At(r, 10) = k
        /\ \A i \in Nat : At(r, 12 + i) = At(rdata, i)
    <2>1. Gives(Record(answer), answer, Len(answer.rdata))
      BY <1>6, RecordIs
    <2> QED BY <1>5, <1>7, <2>1 DEF Gives
  <1>9. k \in Nat
    BY <1>7, WordBytes
  <1>10. \A i \in Nat : i < 12 + k => At(packet, 17 + n + i) = At(r, i)
    <2>1. \A i \in Nat : i < 12 + k => At(a, i) = At(r, i)
      BY <1>6, <1>8 DEF StartsWith
    <2> QED BY <1>4, <2>1
  <1>11. ASSUME NEW i \in Nat, i + 1 < 12 + k PROVE U16At(packet, 17 + n + i) = U16At(r, i)
    <2>1. i < 12 + k /\ i + 1 \in Nat
      BY <1>9, <1>11
    <2>2. At(packet, 17 + n + i) = At(r, i)
      BY <1>10, <2>1
    <2>3. At(packet, 17 + n + (i + 1)) = At(r, i + 1)
      BY <1>10, <1>11, <2>1
    <2>4. 17 + n + (i + 1) = 17 + n + i + 1
      BY <1>4
    <2> QED BY <2>2, <2>3, <2>4 DEF U16At
  <1>12. /\ U16At(packet, 17 + n + 2) = answer.type
         /\ U16At(packet, 17 + n + 4) = answer.class
         /\ U16At(packet, 17 + n + 10) = k
    <2>1. 2 + 1 < 12 + k /\ 4 + 1 < 12 + k /\ 10 + 1 < 12 + k
      BY <1>9
    <2> QED BY <1>8, <1>11, <2>1
  <1>13. ASSUME NEW i \in Nat, i < k PROVE At(packet, 29 + n + i) = At(rdata, i)
    <2>1. 12 + i < 12 + k /\ 12 + i \in Nat /\ 17 + n + (12 + i) = 29 + n + i
      BY <1>4, <1>9, <1>13
    <2>2. At(packet, 17 + n + (12 + i)) = At(r, 12 + i)
      BY <1>10, <2>1
    <2> QED BY <1>8, <2>1, <2>2
  <1>14. Len(packet) \geq 29 + n + k
    <2>1. Len(a) \geq 12 + k
      BY <1>6, <1>8 DEF StartsWith
    <2>2. Len(a) \in Nat
      BY <1>4 DEF Packets
    <2> QED BY <1>4, <1>9, <2>1, <2>2
  <1>15. NameEnds(packet, 15 + n) /\ Len(DNSToName(packet, 15 + n)) = 4
    <2>1. PICK offset \in Nat : offset = 15 + n
      BY <1>4
    <2>2. At(packet, offset) = 0 /\ At(packet, offset + 1) = 1
      <3>1. offset + 1 = 16 + n
        BY <1>4, <2>1
      <3> QED BY <1>4, <2>1, <3>1
    <2>3. At(packet, offset + 2) = 192
      <3>1. offset + 2 = 17 + n + 0 /\ 0 < 12 + k /\ 0 \in Nat
        BY <1>4, <1>9, <2>1
      <3>2. At(packet, 17 + n + 0) = At(r, 0)
        BY <1>10, <3>1
      <3> QED BY <1>8, <3>1, <3>2
    <2>4. 4 \leq Len(packet)
      <3>1. Len(packet) \in Nat
        BY <1>4 DEF Packets
      <3> QED BY <1>4, <1>9, <1>14, <3>1
    <2>5. PICK aa \in {0, 1}, rcode \in 0..15 : aa = reply.aa /\ rcode = reply.rcode
      BY DEF IsReply
    <2>6. Flags(reply) = 129 + 4 * aa /\ Rcodes(reply) = 128 + rcode
      BY <2>5 DEF Flags, Rcodes, Usable
    <2>7. At(packet, 2) # 0 /\ ~ IsPointer(At(packet, 2))
      <3>1. PICK c : c = 129 + 4 * aa
        OBVIOUS
      <3>2. c # 0 /\ ~ IsPointer(c)
        BY SMTT(30), <2>5, <3>1 DEF IsPointer
      <3> QED BY <1>4, <2>6, <3>1, <3>2
    <2>8. At(packet, 3) # 0 /\ ~ IsPointer(At(packet, 3))
      <3>1. PICK c : c = 128 + rcode
        OBVIOUS
      <3>0. rcode \in Nat /\ rcode < 16
        BY SMTT(30), <2>5
      <3>2. c # 0 /\ c \div 64 = 2
        BY <3>0, <3>1
      <3>3. ~ IsPointer(c)
        BY <3>2 DEF IsPointer
      <3> QED BY <1>4, <2>6, <3>1, <3>2, <3>3
    <2> QED BY <1>4, <2>1, <2>2, <2>3, <2>4, <2>7, <2>8, WalkThroughHeader
  <1>16. 17 + n + 2 = 19 + n /\ 17 + n + 4 = 21 + n /\ 17 + n + 10 = 27 + n
    BY <1>4
  <1> QED BY <1>4, <1>6, <1>7, <1>9, <1>12, <1>13, <1>14, <1>15, <1>16 DEF FirstRead

(* Replies to what the client asks: the first answer is an address, or an  *)
(* alias written out in full, and the second one, if there is one, is of a *)
(* type below 256.  All of them are of class 1.                            *)
IsAddress(answer) ==
  answer.type = Types.A /\ answer.class = 1 /\ Len(answer.rdata) = 4

IsAlias(answer) ==
  /\ answer.type = Types.CNAME /\ answer.class = 1
  /\ PlainName(answer.alias)
  /\ answer.rdata = NameToDNS(answer.alias) \o <<0>>

IsClear(reply) ==
  /\ Len(reply.answers) \geq 1 => IsAddress(reply.answers[1]) \/ IsAlias(reply.answers[1])
  /\ Len(reply.answers) \geq 2 => reply.answers[2].type < 256 /\ reply.answers[2].class = 1

LEMMA AddressIsRead ==
  ASSUME NEW packet, NEW n, NEW answer, NEW k, FirstRead(packet, n, answer, k), IsAddress(answer)
  PROVE  DNSToIP(packet, 29 + n) = answer.rdata
  <1>1. /\ n \in Nat /\ k = 4 /\ answer.rdata \in Seq(Byte) /\ Len(answer.rdata) = 4
        /\ \A i \in Nat : i < k => At(packet, 29 + n + i) = At(answer.rdata, i)
    <2>1. answer \in Answer /\ k = Len(answer.rdata) /\ n \in Nat
      BY DEF FirstRead
    <2>2. answer.rdata \in Seq(Byte)
      BY <2>1 DEF Answer
    <2>3. \A i \in Nat : i < k => At(packet, 29 + n + i) = At(answer.rdata, i)
      BY DEF FirstRead
    <2> QED BY <2>1, <2>2, <2>3 DEF IsAddress
  <1>2. PICK d : d = answer.rdata
    OBVIOUS
  <1>3. d = [i \in 1..4 |-> d[i]]
    <2>1. d \in Seq(Byte) /\ 4 = Len(d)
      BY <1>1, <1>2
    <2> QED BY <2>1, FunctionOfSeq
  <1>4. ASSUME NEW i \in 1..4 PROVE At(packet, 29 + n + i - 1) = d[i]
    <2>1. PICK j \in Nat : j = i - 1
      OBVIOUS
    <2>2. j < 4 /\ 29 + n + i - 1 = 29 + n + j /\ j + 1 = i
      BY <1>1, <2>1
    <2>3. At(packet, 29 + n + j) = At(d, j)
      BY <1>1, <1>2, <2>2
    <2>4. At(d, j) = d[i]
      BY <1>1, <1>2, <2>2 DEF At
    <2> QED BY <2>2, <2>3, <2>4
  <1>5. DNSToIP(packet, 29 + n) = [i \in 1..4 |-> d[i]]
    BY <1>4 DEF DNSToIP
  <1> QED BY <1>2, <1>3, <1>5

LEMMA AliasIsRead ==
  ASSUME NEW packet, NEW n, NEW answer, NEW k, FirstRead(packet, n, answer, k), IsAlias(answer)
  PROVE  /\ Understood(packet, 29 + n, k - 1, Text(answer.alias))
         /\ At(packet, 29 + n + (k - 1)) = 0
         /\ k \geq 2
  <1>1. /\ packet \in Packets /\ n \in Nat /\ k \in Nat /\ k = Len(answer.rdata)
        /\ \A i \in Nat : i < k => At(packet, 29 + n + i) = At(answer.rdata, i)
        /\ Len(packet) \geq 29 + n + k
    BY DEF FirstRead
  <1>2. PICK name, text : name = NameToDNS(answer.alias) /\ text = Text(answer.alias)
    OBVIOUS
  <1>3. PICK m : m = Len(name)
    OBVIOUS
  <1>4. Spells(name, m, text)
    BY <1>2, <1>3, NameReadsAsText DEF IsAlias
  <1>5. name \in Packets /\ m \in Nat /\ m \geq 1
    BY <1>4 DEF Spells
  <1>6. PICK z : z = <<0>>
    OBVIOUS
  <1>7. z \in Packets /\ Len(z) = 1 /\ At(z, 0) = 0
    <2>1. 0 \in Byte
      BY SmallWords
    <2> QED BY <1>6, <2>1, OneByte
  <1>8. PICK d : d = answer.rdata
    OBVIOUS
  <1>9. /\ d \in Packets /\ Len(d) = m + 1
        /\ \A i \in Nat : i < m => At(d, i) = At(name, i)
        /\ At(d, m) = 0
    <2>1. Behind(name \o z, name, m, z)
      BY <1>3, <1>5, <1>7, JoinedBehind
    <2>2. d = name \o z
      BY <1>2, <1>6, <1>8 DEF IsAlias
    <2>3. /\ d \in Packets /\ Len(d) = m + Len(z)
          /\ \A i \in Nat : i < m => At(d, i) = At(name, i)
          /\ \A i \in Nat : At(d, m + i) = At(z, i)
      BY <2>1, <2>2 DEF Behind
    <2>4. At(d, m + 0) = At(z, 0) /\ m + 0 = m
      BY <1>5, <2>3
    <2> QED BY <1>7, <2>3, <2>4
  <1>10. k = m + 1
    BY <1>1, <1>8, <1>9
  <1>11. PICK offset \in Nat : offset = 29 + n
    BY <1>1
  <1>12. ASSUME NEW i \in Nat, i \leq m PROVE At(packet, offset + i) = At(d, i)
    <2>1. i < k
      BY <1>5, <1>10, <1>12
    <2> QED BY <1>1, <1>8, <1>11, <2>1
  <1>13. NameAt(packet, offset, name, m)
    <2>1. m \leq Len(packet)
      <3>1. Len(packet) \in Nat
        BY <1>1 DEF Packets
      <3> QED BY <1>1, <1>5, <1>10, <3>1
    <2>2. At(packet, offset + m) = 0
      BY <1>5, <1>9, <1>12
    <2>3. ASSUME NEW i \in Nat, i < m PROVE At(packet, offset + i) = At(name, i)
      <3>1. i \leq m
        BY <1>5, <2>3
      <3> QED BY <1>9, <1>12, <2>3, <3>1
    <2> QED BY <2>1, <2>2, <2>3 DEF NameAt
  <1>14. Understood(packet, offset, m, text)
    BY <1>1, <1>4, <1>13, NameIsRead
  <1>15. m = k - 1 /\ k \geq 2
    BY <1>5, <1>10
  <1>16. At(packet, offset + m) = 0
    BY <1>13 DEF NameAt
  <1> QED BY <1>2, <1>11, <1>14, <1>15, <1>16

(* Where the second answer begins.                                         *)
SecondAt(packet, c) ==
  /\ At(packet, c) = 192 /\ At(packet, c + 1) = 12
  /\ At(packet, c + 2) = 0 /\ At(packet, c + 4) = 0

LEMMA SecondAnswerIs ==
  ASSUME NEW reply, IsReply(reply), Len(reply.answers) \geq 2, IsClear(reply),
         NEW packet, NEW name, NEW n, Says(packet, name, n, reply, Answers(reply))
  PROVE  /\ SecondAt(packet, 29 + n + Len(reply.answers[1].rdata))
         /\ 29 + n + Len(reply.answers[1].rdata) + 4 < Len(packet)
  <1>1. PICK a : a = Answers(reply)
    OBVIOUS
  <1>2. PICK m : m = Len(reply.answers)
    OBVIOUS
  <1>3. n \in Nat /\ \A i \in Nat : At(packet, 17 + n + i) = At(a, i)
    BY <1>1 DEF Says
  <1>4. PICK x, y : x = reply.answers[1] /\ y = reply.answers[2]
    OBVIOUS
  <1>5. PICK r, s : r = Record(x) /\ s = Record(y)
    OBVIOUS
  <1>6. /\ x \in Answer /\ Len(x.rdata) \in Word /\ y \in Answer /\ Len(y.rdata) \in Word
        /\ StartsWith(a, r \o s)
    <2>1. /\ m \in Nat
          /\ \A i \in 1..m : reply.answers[i] \in Answer /\ Len(reply.answers[i].rdata) \in Word
          /\ m \geq 2 => StartsWith(a, Record(reply.answers[1]) \o Record(reply.answers[2]))
      BY <1>1, <1>2, AnswersAre
    <2>2. 1 \in 1..m /\ 2 \in 1..m /\ m \geq 2
      BY <1>2, <2>1
    <2> QED BY <1>4, <1>5, <2>1, <2>2
  <1>7. PICK l : l = Len(y.rdata)
    OBVIOUS
  <1>8. PICK k : k \in Nat /\ k = Len(x.rdata) /\ r \in Packets /\ Len(r) = 12 + k
    <2>1. Gives(Record(x), x, Len(x.rdata))
      BY <1>6, RecordIs
    <2> QED BY <1>5, <2>1 DEF Gives
  <1>9. Gives(s, y, l)
    BY <1>5, <1>6, <1>7, RecordIs
  <1>10. /\ s \in Packets /\ l \in Nat /\ Len(s) = 12 + l
         /\ At(s, 0) = 192 /\ At(s, 1) = 12
         /\ At(s, 2) = y.type \div 256
         /\ At(s, 4) = y.class \div 256
    BY <1>9 DEF Gives
  <1>11. At(s, 2) = 0 /\ At(s, 4) = 0
    <2>1. y.type \in Nat /\ y.type < 256 /\ y.class = 1
      <3>1. y.type \in Word
        BY <1>6 DEF Answer
      <3> QED BY <1>4, <3>1, WordBytes DEF IsClear
    <2>2. y.type \div 256 = 0 /\ 1 \div 256 = 0
      BY <2>1
    <2> QED BY <1>10, <2>1, <2>2
  <1>12. PICK w \in Nat : w = 12 + k
    BY <1>8
  <1>13. Behind(r \o s, r, w, s)
    BY <1>8, <1>10, <1>12, JoinedBehind
  <1>14. ASSUME NEW i \in Nat, i < 12 PROVE At(packet, 29 + n + k + i) = At(s, i)
    <2>1. At(r \o s, w + i) = At(s, i) /\ Len(r \o s) = w + Len(s)
      BY <1>13 DEF Behind
    <2>2. w + i \in Nat /\ w + i < Len(r \o s)
      BY <1>10, <1>14, <2>1
    <2>3. At(a, w + i) = At(r \o s, w + i)
      BY <1>6, <2>2 DEF StartsWith
    <2>4. At(packet, 17 + n + (w + i)) = At(a, w + i)
      BY <1>3, <2>2
    <2>5. 17 + n + (w + i) = 29 + n + k + i
      <3>1. n \in Nat /\ k \in Nat /\ w = 12 + k
        BY <1>3, <1>8, <1>12
      <3> QED BY <3>1
    <2> QED BY <2>1, <2>3, <2>4, <2>5
  <1>15. PICK c \in Nat : c = 29 + n + k
    <2>1. n \in Nat /\ k \in Nat
      BY <1>3, <1>8
    <2>2. 29 + n + k \in Nat
      BY <2>1
    <2> QED BY <2>2
  <1>16. At(packet, c + 0) = 192 /\ At(packet, c + 1) = 12 /\ At(packet, c + 2) = 0 /\ At(packet, c + 4) = 0
    BY <1>10, <1>11, <1>14, <1>15
  <1>17. c + 0 = c
    OBVIOUS
  <1>18. SecondAt(packet, 29 + n + k)
    BY <1>15, <1>16, <1>17 DEF SecondAt
  <1>19. 29 + n + k + 4 < Len(packet)
    <2>0. a \in Packets
      BY <1>1 DEF Says
    <2>1. PICK z \in Nat : z = Len(a)
      BY <2>0 DEF Packets
    <2>2. Len(packet) = 17 + n + z
      BY <1>1, <2>1 DEF Says
    <2>3. z \geq 12 + k + (12 + l)
      BY <1>6, <1>10, <1>12, <1>13, <2>1 DEF StartsWith, Behind
    <2>4. n \in Nat /\ k \in Nat /\ l \in Nat
      BY <1>3, <1>8, <1>10
    <2>5. 29 + n + k + 4 < 17 + n + z
      BY <2>3, <2>4
    <2> QED BY <2>2, <2>5
  <1> QED BY <1>4, <1>8, <1>18, <1>19

(* What is compared as the class of the second answer never is 1.          *)
StopsAt(packet, c) ==
  U16At(packet, c + Len(DNSToName(packet, c)) + 2) # 1

LEMMA StopsAfterAddress ==
  ASSUME NEW packet \in Packets, NEW c \in Nat, SecondAt(packet, c), c + 4 < Len(packet)
  PROVE  StopsAt(packet, c)
  <1>1. /\ At(packet, c + 1) = 12 /\ At(packet, c + 2) = 0 /\ At(packet, c + 4) = 0
    BY DEF SecondAt
  <1>2. GoesStraight(packet, c, 1)
    <2>1. 1 \in Nat /\ 1 \leq Len(packet)
      <3>1. Len(packet) \in Nat
        BY DEF Packets
      <3> QED BY <3>1
    <2>2. At(packet, c + 1) # 0 /\ ~ IsPointer(At(packet, c + 1))
      BY <1>1 DEF IsPointer
    <2>3. \A j \in 1..1 : j = 1
      OBVIOUS
    <2>4. c + 1 + 1 = c + 2
      OBVIOUS
    <2> QED BY <1>1, <2>1, <2>2, <2>3, <2>4 DEF GoesStraight
  <1>3. ReadsStraight(packet, c, 1)
    BY <1>2, StraightWalk
  <1>4. Len(DNSToName(packet, c)) = 1
    BY <1>3, LengthsAreNumbers DEF ReadsStraight
  <1>5. PICK d \in Nat : d = At(packet, c + 3)
    <2>1. c + 3 \in Nat
      OBVIOUS
    <2> QED BY <2>1, CellsAreBytes
  <1>6. U16At(packet, c + 3) = 256 * d + 0
    <2>1. c + 3 + 1 = c + 4
      OBVIOUS
    <2> QED BY <1>1, <1>5, <2>1 DEF U16At
  <1>7. 256 * d + 0 # 1
    OBVIOUS
  <1>8. c + 1 + 2 = c + 3
    OBVIOUS
  <1> QED BY <1>4, <1>6, <1>7, <1>8 DEF StopsAt

LEMMA StopsAfterAlias ==
  ASSUME NEW packet \in Packets, NEW c \in Nat, At(packet, c + 1) = 0, SecondAt(packet, c + 2)
  PROVE  StopsAt(packet, c)
  <1>1. GoesStraight(packet, c, 0)
    <2>1. Len(packet) \in Nat
      BY DEF Packets
    <2>2. 0 \in Nat /\ 0 \leq Len(packet) /\ c + 1 + 0 = c + 1
      BY <2>1
    <2>3. \A j \in 1..0 : FALSE
      OBVIOUS
    <2> QED BY <2>2, <2>3 DEF GoesStraight
  <1>2. ReadsStraight(packet, c, 0)
    BY <1>1, StraightWalk
  <1>3. Len(DNSToName(packet, c)) = 0
    BY <1>2, LengthsAreNumbers DEF ReadsStraight
  <1>4. U16At(packet, c + 2) = 256 * 192 + 12
    BY DEF U16At, SecondAt
  <1>5. c + 0 + 2 = c + 2
    OBVIOUS
  <1> QED BY <1>3, <1>4, <1>5 DEF StopsAt

-----------------------------------------------------------------------------
(* Types.                                                                  *)
Kinds == {"IP", "CNAME", "NOTFOUND", "NORESPONSE", ""}

Auths == {"auth", "nonauth", ""}

Line == [kind : Kinds, value : Seq(Nat), auth : Auths]

Sayings == Replies \cup Strangers

Datagram(says, labels) == Packet(says, Request(labels))

Heard ==
  \/ heard = << >>
  \/ \E says \in Sayings : heard = <<says>> /\ buffer = Datagram(says, asked)

UnderWay ==
  \A r \in replies :
    r.says \in Sayings /\ r.asks \in Queries /\ r.packet = Datagram(r.says, r.asks)

DnsInv ==
  /\ pc \in {"send", "wait", "header", "question", "answers", "done"}
  /\ query \in Queries
  /\ asked \in Queries
  /\ requests \subseteq {Request(query)}
  /\ strays \in 0..MaxStrays
  /\ UnderWay
  /\ Heard
  /\ pc \in {"send", "wait"} => heard = << >> /\ out = << >> /\ complaint = ""
  /\ pc \in {"header", "question", "answers"} => heard # << >>
  /\ buffer \in Packets
  /\ pos \in Nat
  /\ answercnt \in Nat
  /\ out \in Seq(Line)

LEMMA NamesAreNames ==
  ASSUME NEW labels, IsName(labels)
  PROVE  NameToDNS(labels) \in Packets
  <1>1. labels \in Seq(Seq(Byte \ {0, DOT})) /\ \A i \in DOMAIN labels : Len(labels[i]) \in 1..MAX_ARG_LEN
    BY DEF IsName
  <1>2. Seq(Byte \ {0, DOT}) \subseteq Seq(Byte)
    <2>1. Byte \ {0, DOT} \subseteq Byte
      OBVIOUS
    <2> HIDE DEF Byte
    <2> SUFFICES ASSUME NEW s \in Seq(Byte \ {0, DOT}) PROVE s \in Seq(Byte)
      OBVIOUS
    <2>2. PICK m \in Nat : m = Len(s) /\ DOMAIN s = 1..m
      OBVIOUS
    <2>3. s = [i \in 1..m |-> s[i]] /\ \A i \in 1..m : s[i] \in Byte
      BY <2>2, FunctionOfSeq
    <2> QED BY <2>3, SeqOfFunction
  <1>3. labels \in Seq(Packets)
    <2>1. PICK m \in Nat : m = Len(labels) /\ DOMAIN labels = 1..m
      BY <1>1
    <2>2. labels = [i \in 1..m |-> labels[i]]
      BY <1>1, <2>1, FunctionOfSeq
    <2>3. \A i \in 1..m : labels[i] \in Packets
      BY <1>1, <1>2, <2>1 DEF Packets
    <2> QED BY <2>2, <2>3, SeqOfFunction
  <1>4. \A i \in DOMAIN labels : Len(labels[i]) \in Byte
    <2> TAKE i \in DOMAIN labels
    <2>1. MAX_ARG_LEN \in Nat /\ MAX_ARG_LEN < 256
      BY DEF MAX_ARG_LEN
    <2>2. PICK k \in 1..MAX_ARG_LEN : k = Len(labels[i])
      BY <1>1
    <2>3. k \in Nat /\ k < 256
      BY <2>1
    <2> QED BY <2>2, <2>3, SmallWords
  <1> QED BY <1>3, <1>4, NamesAreBytes

LEMMA SayingsAreReplies ==
  ASSUME NEW says \in Sayings
  PROVE  IsReply(says)
  BY DnsAssumption DEF Sayings

LEMMA DatagramsSay ==
  ASSUME NEW says \in Sayings, NEW labels \in Queries
  PROVE  Says(Datagram(says, labels), NameToDNS(labels), Len(NameToDNS(labels)), says, Answers(says))
  <1>1. NameToDNS(labels) \in Packets
    BY NamesAreNames, DnsAssumption
  <1>2. IsReply(says)
    BY SayingsAreReplies
  <1> QED BY <1>1, <1>2, PacketIs DEF Datagram

(* What is printed is a sequence of numbers.                               *)
LEMMA TextsAreNumbers ==
  ASSUME NEW packet \in Packets, NEW offset \in Nat, NameEnds(packet, offset)
  PROVE  DNSToName(packet, offset) \in Seq(Nat)
  <1>1. PICK n \in Nat : n = NameLength(packet, offset)
    BY LengthsAreNumbers
  <1>2. PICK w : w = Walk(packet, offset)
    OBVIOUS
  <1>3. PICK next : next = NextCell(packet, offset)
    OBVIOUS
  <1>4. w[0] = offset + 1 /\ \A k \in Nat : w[k + 1] = next[w[k]]
    BY <1>2, <1>3, WalkUnfold
  <1>5. next \in [Nat -> Nat]
    BY <1>3, NextCellType
  <1> DEFINE T == {k \in Nat : w[k] \in Nat}
  <1>6. 0 \in T
    BY <1>4
  <1>7. \A k \in Nat : k \in T => k + 1 \in T
    BY <1>4, <1>5
  <1>8. \A k \in Nat : w[k] \in Nat
    <2> HIDE DEF T
    <2>1. Nat \subseteq T
      BY <1>6, <1>7, AllNumbers
    <2> USE DEF T
    <2> QED BY <2>1
  <1>9. PICK x : x = [k \in 1..n |-> Character(At(packet, w[k - 1]))]
    OBVIOUS
  <1>10. ASSUME NEW k \in 1..n PROVE x[k] \in Nat
    <2>1. k - 1 \in Nat
      OBVIOUS
    <2>2. w[k - 1] \in Nat
      BY <1>8, <2>1
    <2>3. PICK c \in Nat : c = At(packet, w[k - 1])
      BY <2>2, CellsAreBytes
    <2>4. Character(c) \in Nat
      BY DEF Character, DOT
    <2> QED BY <1>9, <2>3, <2>4
  <1>11. x \in Seq(Nat)
    <2>1. x = [k \in 1..n |-> x[k]]
      BY <1>9
    <2> QED BY <1>10, <2>1, SeqOfFunction
  <1> QED BY <1>1, <1>2, <1>9, <1>11 DEF DNSToName

LEMMA AddressesAreNumbers ==
  ASSUME NEW packet \in Packets, NEW offset \in Nat
  PROVE  DNSToIP(packet, offset) \in Seq(Nat)
  <1>1. PICK x : x = DNSToIP(packet, offset)
    OBVIOUS
  <1>2. ASSUME NEW k \in 1..4 PROVE x[k] \in Nat
    <2>1. offset + k - 1 \in Nat
      OBVIOUS
    <2>2. At(packet, offset + k - 1) \in Nat
      BY <2>1, CellsAreBytes
    <2> QED BY <1>1, <2>2 DEF DNSToIP
  <1>3. x = [k \in 1..4 |-> x[k]]
    BY <1>1 DEF DNSToIP
  <1>4. 4 \in Nat
    OBVIOUS
  <1> QED BY <1>1, <1>2, <1>3, <1>4, SeqOfFunction

LEMMA LinesAppended ==
  ASSUME out \in Seq(Line), NEW kind \in Kinds, NEW value \in Seq(Nat), NEW auth \in Auths
  PROVE  Printed(kind, value, auth) \in Seq(Line)
  <1>1. [kind |-> kind, value |-> value, auth |-> auth] \in Line
    BY DEF Line
  <1> HIDE DEF Line
  <1> QED BY <1>1 DEF Printed

LEMMA DnsInit ==
  ASSUME Init
  PROVE  DnsInv
  <1>1. << >> \in Packets /\ out \in Seq(Line)
    <2> HIDE DEF Line
    <2>1. out = << >>
      BY DEF Init
    <2>2. << >> \in Seq(Line)
      OBVIOUS
    <2>3. << >> \in Packets
      BY DEF Packets
    <2> QED BY <2>1, <2>2, <2>3
  <1>2. 0 \in 0..MaxStrays
    BY DnsAssumption
  <1>3. /\ pc = "send" /\ query \in Queries /\ asked \in Queries
        /\ requests = {} /\ replies = {} /\ strays = 0
        /\ heard = << >> /\ buffer = << >> /\ pos = 0 /\ answercnt = 0
        /\ out = << >> /\ complaint = ""
    BY DEF Init
  <1> QED BY <1>1, <1>2, <1>3 DEF DnsInv, Heard, UnderWay

(* What the client does not touch while it reads.                          *)
LEMMA DnsSent ==
  ASSUME DnsInv, Send \/ SendFails \/ Receive \/ ReceiveFails \/ Timeout
  PROVE  DnsInv'
  <1>1. CASE Send
    <2>1. << >> \in Packets
      BY DEF Packets
    <2>2. requests' \subseteq {Request(query')} /\ buffer' = << >> /\ pc' = "wait"
      BY <1>1 DEF Send, DnsInv
    <2>3. UNCHANGED <<query, replies, strays, heard, asked, pos, answercnt, out, complaint>>
      BY <1>1 DEF Send
    <2>4. heard = << >> /\ out = << >> /\ complaint = ""
      BY <1>1 DEF Send, DnsInv
    <2>5. Heard' /\ UnderWay'
      BY <2>3, <2>4 DEF Heard, UnderWay, DnsInv, Datagram
    <2> QED BY <2>1, <2>2, <2>3, <2>4, <2>5 DEF DnsInv
  <1>2. CASE SendFails
    BY <1>2 DEF SendFails, Fail, Return, DnsInv, Heard, UnderWay, Datagram
  <1>3. CASE Receive
    <2>1. PICK reply \in replies :
            /\ replies' = replies \ {reply} /\ buffer' = reply.packet
            /\ heard' = <<reply.says>> /\ asked' = reply.asks
      BY <1>3 DEF Receive
    <2>2. /\ pc' = "header"
          /\ UNCHANGED <<query, requests, strays, pos, answercnt, out, complaint>>
      BY <1>3 DEF Receive
    <2>3. /\ reply.says \in Sayings /\ reply.asks \in Queries
          /\ buffer' = Datagram(reply.says, reply.asks)
      BY <2>1 DEF DnsInv, UnderWay
    <2>4. buffer' \in Packets
      BY <2>3, DatagramsSay DEF Says
    <2>5. heard' # << >> /\ Heard'
      BY <2>1, <2>3 DEF Heard, Datagram
    <2>6. UnderWay'
      BY <2>1 DEF DnsInv, UnderWay, Datagram
    <2>7. asked' \in Queries
      BY <2>1, <2>3
    <2> QED BY <2>2, <2>4, <2>5, <2>6, <2>7 DEF DnsInv
  <1>4. CASE ReceiveFails
    BY <1>4 DEF ReceiveFails, Fail, Return, DnsInv, Heard, UnderWay, Datagram
  <1>5. CASE Timeout
    <2>1. "NORESPONSE" \in Kinds /\ "" \in Auths
      BY DEF Kinds, Auths
    <2>0. << >> \in Seq(Nat)
      OBVIOUS
    <2>2. out \in Seq(Line)
      BY DEF DnsInv
    <2>3. out' \in Seq(Line)
      BY <1>5, <2>0, <2>1, <2>2, LinesAppended DEF Timeout
    <2>4. /\ pc' = "done"
          /\ UNCHANGED <<query, requests, replies, strays, heard, asked, buffer, pos, answercnt>>
      BY <1>5 DEF Timeout, Return
    <2>5. Heard' /\ UnderWay'
      BY <2>4 DEF DnsInv, Heard, UnderWay, Datagram
    <2> QED BY <2>3, <2>4, <2>5 DEF DnsInv
  <1> QED BY <1>1, <1>2, <1>3, <1>4, <1>5

LEMMA UnderWayWith ==
  ASSUME UnderWay, NEW says \in Sayings, NEW labels \in Queries,
         NEW packet, packet = Datagram(says, labels),
         replies' = replies \cup {[says |-> says, asks |-> labels, packet |-> packet]}
  PROVE  UnderWay'
  <1> SUFFICES ASSUME NEW r \in replies'
               PROVE  /\ r.says \in Sayings /\ r.asks \in Queries
                      /\ r.packet = Datagram(r.says, r.asks)
    BY DEF UnderWay, Datagram
  <1>1. CASE r \in replies
    BY <1>1 DEF UnderWay
  <1>2. CASE r = [says |-> says, asks |-> labels, packet |-> packet]
    BY <1>2
  <1> QED BY <1>1, <1>2

LEMMA DnsElsewhere ==
  ASSUME DnsInv, Reply \/ LoseRequest \/ LoseReply \/ Stray \/ Done \/ UNCHANGED vars
  PROVE  DnsInv'
  <1> USE DEF clientVars
  <1>1. CASE Reply
    <2>1. PICK request \in requests, reply \in Replies :
            /\ requests' = requests \ {request}
            /\ replies' = replies \cup
                 {[says |-> reply, asks |-> query, packet |-> Packet(reply, request)]}
      BY <1>1 DEF Reply
    <2>2. UNCHANGED <<clientVars, query, strays>>
      BY <1>1 DEF Reply
    <2>3. Packet(reply, request) = Datagram(reply, query)
      BY DEF DnsInv, Datagram
    <2>4. reply \in Sayings /\ query \in Queries /\ UnderWay
      BY DEF Sayings, DnsInv
    <2>5. UnderWay'
      BY <2>1, <2>3, <2>4, UnderWayWith
    <2>6. requests' \subseteq {Request(query)}
      BY <2>1 DEF DnsInv
    <2>7. Heard'
      BY <2>2 DEF DnsInv, Heard, Datagram
    <2> QED BY <2>2, <2>5, <2>6, <2>7 DEF DnsInv
  <1>2. CASE LoseRequest
    BY <1>2 DEF LoseRequest, DnsInv, Heard, UnderWay, Datagram
  <1>3. CASE LoseReply
    BY <1>3 DEF LoseReply, DnsInv, Heard, UnderWay, Datagram
  <1>4. CASE Stray
    <2>1. PICK says \in Strangers, labels \in Queries :
            replies' = replies \cup
              {[says |-> says, asks |-> labels, packet |-> Packet(says, Request(labels))]}
      BY <1>4 DEF Stray
    <2>2. /\ strays < MaxStrays /\ strays' = strays + 1
          /\ UNCHANGED <<clientVars, query, requests>>
      BY <1>4 DEF Stray
    <2>3. strays' \in 0..MaxStrays
      <3>1. strays \in 0..MaxStrays
        BY DEF DnsInv
      <3> QED BY <2>2, <3>1, DnsAssumption
    <2>4. says \in Sayings /\ UnderWay /\ Packet(says, Request(labels)) = Datagram(says, labels)
      BY DEF Sayings, DnsInv, Datagram
    <2>5. UnderWay'
      BY <2>1, <2>4, UnderWayWith
    <2>6. Heard'
      BY <2>2 DEF DnsInv, Heard, Datagram
    <2> QED BY <2>2, <2>3, <2>5, <2>6 DEF DnsInv
  <1>5. CASE Done
    BY <1>5 DEF Done, vars, DnsInv, Heard, UnderWay, Datagram
  <1>6. CASE UNCHANGED vars
    BY <1>6 DEF vars, DnsInv, Heard, UnderWay, Datagram
  <1> QED BY <1>1, <1>2, <1>3, <1>4, <1>5, <1>6

LEMMA DnsRead ==
  ASSUME DnsInv, ParseHeader \/ ParseQuestion \/ ParseAnswer \/ ParseEnd
  PROVE  DnsInv'
  <1>1. /\ UNCHANGED <<query, requests, replies, strays, heard, asked, buffer>>
        /\ heard # << >>
        /\ pc' \in {"question", "answers", "done"}
    <2>1. CASE ParseHeader
      BY <2>1 DEF ParseHeader, Fail, Return, DnsInv
    <2>2. CASE ParseQuestion
      BY <2>2 DEF ParseQuestion, Fail, Return, DnsInv
    <2>3. CASE ParseAnswer
      BY <2>3 DEF ParseAnswer, Fail, Return, DnsInv
    <2>4. CASE ParseEnd
      BY <2>4 DEF ParseEnd, Return, DnsInv
    <2> QED BY <2>1, <2>2, <2>3, <2>4
  <1>2. /\ buffer \in Packets /\ pos \in Nat /\ answercnt \in Nat /\ out \in Seq(Line)
    BY DEF DnsInv
  <1>3. << >> \in Seq(Nat) /\ "" \in Auths /\ Auth \in Auths
    <2>1. "" \in Auths /\ "auth" \in Auths /\ "nonauth" \in Auths
      BY DEF Auths
    <2>2. Auth = "auth" \/ Auth = "nonauth"
      BY DEF Auth
    <2>3. << >> \in Seq(Nat)
      OBVIOUS
    <2> QED BY <2>1, <2>2, <2>3
  <1>4. {"IP", "CNAME", "NOTFOUND", "NORESPONSE", ""} \subseteq Kinds
    BY DEF Kinds
  <1>5. pos' \in Nat /\ answercnt' \in Nat /\ out' \in Seq(Line)
    <2>1. CASE ParseHeader
      <3>1. U16At(buffer, 6) \in Nat
        BY <1>2, WordsAreNumbers
      <3>2. pos' \in Nat /\ answercnt' \in Nat
        <4>1. pos' = pos \/ pos' = HeaderSize
          BY <2>1 DEF ParseHeader
        <4>2. answercnt' = answercnt \/ answercnt' = U16At(buffer, 6)
          BY <2>1 DEF ParseHeader
        <4>3. HeaderSize \in Nat
          BY DEF HeaderSize
        <4> QED BY <1>2, <3>1, <4>1, <4>2, <4>3
      <3>3. out' = out \/ out' = Printed("NOTFOUND", << >>, "")
        BY <2>1 DEF ParseHeader
      <3>4. out' \in Seq(Line)
        BY <1>2, <1>3, <1>4, <3>3, LinesAppended
      <3> QED BY <3>2, <3>4
    <2>2. CASE ParseQuestion
      <3>1. NameEnds(buffer, pos)
        BY <2>2 DEF ParseQuestion
      <3>2. PICK n \in Nat : n = Len(DNSToName(buffer, pos))
        BY <1>2, <3>1, LengthsAreNumbers
      <3>3. pos' = pos \/ pos' = pos + n + QuestionSize
        BY <2>2, <3>2 DEF ParseQuestion
      <3>4. pos' \in Nat
        BY <1>2, <3>3 DEF QuestionSize
      <3>5. answercnt' = answercnt /\ out' = out
        BY <2>2 DEF ParseQuestion
      <3> QED BY <1>2, <3>4, <3>5
    <2>3. CASE ParseAnswer
      <3>1. NameEnds(buffer, pos) /\ answercnt > 0
        BY <2>3 DEF ParseAnswer
      <3>2. PICK at \in Nat : at = pos + Len(DNSToName(buffer, pos))
        BY <1>2, <3>1, LengthsAreNumbers
      <3>3. PICK rdata \in Nat : rdata = RdataAt(at)
        BY <3>2 DEF RdataAt, AnswerSize
      <3>4. CASE U16At(buffer, at + 2) # 1
        <4>1. UNCHANGED <<pos, answercnt, out>>
          BY <2>3, <3>2, <3>4 DEF ParseAnswer
        <4> QED BY <1>2, <4>1
      <3>5. CASE U16At(buffer, at + 2) = 1
        <4>1. answercnt' \in Nat
          <5>1. answercnt' = answercnt - 1
            BY <2>3, <3>2, <3>5 DEF ParseAnswer
          <5> QED BY <1>2, <3>1, <5>1
        <4>2. CASE U16At(buffer, at) = Types.A
          <5>0. U16At(buffer, at) # Types.CNAME
            BY <4>2 DEF Types
          <5>1. /\ out' = Printed("IP", DNSToIP(buffer, rdata), Auth)
                /\ pos' = rdata + U16At(buffer, at + 8)
            BY <2>3, <3>2, <3>3, <3>5, <4>2, <5>0 DEF ParseAnswer
          <5>2. DNSToIP(buffer, rdata) \in Seq(Nat)
            BY <1>2, AddressesAreNumbers
          <5>3. U16At(buffer, at + 8) \in Nat
            BY <1>2, WordsAreNumbers
          <5>4. out' \in Seq(Line)
            BY <1>2, <1>3, <1>4, <5>1, <5>2, LinesAppended
          <5> QED BY <4>1, <5>1, <5>3, <5>4
        <4>3. CASE U16At(buffer, at) = Types.CNAME
          <5>1. U16At(buffer, at) # Types.A
            BY <4>3 DEF Types
          <5>2. /\ NameEnds(buffer, rdata)
                /\ out' = Printed("CNAME", DNSToName(buffer, rdata), Auth)
                /\ pos' = rdata + Len(DNSToName(buffer, rdata))
            BY <2>3, <3>2, <3>3, <3>5, <4>3, <5>1 DEF ParseAnswer
          <5>3. DNSToName(buffer, rdata) \in Seq(Nat)
            BY <1>2, <5>2, TextsAreNumbers
          <5>4. Len(DNSToName(buffer, rdata)) \in Nat
            BY <1>2, <5>2, LengthsAreNumbers
          <5>5. out' \in Seq(Line)
            BY <1>2, <1>3, <1>4, <5>2, <5>3, LinesAppended
          <5> QED BY <4>1, <5>2, <5>4, <5>5
        <4>4. CASE U16At(buffer, at) # Types.A /\ U16At(buffer, at) # Types.CNAME
          <5>1. out' = Printed("", << >>, Auth) /\ pos' = rdata
            BY <2>3, <3>2, <3>3, <3>5, <4>4 DEF ParseAnswer
          <5>2. out' \in Seq(Line)
            BY <1>2, <1>3, <1>4, <5>1, LinesAppended
          <5> QED BY <4>1, <5>1, <5>2
        <4> QED BY <4>2, <4>3, <4>4
      <3> QED BY <3>4, <3>5
    <2>4. CASE ParseEnd
      <3>1. UNCHANGED <<pos, answercnt, out>>
        BY <2>4 DEF ParseEnd
      <3> QED BY <1>2, <3>1
    <2> QED BY <2>1, <2>2, <2>3, <2>4
  <1>6. Heard' /\ UnderWay'
    BY <1>1 DEF DnsInv, Heard, UnderWay, Datagram
  <1> QED BY <1>1, <1>5, <1>6 DEF DnsInv, Datagram

LEMMA DnsStep ==
  ASSUME DnsInv, [Next]_vars
  PROVE  DnsInv'
  BY DnsSent, DnsRead, DnsElsewhere DEF Next, Client

LEMMA LinesHaveKinds ==
  ASSUME DnsInv
  PROVE  TypeOK
  <1>1. \A i \in DOMAIN buffer : buffer[i] \in Byte
    <2> HIDE DEF Byte
    <2>1. buffer \in Seq(Byte)
      BY DEF DnsInv, Packets
    <2> QED BY <2>1
  <1>2. \A i \in DOMAIN out : out[i].kind \in {"IP", "CNAME", "NOTFOUND", "NORESPONSE", ""}
    <2>1. PICK S : S = Line
      OBVIOUS
    <2>2. out \in Seq(S)
      BY <2>1 DEF DnsInv
    <2>3. \A i \in DOMAIN out : out[i] \in S
      BY <2>2
    <2>4. \A l \in S : l.kind \in Kinds
      BY <2>1 DEF Line
    <2> QED BY <2>3, <2>4 DEF Kinds
  <1>3. Len(heard) \leq 1
    <2>1. heard = << >> \/ \E says : heard = <<says>>
      BY DEF DnsInv, Heard
    <2>2. CASE heard = << >>
      BY <2>2
    <2>3. CASE \E says : heard = <<says>>
      <3>1. PICK says : heard = <<says>>
        BY <2>3
      <3>2. Len(<<says>>) = 1
        OBVIOUS
      <3> QED BY <3>1, <3>2
    <2> QED BY <2>1, <2>2, <2>3
  <1> QED BY <1>1, <1>2, <1>3 DEF DnsInv, TypeOK

(* The client is where it can be and holds what it can hold, and what is   *)
(* under way are answers to the question it asks (3600dns.c:166-457).      *)
THEOREM DnsTypes == Spec => []TypeOK
  <1>1. Init => DnsInv
    BY DnsInit
  <1>2. DnsInv /\ [Next]_vars => DnsInv'
    BY DnsStep
  <1>3. DnsInv => TypeOK
    BY LinesHaveKinds
  <1> QED BY <1>1, <1>2, <1>3, PTL DEF Spec

-----------------------------------------------------------------------------
(* What is printed.                                                        *)
NameSize == Len(NameToDNS(asked))

Ours == Text(asked) = Text(query)

FirstLine(reply) == AnswerLine(reply, reply.answers[1])

Opened(reply) == Usable(reply) /\ reply.rcode # 3

NotFoundLine == [kind |-> "NOTFOUND", value |-> << >>, auth |-> ""]

Result(reply) ==
  /\ ~ Usable(reply) => out = << >> /\ complaint # ""
  /\ Usable(reply) /\ reply.rcode = 3 => out = <<NotFoundLine>> /\ complaint = ""
  /\ Opened(reply) /\ ~ Ours => out = << >> /\ complaint # ""
  /\ Opened(reply) /\ Ours /\ Len(reply.answers) = 0 => out = << >> /\ complaint = ""
  /\ Opened(reply) /\ Ours /\ Len(reply.answers) \geq 1 => out = <<FirstLine(reply)>>
  /\ Opened(reply) /\ Ours /\ Len(reply.answers) = 1 => complaint = ""

BeforeAnswers(reply) ==
  /\ pc = "answers" /\ Opened(reply) /\ Ours
  /\ out = << >> /\ complaint = ""
  /\ answercnt = Len(reply.answers) /\ pos = 15 + NameSize

AfterFirst(reply) ==
  /\ pc = "answers" /\ Opened(reply) /\ Ours
  /\ out = <<FirstLine(reply)>> /\ complaint = ""
  /\ Len(reply.answers) \geq 1 /\ answercnt = Len(reply.answers) - 1
  /\ Len(reply.answers) \geq 2 => StopsAt(buffer, pos)

(* Nothing is known of the answers when the first is of another sort.      *)
Unclear(reply) ==
  pc \in {"answers", "done"} /\ Opened(reply) /\ Ours /\ ~ IsClear(reply)

Progress(reply) ==
  \/ pc = "header" /\ out = << >> /\ complaint = ""
  \/ /\ pc = "question" /\ Opened(reply)
     /\ out = << >> /\ complaint = ""
     /\ answercnt = Len(reply.answers) /\ pos = 12
  \/ BeforeAnswers(reply)
  \/ AfterFirst(reply)
  \/ Unclear(reply)
  \/ pc = "done" /\ Result(reply)

Reading ==
  /\ heard = << >> => \A i \in DOMAIN out : out[i].kind # "IP"
  /\ heard = << >> /\ pc = "done" => out = <<NoResponse>> \/ (out = << >> /\ complaint # "")
  /\ heard # << >> => Progress(heard[1])

PlainQueries == \A q \in Queries : PlainName(q)

LEMMA HeardReply ==
  ASSUME DnsInv, heard # << >>
  PROVE  /\ heard[1] \in Sayings /\ IsReply(heard[1])
         /\ Says(buffer, NameToDNS(asked), NameSize, heard[1], Answers(heard[1]))
  <1>1. PICK says \in Sayings : heard = <<says>> /\ buffer = Datagram(says, asked)
    BY DEF DnsInv, Heard
  <1>2. heard[1] = says
    BY <1>1
  <1>3. asked \in Queries
    BY DEF DnsInv
  <1>4. Says(buffer, NameToDNS(asked), NameSize, says, Answers(says))
    BY <1>1, <1>3, DatagramsSay DEF NameSize
  <1> QED BY <1>2, <1>4, SayingsAreReplies

LEMMA NameIsSpelt ==
  ASSUME DnsInv, PlainQueries
  PROVE  Spells(NameToDNS(asked), NameSize, Text(asked))
  <1>1. PlainName(asked)
    BY DEF DnsInv, PlainQueries
  <1> QED BY <1>1, NameReadsAsText DEF NameSize

LEMMA OneLine ==
  ASSUME out = << >>, NEW kind, NEW value, NEW auth
  PROVE  Printed(kind, value, auth) = <<[kind |-> kind, value |-> value, auth |-> auth]>>
  BY DEF Printed

LEMMA ReadsHeader ==
  ASSUME DnsInv, ParseHeader, NEW reply, heard # << >>, reply = heard[1], Progress(reply)
  PROVE  Progress(reply)'
  <1>1. IsReply(reply) /\ Says(buffer, NameToDNS(asked), NameSize, reply, Answers(reply))
    BY HeardReply
  <1>2. /\ U16At(buffer, 0) = reply.id
        /\ At(buffer, 2) = Flags(reply) /\ At(buffer, 3) = Rcodes(reply)
        /\ U16At(buffer, 6) = Len(reply.answers)
    BY <1>1 DEF Says
  <1>3. /\ Compromised <=> ~ Usable(reply)
        /\ NotFound <=> reply.rcode = 3
    BY <1>1, <1>2, HeaderIsRead
  <1>4. out = << >> /\ pc = "header" /\ complaint = ""
    BY DEF ParseHeader, Progress, BeforeAnswers, AfterFirst, Unclear
  <1>5. Printed("NOTFOUND", << >>, "") = <<NotFoundLine>>
    BY <1>4, OneLine DEF NotFoundLine
  <1>6. CASE ~ Usable(reply)
    <2>1. pc' = "done" /\ out' = << >> /\ complaint' # ""
      BY <1>3, <1>4, <1>6 DEF ParseHeader, Fail, Return
    <2>2. Result(reply)'
      BY <1>6, <2>1 DEF Result, Opened
    <2> QED BY <2>1, <2>2 DEF Progress
  <1>7. CASE Usable(reply) /\ reply.rcode = 3
    <2>1. pc' = "done" /\ out' = <<NotFoundLine>> /\ complaint' = ""
      BY <1>3, <1>4, <1>5, <1>7 DEF ParseHeader, Return
    <2>2. Result(reply)'
      BY <1>7, <2>1 DEF Result, Opened
    <2> QED BY <2>1, <2>2 DEF Progress
  <1>8. CASE Opened(reply)
    <2>1. /\ pc' = "question" /\ out' = << >> /\ complaint' = ""
          /\ answercnt' = Len(reply.answers) /\ pos' = 12
      BY <1>2, <1>3, <1>4, <1>8 DEF ParseHeader, HeaderSize, Opened
    <2> QED BY <1>8, <2>1 DEF Progress
  <1> QED BY <1>6, <1>7, <1>8 DEF Opened

LEMMA ReadsQuestion ==
  ASSUME DnsInv, PlainQueries, ParseQuestion,
         NEW reply, heard # << >>, reply = heard[1], Progress(reply)
  PROVE  Progress(reply)'
  <1>1. Says(buffer, NameToDNS(asked), NameSize, reply, Answers(reply))
    BY HeardReply
  <1>2. PICK n : n = NameSize
    OBVIOUS
  <1>3. PICK text : text = Text(asked)
    OBVIOUS
  <1>4. Spells(NameToDNS(asked), n, text)
    BY <1>2, <1>3, NameIsSpelt
  <1>5. n \in Nat /\ n \geq 1
    BY <1>4 DEF Spells
  <1>6. Understood(buffer, 12, n, text) /\ U16At(buffer, 13 + n) = 1
    BY <1>1, <1>2, <1>4, QuestionIsRead
  <1>7. /\ pos = 12 /\ Opened(reply) /\ out = << >> /\ complaint = ""
        /\ answercnt = Len(reply.answers)
    BY DEF ParseQuestion, Progress, BeforeAnswers, AfterFirst, Unclear
  <1>8. DNSToName(buffer, pos) = text /\ Len(DNSToName(buffer, pos)) = n - 1
    BY <1>6, <1>7 DEF Understood
  <1>9. UNCHANGED <<query, asked, answercnt, out>>
    BY DEF ParseQuestion
  <1>10. CASE ~ Ours
    <2>1. DNSToName(buffer, pos) # Text(query)
      BY <1>3, <1>8, <1>10 DEF Ours
    <2>2. pc' = "done" /\ complaint' # ""
      BY <2>1 DEF ParseQuestion, Fail, Return
    <2>3. ~ Ours'
      BY <1>9, <1>10 DEF Ours
    <2>4. Result(reply)'
      BY <1>7, <1>9, <2>2, <2>3 DEF Result, Opened
    <2> QED BY <2>2, <2>4 DEF Progress
  <1>11. CASE Ours
    <2>1. DNSToName(buffer, pos) = Text(query)
      BY <1>3, <1>8, <1>11 DEF Ours
    <2>2. PICK at : at = pos + Len(DNSToName(buffer, pos))
      OBVIOUS
    <2>3. at + 2 = 13 + n /\ at + 4 = 15 + n
      <3>1. at = 12 + (n - 1)
        BY <1>7, <1>8, <2>2
      <3> QED BY <1>5, <3>1
    <2>4. pc' = "answers" /\ pos' = at + QuestionSize /\ complaint' = ""
      BY <1>6, <1>7, <2>1, <2>2, <2>3 DEF ParseQuestion
    <2>5. pos' = 15 + n
      BY <2>3, <2>4 DEF QuestionSize
    <2>6. NameSize' = n /\ Ours'
      BY <1>2, <1>9, <1>11 DEF NameSize, Ours
    <2>7. BeforeAnswers(reply)'
      BY <1>7, <1>9, <2>4, <2>5, <2>6 DEF BeforeAnswers
    <2> QED BY <2>7 DEF Progress
  <1> QED BY <1>10, <1>11

(* The first answer.                                                       *)
LEMMA ReadsFirst ==
  ASSUME DnsInv, PlainQueries, ParseAnswer,
         NEW reply, heard # << >>, reply = heard[1], IsClear(reply), BeforeAnswers(reply)
  PROVE  AfterFirst(reply)'
  <1>1. IsReply(reply) /\ Says(buffer, NameToDNS(asked), NameSize, reply, Answers(reply))
    BY HeardReply
  <1>2. PICK n : n = NameSize
    OBVIOUS
  <1>3. PICK m : m = Len(reply.answers)
    OBVIOUS
  <1>4. m \in Nat /\ answercnt = m /\ m \geq 1 /\ m > 0
    <2>1. m \in Nat
      BY <1>1, <1>3, AnswersAre
    <2>2. answercnt = m /\ answercnt > 0
      BY <1>3 DEF BeforeAnswers, ParseAnswer
    <2> QED BY <2>1, <2>2
  <1>5. PICK answer : answer = reply.answers[1]
    OBVIOUS
  <1>6. PICK k : k = Len(answer.rdata)
    OBVIOUS
  <1>7. FirstRead(buffer, n, answer, k)
    BY <1>1, <1>2, <1>3, <1>4, <1>5, <1>6, FirstAnswerIsRead DEF BeforeAnswers, Opened
  <1>8. /\ buffer \in Packets /\ n \in Nat /\ answer \in Answer /\ k \in Nat
        /\ Len(DNSToName(buffer, 15 + n)) = 4
        /\ U16At(buffer, 19 + n) = answer.type
        /\ U16At(buffer, 21 + n) = answer.class
        /\ U16At(buffer, 27 + n) = k
        /\ Len(buffer) \geq 29 + n + k
    BY <1>7 DEF FirstRead
  <1>9. pos = 15 + n /\ out = << >> /\ complaint = "" /\ Opened(reply) /\ Ours
    BY <1>2 DEF BeforeAnswers
  <1>10. PICK at : at = pos + Len(DNSToName(buffer, pos))
    OBVIOUS
  <1>11. /\ at = 19 + n /\ at + 2 = 21 + n /\ at + 8 = 27 + n /\ RdataAt(at) = 29 + n
    <2>1. at = 15 + n + 4
      BY <1>8, <1>9, <1>10
    <2>2. at = 19 + n
      BY <1>8, <2>1
    <2> QED BY <1>8, <2>2 DEF RdataAt, AnswerSize
  <1>12. IsAddress(answer) \/ IsAlias(answer)
    BY <1>3, <1>4, <1>5 DEF IsClear
  <1>13. answer.class = 1
    BY <1>12 DEF IsAddress, IsAlias
  <1>14. U16At(buffer, at + 2) = 1 /\ U16At(buffer, at) = answer.type
    BY <1>8, <1>11, <1>13
  <1>15. /\ answercnt' = m - 1 /\ pc' = "answers"
         /\ UNCHANGED <<query, asked, heard, buffer, complaint>>
    BY <1>4, <1>10, <1>14 DEF ParseAnswer
  <1>16. Auth = IF reply.aa = 1 THEN "auth" ELSE "nonauth"
    <2>1. /\ U16At(buffer, 0) = reply.id
          /\ At(buffer, 2) = Flags(reply) /\ At(buffer, 3) = Rcodes(reply)
      BY <1>1 DEF Says
    <2> QED BY <1>1, <2>1, HeaderIsRead
  <1>17. ASSUME m \geq 2
         PROVE  SecondAt(buffer, 29 + n + k) /\ 29 + n + k + 4 < Len(buffer)
    <2>1. /\ SecondAt(buffer, 29 + NameSize + Len(reply.answers[1].rdata))
          /\ 29 + NameSize + Len(reply.answers[1].rdata) + 4 < Len(buffer)
      BY <1>1, <1>3, <1>17, SecondAnswerIs
    <2> QED BY <1>2, <1>5, <1>6, <2>1
  <1>18. CASE IsAddress(answer)
    <2>1. answer.type = Types.A /\ answer.type # Types.CNAME /\ k = 4
      BY <1>6, <1>18 DEF IsAddress, Types
    <2>2. /\ out' = Printed("IP", DNSToIP(buffer, RdataAt(at)), Auth)
          /\ pos' = RdataAt(at) + U16At(buffer, at + 8)
      BY <1>10, <1>14, <2>1 DEF ParseAnswer
    <2>3. DNSToIP(buffer, RdataAt(at)) = answer.rdata
      BY <1>7, <1>11, <1>18, AddressIsRead
    <2>4. out' = <<[kind |-> "IP", value |-> answer.rdata, auth |-> Auth]>>
      BY <1>9, <2>2, <2>3, OneLine
    <2>5. out' = <<FirstLine(reply)>>
      BY <1>5, <1>16, <2>1, <2>4 DEF FirstLine, AnswerLine
    <2>6. pos' = 29 + n + k
      BY <1>8, <1>11, <2>2
    <2>7. ASSUME m \geq 2 PROVE StopsAt(buffer', pos')
      <3>1. PICK c \in Nat : c = 29 + n + k
        BY <1>8
      <3>2. SecondAt(buffer, c)
        BY <1>17, <2>7, <3>1
      <3>3. c + 4 < Len(buffer)
        BY <1>17, <2>7, <3>1
      <3>4. StopsAt(buffer, c)
        BY <1>8, <3>2, <3>3, StopsAfterAddress
      <3> QED BY <1>15, <2>6, <3>1, <3>4
    <2> QED BY <1>3, <1>4, <1>9, <1>15, <2>5, <2>7 DEF AfterFirst, StopsAt, Ours
  <1>19. CASE IsAlias(answer)
    <2>1. answer.type # Types.A /\ answer.type = Types.CNAME
      BY <1>19 DEF IsAlias, Types
    <2>2. /\ out' = Printed("CNAME", DNSToName(buffer, RdataAt(at)), Auth)
          /\ pos' = RdataAt(at) + Len(DNSToName(buffer, RdataAt(at)))
      BY <1>10, <1>14, <2>1 DEF ParseAnswer
    <2>3. /\ Understood(buffer, 29 + n, k - 1, Text(answer.alias))
          /\ At(buffer, 29 + n + (k - 1)) = 0
          /\ k \geq 2
      BY <1>7, <1>19, AliasIsRead
    <2>4. /\ DNSToName(buffer, RdataAt(at)) = Text(answer.alias)
          /\ Len(DNSToName(buffer, RdataAt(at))) = k - 1 - 1
      BY <1>11, <2>3 DEF Understood
    <2>5. out' = <<[kind |-> "CNAME", value |-> Text(answer.alias), auth |-> Auth]>>
      BY <1>9, <2>2, <2>4, OneLine
    <2>6. out' = <<FirstLine(reply)>>
      BY <1>5, <1>16, <2>1, <2>5 DEF FirstLine, AnswerLine
    <2>7. PICK c \in Nat : c = 29 + n + (k - 2)
      <3>1. k - 2 \in Nat
        BY <1>8, <2>3
      <3>2. 29 + n + (k - 2) \in Nat
        BY <1>8, <3>1
      <3> QED BY <3>2
    <2>8. pos' = c
      <3>1. pos' = 29 + n + (k - 1 - 1)
        BY <1>11, <2>2, <2>4
      <3>2. k - 1 - 1 = k - 2
        BY <1>8
      <3> QED BY <2>7, <3>1, <3>2
    <2>9. ASSUME m \geq 2 PROVE StopsAt(buffer', pos')
      <3>1. c + 1 = 29 + n + (k - 1) /\ c + 2 = 29 + n + k
        BY <1>8, <2>7
      <3>2. At(buffer, c + 1) = 0 /\ SecondAt(buffer, c + 2)
        BY <1>17, <2>3, <2>9, <3>1
      <3>3. StopsAt(buffer, c)
        BY <1>8, <3>2, StopsAfterAlias
      <3> QED BY <1>15, <2>8, <3>3
    <2> QED BY <1>3, <1>4, <1>9, <1>15, <2>6, <2>9 DEF AfterFirst, StopsAt, Ours
  <1> QED BY <1>12, <1>18, <1>19

LEMMA StaysUnclear ==
  ASSUME DnsInv, ParseAnswer \/ ParseEnd, NEW reply, Opened(reply), Ours, ~ IsClear(reply)
  PROVE  Progress(reply)'
  <1>1. pc' \in {"answers", "done"} /\ UNCHANGED <<query, asked>>
    BY DEF ParseAnswer, ParseEnd, Fail, Return
  <1>2. Ours'
    BY <1>1 DEF Ours
  <1>3. Unclear(reply)'
    BY <1>1, <1>2 DEF Unclear
  <1> QED BY <1>3 DEF Progress

LEMMA ReadsAnswers ==
  ASSUME DnsInv, PlainQueries, ParseAnswer,
         NEW reply, heard # << >>, reply = heard[1], Progress(reply)
  PROVE  Progress(reply)'
  <1>1. BeforeAnswers(reply) \/ AfterFirst(reply) \/ Unclear(reply)
    BY DEF ParseAnswer, Progress
  <1>2. CASE ~ IsClear(reply)
    <2>1. Opened(reply) /\ Ours
      BY <1>1 DEF BeforeAnswers, AfterFirst, Unclear
    <2> QED BY <1>2, <2>1, StaysUnclear
  <1>3. CASE IsClear(reply) /\ BeforeAnswers(reply)
    BY <1>3, ReadsFirst DEF Progress
  <1>4. CASE IsClear(reply) /\ AfterFirst(reply)
    <2>1. PICK m : m = Len(reply.answers)
      OBVIOUS
    <2>2. m \in Nat
      <3>1. IsReply(reply)
        BY HeardReply
      <3> QED BY <2>1, <3>1, AnswersAre
    <2>3. answercnt = m - 1 /\ answercnt > 0
      BY <1>4, <2>1 DEF AfterFirst, ParseAnswer
    <2>4. m \geq 2 /\ m \geq 1 /\ m # 0 /\ m # 1
      BY <2>2, <2>3
    <2>5. StopsAt(buffer, pos)
      BY <1>4, <2>1, <2>4 DEF AfterFirst
    <2>6. pc' = "done" /\ out' = out /\ UNCHANGED <<query, asked>>
      BY <2>5 DEF StopsAt, ParseAnswer, Fail, Return
    <2>7. Ours'
      BY <1>4, <2>6 DEF AfterFirst, Ours
    <2>8. Result(reply)'
      BY <1>4, <2>1, <2>4, <2>6, <2>7 DEF AfterFirst, Result, Opened
    <2> QED BY <2>6, <2>8 DEF Progress
  <1> QED BY <1>1, <1>2, <1>3, <1>4 DEF Unclear

LEMMA ReadsEnd ==
  ASSUME DnsInv, ParseEnd, NEW reply, heard # << >>, reply = heard[1], Progress(reply)
  PROVE  Progress(reply)'
  <1>1. BeforeAnswers(reply) \/ AfterFirst(reply) \/ Unclear(reply)
    BY DEF ParseEnd, Progress
  <1>2. pc' = "done" /\ UNCHANGED <<query, asked, out, complaint>> /\ answercnt = 0
    BY DEF ParseEnd, Return
  <1>3. CASE BeforeAnswers(reply)
    <2>1. /\ Len(reply.answers) = 0 /\ Opened(reply) /\ Ours
          /\ out' = << >> /\ complaint' = ""
      BY <1>2, <1>3 DEF BeforeAnswers
    <2>2. ~ (Len(reply.answers) \geq 1) /\ Len(reply.answers) # 1
      <3>1. PICK k : k = Len(reply.answers)
        OBVIOUS
      <3>2. k = 0
        BY <2>1, <3>1
      <3> QED BY <3>1, <3>2
    <2>4. Ours'
      BY <1>2, <2>1 DEF Ours
    <2>3. Result(reply)'
      BY <2>1, <2>2, <2>4 DEF Result, Opened
    <2> QED BY <1>2, <2>3 DEF Progress
  <1>4. CASE AfterFirst(reply)
    <2>1. /\ Len(reply.answers) \geq 1 /\ Opened(reply) /\ Ours
          /\ out' = <<FirstLine(reply)>> /\ complaint' = ""
      BY <1>2, <1>4 DEF AfterFirst
    <2>2. Len(reply.answers) # 0
      <3>1. PICK k : k = Len(reply.answers)
        OBVIOUS
      <3>2. k \geq 1
        BY <2>1, <3>1
      <3> QED BY <3>1, <3>2
    <2>4. Ours'
      BY <1>2, <2>1 DEF Ours
    <2>3. Result(reply)'
      BY <2>1, <2>2, <2>4 DEF Result, Opened
    <2> QED BY <1>2, <2>3 DEF Progress
  <1>5. CASE Unclear(reply)
    BY <1>5, StaysUnclear DEF Unclear
  <1> QED BY <1>1, <1>3, <1>4, <1>5

LEMMA StartsReading ==
  ASSUME Init
  PROVE  Reading
  <1>1. heard = << >> /\ out = << >> /\ pc = "send"
    BY DEF Init
  <1> QED BY <1>1 DEF Reading

LEMMA ReadingStep ==
  ASSUME PlainQueries, DnsInv, Reading, [Next]_vars
  PROVE  Reading'
  <1>1. CASE Send \/ SendFails \/ ReceiveFails
    <2>1. heard = << >> /\ out = << >>
      BY <1>1 DEF DnsInv, Send, SendFails, ReceiveFails
    <2>2. heard' = heard /\ out' = out /\ (pc' = "done" => complaint' # "")
      BY <1>1 DEF Send, SendFails, ReceiveFails, Fail
    <2> QED BY <2>1, <2>2 DEF Reading
  <1>2. CASE Timeout
    <2>1. heard = << >> /\ out = << >> /\ heard' = heard
      BY <1>2 DEF DnsInv, Timeout
    <2>2. out' = <<NoResponse>>
      BY <1>2, <2>1, OneLine DEF Timeout, NoResponse
    <2>3. \A i \in DOMAIN out' : out'[i].kind # "IP"
      <3>1. NoResponse.kind # "IP"
        BY DEF NoResponse
      <3>2. \A i \in DOMAIN <<NoResponse>> : <<NoResponse>>[i] = NoResponse
        OBVIOUS
      <3> QED BY <2>2, <3>1, <3>2
    <2> QED BY <2>1, <2>2, <2>3 DEF Reading
  <1>3. CASE Receive
    <2>1. pc' = "header" /\ out' = out /\ complaint' = complaint /\ heard' # << >>
      BY <1>3 DEF Receive
    <2>2. out = << >> /\ complaint = ""
      BY <1>3 DEF DnsInv, Receive
    <2> QED BY <2>1, <2>2 DEF Reading, Progress
  <1>4. CASE ParseHeader \/ ParseQuestion \/ ParseAnswer \/ ParseEnd
    <2>1. heard # << >>
      BY <1>4 DEF DnsInv, ParseHeader, ParseQuestion, ParseAnswer, ParseEnd
    <2>2. heard' = heard
      BY <1>4 DEF ParseHeader, ParseQuestion, ParseAnswer, ParseEnd
    <2>3. Progress(heard[1])'
      <3>1. PICK reply : reply = heard[1]
        OBVIOUS
      <3>2. Progress(reply)
        BY <2>1, <3>1 DEF Reading
      <3>3. Progress(reply)'
        BY <1>4, <2>1, <3>1, <3>2, ReadsHeader, ReadsQuestion, ReadsAnswers, ReadsEnd
      <3>4. reply = heard'[1]
        BY <2>2, <3>1
      <3> QED BY <3>3, <3>4
    <2> QED BY <2>1, <2>2, <2>3 DEF Reading
  <1>5. CASE Reply \/ LoseRequest \/ LoseReply \/ Stray \/ Done \/ UNCHANGED vars
    <2>1. UNCHANGED <<pc, heard, asked, buffer, pos, answercnt, out, complaint, query>>
      BY <1>5 DEF Reply, LoseRequest, LoseReply, Stray, Done, vars, clientVars
    <2> QED BY <2>1 DEF Reading, Progress, BeforeAnswers, AfterFirst, Unclear, Result, Ours,
                        NameSize, StopsAt
  <1> QED BY <1>1, <1>2, <1>3, <1>4, <1>5 DEF Next, Client

LEMMA ResultIsExpected ==
  ASSUME NEW reply, IsReply(reply), Len(reply.answers) \leq 1, Usable(reply), Ours, Result(reply)
  PROVE  out = Expected(reply) /\ complaint = ""
  <1>1. PICK answers \in Seq(Answer), m \in Nat : answers = reply.answers /\ m = Len(answers)
    BY DEF IsReply
  <1>2. DOMAIN answers = 1..m
    BY <1>1
  <1>6. CASE reply.rcode = 3
    BY <1>6 DEF Expected, Result, NotFoundLine, Opened
  <1>7. CASE Opened(reply)
    <2>1. PICK e : e = [i \in 1..m |-> AnswerLine(reply, answers[i])]
      OBVIOUS
    <2>2. Expected(reply) = e
      BY <1>1, <1>2, <1>7, <2>1 DEF Expected, Opened
    <2>3. CASE m = 0
      <3>1. out = << >> /\ complaint = ""
        BY <1>1, <1>7, <2>3 DEF Result
      <3>2. e = << >>
        BY <2>1, <2>3
      <3> QED BY <2>2, <3>1, <3>2
    <2>4. CASE m = 1
      <3>1. out = <<FirstLine(reply)>> /\ complaint = ""
        BY <1>1, <1>7, <2>4 DEF Result
      <3>2. PICK l : l = AnswerLine(reply, answers[1])
        OBVIOUS
      <3>3. e = [i \in 1..1 |-> l]
        BY <2>1, <2>4, <3>2
      <3>4. [i \in 1..1 |-> l] = <<l>>
        OBVIOUS
      <3>5. FirstLine(reply) = l
        BY <1>1, <3>2 DEF FirstLine
      <3> QED BY <2>2, <3>1, <3>3, <3>4, <3>5
    <2>5. m = 0 \/ m = 1
      <3>1. m \in Nat /\ m \leq 1
        BY <1>1
      <3> QED BY <3>1
    <2> QED BY <2>3, <2>4, <2>5
  <1> QED BY <1>6, <1>7 DEF Opened

(* When the names asked for, here and by others, are of labels of at most  *)
(* nine characters, and every reply with one answer gives an address or an *)
(* alias written out, the client ends having printed what a usable reply   *)
(* to its question says, and with a complaint and no answer otherwise      *)
(* (3600dns.c:333-454).                                                    *)
THEOREM DnsPrintsTheReply ==
  ASSUME PlainQueries, \A r \in Replies \cup Strangers : Len(r.answers) \leq 1 => IsClear(r)
  PROVE  Spec => []PrintsTheReply
  <1>1. Init => DnsInv /\ Reading
    <2>1. Init => Reading
      BY StartsReading
    <2> QED BY <2>1, DnsInit
  <1>2. DnsInv /\ Reading /\ [Next]_vars => (DnsInv /\ Reading)'
    BY DnsStep, ReadingStep
  <1>3. DnsInv /\ Reading => PrintsTheReply
    <2> SUFFICES ASSUME DnsInv, Reading, pc = "done"
                 PROVE  PrintsTheReply
      BY DEF PrintsTheReply
    <2>1. CASE heard = << >>
      BY <2>1 DEF Reading, PrintsTheReply
    <2>2. CASE heard # << >>
      <3>1. PICK reply : reply = heard[1]
        OBVIOUS
      <3>2. reply \in Sayings /\ IsReply(reply)
        BY <2>2, <3>1, HeardReply
      <3>3. Unclear(reply) \/ Result(reply)
        BY <2>2, <3>1 DEF Reading, Progress, BeforeAnswers, AfterFirst
      <3>4. ASSUME ~ Usable(reply) \/ (~ Ours /\ reply.rcode # 3)
            PROVE  out = << >> /\ complaint # ""
        BY <3>3, <3>4 DEF Unclear, Result, Opened
      <3>5. ASSUME Usable(reply), Ours, Len(reply.answers) \leq 1
            PROVE  out = Expected(reply) /\ complaint = ""
        <4>1. IsClear(reply)
          BY <3>2, <3>5 DEF Sayings
        <4>2. Result(reply)
          BY <3>3, <4>1 DEF Unclear
        <4> QED BY <3>2, <3>5, <4>2, ResultIsExpected
      <3> QED BY <2>2, <3>1, <3>4, <3>5 DEF PrintsTheReply, Ours
    <2> QED BY <2>1, <2>2
  <1> QED BY <1>1, <1>2, <1>3, PTL DEF Spec

(* When all replies begin with such an answer, and the second one is of a  *)
(* type below 256, the addresses that are printed are addresses the reply  *)
(* gives, however many answers it has (3600dns.c:397-454).                 *)
THEOREM DnsAddressesAreReal ==
  ASSUME PlainQueries, \A r \in Replies \cup Strangers : IsClear(r)
  PROVE  Spec => []AddressesAreReal
  <1>1. Init => DnsInv /\ Reading
    <2>1. Init => Reading
      BY StartsReading
    <2> QED BY <2>1, DnsInit
  <1>2. DnsInv /\ Reading /\ [Next]_vars => (DnsInv /\ Reading)'
    BY DnsStep, ReadingStep
  <1>3. DnsInv /\ Reading => AddressesAreReal
    <2> SUFFICES ASSUME DnsInv, Reading, NEW i \in DOMAIN out, out[i].kind = "IP"
                 PROVE  \E j \in DOMAIN heard[1].answers :
                          /\ heard[1].answers[j].type = Types.A
                          /\ heard[1].answers[j].rdata = out[i].value
      BY DEF AddressesAreReal
    <2>1. heard # << >>
      BY DEF Reading
    <2>2. PICK reply : reply = heard[1]
      OBVIOUS
    <2>3. reply \in Sayings /\ IsReply(reply)
      BY <2>1, <2>2, HeardReply
    <2>4. IsClear(reply)
      BY <2>3 DEF Sayings
    <2>5. Progress(reply) /\ ~ Unclear(reply)
      BY <2>1, <2>2, <2>4 DEF Reading, Unclear
    <2>6. \/ out = << >> \/ out = <<NotFoundLine>>
          \/ Len(reply.answers) \geq 1 /\ out = <<FirstLine(reply)>>
      <3>1. Len(reply.answers) \in Nat
        BY <2>3, AnswersAre
      <3>2. Len(reply.answers) = 0 \/ Len(reply.answers) \geq 1
        BY <3>1
      <3> QED BY <2>5, <3>2 DEF Progress, BeforeAnswers, AfterFirst, Result, Opened, Ours
    <2>7. CASE out = << >>
      BY <2>7
    <2>8. CASE out = <<NotFoundLine>>
      <3>1. i = 1
        BY <2>8
      <3>2. out[i] = NotFoundLine
        BY <2>8, <3>1
      <3>3. NotFoundLine.kind = "NOTFOUND"
        BY DEF NotFoundLine
      <3> QED BY <3>2, <3>3
    <2>9. CASE Len(reply.answers) \geq 1 /\ out = <<FirstLine(reply)>>
      <3>0. i = 1
        BY <2>9
      <3>1. out[i] = FirstLine(reply)
        BY <2>9, <3>0
      <3>2. PICK answer : answer = reply.answers[1]
        OBVIOUS
      <3>3. answer.type = Types.A /\ out[i].value = answer.rdata
        BY <3>1, <3>2 DEF FirstLine, AnswerLine
      <3>4. 1 \in DOMAIN reply.answers
        <4>1. reply.answers \in Seq(Answer) /\ Len(reply.answers) \in Nat
          BY <2>3 DEF IsReply
        <4>2. DOMAIN reply.answers = 1..Len(reply.answers)
          BY <4>1
        <4> QED BY <2>9, <4>1, <4>2
      <3> QED BY <2>2, <3>2, <3>3, <3>4
    <2> QED BY <2>6, <2>7, <2>8, <2>9
  <1> QED BY <1>1, <1>2, <1>3, PTL DEF Spec

=============================================================================
