-------------------------- MODULE TransportProofs --------------------------
(***************************************************************************)
(* Theorems about project4's transport, for every input length, block      *)
(* size, sequence space, patience and set of faults.                       *)
(***************************************************************************)
EXTENDS Transport, TLAPS, SequenceTheorems

-----------------------------------------------------------------------------
(* What delivering, losing or duplicating a datagram does to a channel.    *)

LEMMA RemoveAtProperties ==
  ASSUME NEW S, NEW s \in Seq(S), NEW i \in DOMAIN s
  PROVE  /\ RemoveAt(s, i) \in Seq(S)
         /\ Len(RemoveAt(s, i)) = Len(s) - 1
         /\ \A j \in 1..(Len(s) - 1) :
              RemoveAt(s, i)[j] = IF j < i THEN s[j] ELSE s[j + 1]
<1> DEFINE a == SubSeq(s, 1, i - 1)
           b == SubSeq(s, i + 1, Len(s))
<1>1. i \in 1..Len(s) /\ Len(s) \in Nat
  OBVIOUS
<1>2. a \in Seq(S) /\ Len(a) = i - 1 /\ \A j \in 1..(i - 1) : a[j] = s[j]
  BY <1>1
<1>3. b \in Seq(S) /\ Len(b) = Len(s) - i /\ \A j \in 1..(Len(s) - i) : b[j] = s[i + j]
  BY <1>1
<1>4. RemoveAt(s, i) = a \o b
  BY DEF RemoveAt
<1> HIDE DEF a, b
<1>5. /\ a \o b \in Seq(S)
      /\ Len(a \o b) = Len(s) - 1
      /\ \A j \in 1..(Len(s) - 1) : (a \o b)[j] = IF j < i THEN s[j] ELSE s[j + 1]
  BY <1>1, <1>2, <1>3
<1> QED BY <1>4, <1>5

LEMMA InsertAtProperties ==
  ASSUME NEW S, NEW s \in Seq(S), NEW i \in DOMAIN s, NEW e \in S
  PROVE  /\ InsertAt(s, i, e) \in Seq(S)
         /\ Len(InsertAt(s, i, e)) = Len(s) + 1
         /\ \A j \in 1..(i - 1) : InsertAt(s, i, e)[j] = s[j]
         /\ InsertAt(s, i, e)[i] = e
         /\ \A j \in (i + 1)..(Len(s) + 1) : InsertAt(s, i, e)[j] = s[j - 1]
<1> DEFINE a == SubSeq(s, 1, i - 1)
           b == SubSeq(s, i, Len(s))
<1>1. i \in 1..Len(s) /\ Len(s) \in Nat
  OBVIOUS
<1>2. a \in Seq(S) /\ Len(a) = i - 1 /\ \A j \in 1..(i - 1) : a[j] = s[j]
  BY <1>1
<1>3. b \in Seq(S) /\ Len(b) = Len(s) - i + 1 /\ \A j \in 1..(Len(s) - i + 1) : b[j] = s[i + j - 1]
  BY <1>1
<1>4. InsertAt(s, i, e) = a \o <<e>> \o b
  BY DEF InsertAt
<1> HIDE DEF a, b
<1>5. a \o <<e>> \in Seq(S) /\ Len(a \o <<e>>) = i
      /\ \A j \in 1..i : (a \o <<e>>)[j] = IF j < i THEN s[j] ELSE e
  BY <1>1, <1>2
<1> DEFINE c == a \o <<e>>
<1>6. c \in Seq(S) /\ Len(c) = i /\ \A j \in 1..i : c[j] = IF j < i THEN s[j] ELSE e
  BY <1>5
<1> HIDE DEF c
<1>7. /\ c \o b \in Seq(S)
      /\ Len(c \o b) = Len(s) + 1
      /\ \A j \in 1..i : (c \o b)[j] = c[j]
      /\ \A j \in (i + 1)..(Len(s) + 1) : (c \o b)[j] = b[j - i]
  <2>1. /\ c \o b \in Seq(S)
        /\ Len(c \o b) = Len(c) + Len(b)
        /\ \A j \in 1..(Len(c) + Len(b)) :
             (c \o b)[j] = IF j \leq Len(c) THEN c[j] ELSE b[j - Len(c)]
    BY <1>3, <1>6, ConcatProperties
  <2>2. Len(c) + Len(b) = Len(s) + 1 /\ i \leq Len(s) + 1
    <3>1. Len(c) = i
      BY <1>6
    <3>2. Len(b) = Len(s) - i + 1
      BY <1>3
    <3> QED BY <1>1, <3>1, <3>2
  <2>3. \A j \in 1..i : (c \o b)[j] = c[j]
    BY <1>1, <1>6, <2>1, <2>2
  <2>4. \A j \in (i + 1)..(Len(s) + 1) : (c \o b)[j] = b[j - i]
    BY <1>1, <1>6, <2>1, <2>2
  <2> QED BY <2>1, <2>2, <2>3, <2>4
<1>8. \A j \in 1..(i - 1) : (c \o b)[j] = s[j]
  BY <1>1, <1>6, <1>7
<1>9. (c \o b)[i] = e
  BY <1>1, <1>6, <1>7
<1>10. ASSUME NEW j \in (i + 1)..(Len(s) + 1)
       PROVE  (c \o b)[j] = s[j - 1]
  <2>1. j - i \in 1..(Len(s) - i + 1) /\ i + (j - i) - 1 = j - 1
    BY <1>1
  <2> QED BY <1>3, <1>7, <2>1
<1> QED BY <1>4, <1>7, <1>8, <1>9, <1>10 DEF c

LEMMA RemoveAtRange ==
  ASSUME NEW S, NEW s \in Seq(S), NEW i \in DOMAIN s
  PROVE  Range(RemoveAt(s, i)) \subseteq Range(s)
<1>1. Len(s) \in Nat /\ i \in 1..Len(s) /\ DOMAIN s = 1..Len(s)
  BY LenProperties
<1>2. DOMAIN RemoveAt(s, i) = 1..(Len(s) - 1)
  BY <1>1, RemoveAtProperties, LenProperties
<1>3. ASSUME NEW j \in 1..(Len(s) - 1)
      PROVE  \E k \in DOMAIN s : RemoveAt(s, i)[j] = s[k]
  <2>1. RemoveAt(s, i)[j] = IF j < i THEN s[j] ELSE s[j + 1]
    BY RemoveAtProperties
  <2>2. j \in DOMAIN s /\ j + 1 \in DOMAIN s
    BY <1>1
  <2> QED BY <2>1, <2>2
<1> QED BY <1>2, <1>3 DEF Range

LEMMA InsertAtRange ==
  ASSUME NEW S, NEW s \in Seq(S), NEW i \in DOMAIN s, NEW e \in Range(s)
  PROVE  /\ InsertAt(s, i, e) \in Seq(S)
         /\ Range(InsertAt(s, i, e)) \subseteq Range(s)
<1>1. Len(s) \in Nat /\ i \in 1..Len(s) /\ DOMAIN s = 1..Len(s)
  BY LenProperties
<1>2. e \in S
  BY LenProperties DEF Range
<1>3. InsertAt(s, i, e) \in Seq(S)
  BY <1>2, InsertAtProperties
<1>4. Len(InsertAt(s, i, e)) = Len(s) + 1
  BY <1>2, InsertAtProperties
<1>5. DOMAIN InsertAt(s, i, e) = 1..(Len(s) + 1)
  BY <1>3, <1>4, LenProperties
<1>6. \A j \in 1..(i - 1) : InsertAt(s, i, e)[j] = s[j]
  BY <1>2, InsertAtProperties
<1>7. \A j \in (i + 1)..(Len(s) + 1) : InsertAt(s, i, e)[j] = s[j - 1]
  BY <1>2, InsertAtProperties
<1>8. ASSUME NEW j \in 1..(Len(s) + 1)
      PROVE  InsertAt(s, i, e)[j] \in Range(s)
  <2>1. CASE j < i
    <3>1. j \in 1..(i - 1) /\ j \in DOMAIN s
      BY <1>1, <2>1
    <3>2. InsertAt(s, i, e)[j] = s[j]
      BY <1>6, <3>1
    <3> QED BY <3>1, <3>2 DEF Range
  <2>2. CASE j = i
    BY <1>2, <2>2, InsertAtProperties
  <2>3. CASE j > i
    <3>1. j \in (i + 1)..(Len(s) + 1) /\ j - 1 \in DOMAIN s
      BY <1>1, <2>3
    <3>2. InsertAt(s, i, e)[j] = s[j - 1]
      BY <1>7, <3>1
    <3> QED BY <3>1, <3>2 DEF Range
  <2> QED BY <1>1, <2>1, <2>2, <2>3
<1> QED BY <1>3, <1>5, <1>8 DEF Range

LEMMA AppendRange ==
  ASSUME NEW S, NEW s \in Seq(S), NEW e \in S
  PROVE  /\ Append(s, e) \in Seq(S)
         /\ Range(Append(s, e)) = Range(s) \cup {e}
<1>1. Len(s) \in Nat /\ DOMAIN s = 1..Len(s)
  BY LenProperties
<1>2. /\ Append(s, e) \in Seq(S)
      /\ DOMAIN Append(s, e) = 1..(Len(s) + 1)
      /\ \A j \in 1..Len(s) : Append(s, e)[j] = s[j]
      /\ Append(s, e)[Len(s) + 1] = e
  BY <1>1
<1> QED BY <1>1, <1>2 DEF Range

LEMMA RangeType ==
  ASSUME NEW S, NEW s \in Seq(S)
  PROVE  Range(s) \subseteq S
BY LenProperties DEF Range

-----------------------------------------------------------------------------
(* Datagrams.                                                              *)

LEMMA MakeHeaderType ==
  ASSUME NEW seq \in Nat, NEW len \in 0..BlockMax, NEW eof \in BOOLEAN,
         NEW ack \in BOOLEAN, NEW end \in 0..N, len \leq end
  PROVE  MakeHeader(seq, len, eof, ack, end) \in Datagram
<1>1. seq % SeqSpace \in Sequences32
  BY TransportAssumption DEF Sequences32
<1> QED BY <1>1 DEF MakeHeader, Datagram

(* Reducing a sequence to 32 bits never makes it larger, and leaves those  *)
(* that fit alone.                                                         *)
LEMMA Modulo ==
  ASSUME NEW n \in Nat
  PROVE  /\ n % SeqSpace \in Nat
         /\ n % SeqSpace \leq n
         /\ n < SeqSpace => n % SeqSpace = n
BY TransportAssumption

(* What other programs send.                                               *)
Strangers == {Foreign(TRUE), Foreign(FALSE)}

LEMMA StrangerType ==
  ASSUME NEW f \in Strangers
  PROVE  f \in Datagram /\ ~ f.magic /\ ~ f.ack
<1>1. 0 \in Sequences32 /\ 0 \in 0..BlockMax /\ 0 \in 0..N /\ 0 \leq 0
  BY TransportAssumption DEF Sequences32
<1>2. ASSUME NEW short \in BOOLEAN
      PROVE  Foreign(short) \in Datagram /\ ~ Foreign(short).magic /\ ~ Foreign(short).ack
  BY <1>1 DEF Foreign, Datagram
<1> QED BY <1>2 DEF Strangers

LEMMA StrayStep ==
  ASSUME Stray
  PROVE  \E f \in Strangers : \/ toRecv' = Append(toRecv, f) /\ UNCHANGED toSend
                              \/ toSend' = Append(toSend, f) /\ UNCHANGED toRecv
<1>1. PICK short \in BOOLEAN :
        /\ CanFault(IF short THEN "empty" ELSE "stray")
        /\ \/ toRecv' = Append(toRecv, Foreign(short)) /\ UNCHANGED toSend
           \/ toSend' = Append(toSend, Foreign(short)) /\ UNCHANGED toRecv
  BY DEF Stray
<1>2. PICK f \in Strangers : f = Foreign(short)
  BY DEF Strangers
<1>3. CASE toRecv' = Append(toRecv, Foreign(short)) /\ UNCHANGED toSend
  BY <1>2, <1>3
<1>4. CASE toSend' = Append(toSend, Foreign(short)) /\ UNCHANGED toRecv
  BY <1>2, <1>4
<1> QED BY <1>1, <1>3, <1>4

LEMMA ResponseType ==
  ASSUME NEW p \in Datagram
  PROVE  Response(p) \in Datagram
<1>1. /\ p.seq \in Nat /\ p.len \in Nat /\ p.eof \in BOOLEAN /\ p.end \in 0..N
  BY TransportAssumption DEF Datagram, Sequences32
<1>2. 0 \in 0..BlockMax /\ 0 \leq p.end /\ p.seq + p.len \in Nat /\ TRUE \in BOOLEAN
  BY <1>1, TransportAssumption
<1>3. MakeHeader(p.seq + p.len, 0, p.eof, TRUE, p.end) \in Datagram
  BY <1>1, <1>2, MakeHeaderType
<1> QED BY <1>3 DEF Response

(* The data of a datagram that is longer than a header: a block of the     *)
(* input.                                                                  *)
Block(p) == [i \in 1..p.len |-> p.end - p.len + i]

LEMMA BlockType ==
  ASSUME NEW p \in Datagram
  PROVE  /\ Block(p) \in Seq(0..N)
         /\ Len(Block(p)) = p.len
         /\ p.len \in Nat
         /\ \A i \in 1..p.len : Block(p)[i] = p.end - p.len + i
<1>1. p.len \in Nat /\ p.end \in 0..N /\ p.len \leq p.end
  BY TransportAssumption DEF Datagram
<1>2. \A i \in 1..p.len : p.end - p.len + i \in 0..N
  BY <1>1, TransportAssumption
<1>3. Block(p) \in [1..p.len -> 0..N]
  BY <1>1, <1>2, TransportAssumption DEF Block
<1>4. Block(p) \in Seq(0..N)
  BY <1>1, <1>3, SeqDef
<1>5. Len(Block(p)) = p.len
  BY <1>1, <1>3, <1>4, LenProperties
<1> QED BY <1>1, <1>4, <1>5 DEF Block

-----------------------------------------------------------------------------
(* Type correctness.                                                       *)

LEMMA TypeInit == Init => TypeOK
<1> SUFFICES ASSUME Init
             PROVE  TypeOK
  OBVIOUS
<1>1. 0 \in Sequences32 /\ 0 \in Lengths /\ 0 \in 0..N
  BY TransportAssumption DEF Sequences32, Lengths
<1>2. [i \in 1..(LenSpace - 1) |-> 0] \in [1..(LenSpace - 1) -> 0..N]
  BY <1>1
<1>3. NoHeader \in Buffer
  BY <1>1, <1>2 DEF NoHeader, Buffer
<1>4. sState = "send" /\ rState = "run" /\ sequence = 0 /\ taken = 0 /\ blocks = 0 /\ age = 0
      /\ faults = 0 /\ sTimer = Patience /\ rTimer = Patience
      /\ out = << >> /\ toRecv = << >> /\ toSend = << >> /\ sBuf = NoHeader /\ rBuf = NoHeader
  BY DEF Init
<1>5. << >> \in Seq(0..N) /\ << >> \in Seq(Datagram)
  OBVIOUS
<1>6. 0 \in 0..0 /\ Patience \in 0..Patience /\ 0 \in 0..Latency /\ 0 \in 0..MaxFaults
  BY TransportAssumption
<1> QED BY <1>1, <1>3, <1>4, <1>5, <1>6 DEF TypeOK

(* A failure is counted within its bound.                                  *)
LEMMA FaultCount ==
  ASSUME faults \in 0..MaxFaults, NEW ok \in BOOLEAN, SysCall(ok)
  PROVE  faults' \in 0..MaxFaults
BY TransportAssumption DEF SysCall, CanFault

(* What a buffer shows is of a buffer's type, and so is what it writes.    *)
LEMMA ReceivedType ==
  ASSUME NEW buf \in Buffer, NEW p \in Datagram
  PROVE  Received(buf, p) \in Buffer
<1>1. /\ buf.magic \in BOOLEAN /\ buf.ack \in BOOLEAN /\ buf.eof \in BOOLEAN
      /\ buf.seq \in Sequences32 /\ buf.len \in Lengths /\ buf.reread \in BOOLEAN
      /\ buf.data \in [1..(LenSpace - 1) -> 0..N]
  BY DEF Buffer
<1>2. /\ SwapSequence[buf.seq] \in Sequences32 /\ SwapLength[buf.len] \in Lengths
  BY <1>1, TransportAssumption
<1>3. CASE p.short
  <2>1. Received(buf, p) = [buf EXCEPT !.seq = SwapSequence[buf.seq], !.len = SwapLength[buf.len],
                                       !.reread = buf.reread \/ buf.magic]
    BY <1>3 DEF Received
  <2>2. (buf.reread \/ buf.magic) \in BOOLEAN
    BY <1>1
  <2> QED BY <1>2, <2>1, <2>2 DEF Buffer
<1>4. CASE ~ p.short
  <2>1. /\ p.magic \in BOOLEAN /\ p.ack \in BOOLEAN /\ p.eof \in BOOLEAN /\ p.seq \in Sequences32
        /\ p.len \in 0..BlockMax /\ p.end \in 0..N /\ p.len \leq p.end
    BY DEF Datagram
  <2>2. p.len \in Lengths
    BY <2>1, TransportAssumption DEF Lengths
  <2> DEFINE d == [i \in 1..(LenSpace - 1) |-> IF i \leq p.len THEN p.end - p.len + i ELSE buf.data[i]]
  <2>3. ASSUME NEW i \in 1..(LenSpace - 1)
        PROVE  (IF i \leq p.len THEN p.end - p.len + i ELSE buf.data[i]) \in 0..N
    <3>1. CASE i \leq p.len
      BY <2>1, <3>1, TransportAssumption
    <3>2. CASE ~ (i \leq p.len)
      BY <1>1, <3>2
    <3> QED BY <3>1, <3>2
  <2>4. d \in [1..(LenSpace - 1) -> 0..N]
    BY <2>3
  <2>5. Received(buf, p) = [magic |-> p.magic, ack |-> p.ack, eof |-> p.eof, seq |-> p.seq,
                            len |-> p.len, data |-> d, reread |-> buf.reread]
    BY <1>4 DEF Received
  <2> HIDE DEF d
  <2> QED BY <1>1, <2>1, <2>2, <2>4, <2>5 DEF Buffer
<1> QED BY <1>3, <1>4

LEMMA PayloadType ==
  ASSUME NEW h \in Buffer
  PROVE  Payload(h) \in Seq(0..N) /\ Len(Payload(h)) = h.len /\ h.len \in Nat
<1>1. h.len \in Nat /\ h.len \leq LenSpace - 1 /\ h.data \in [1..(LenSpace - 1) -> 0..N]
  BY TransportAssumption DEF Buffer, Lengths
<1>2. \A i \in 1..h.len : h.data[i] \in 0..N
  <2> TAKE i \in 1..h.len
  <2>1. i \in 1..(LenSpace - 1)
    BY <1>1, TransportAssumption
  <2> QED BY <1>1, <2>1
<1>3. Payload(h) \in [1..h.len -> 0..N]
  BY <1>2 DEF Payload
<1>4. Payload(h) \in Seq(0..N)
  BY ZenonT(30), <1>1, <1>3, SeqDef
<1> QED BY <1>1, <1>3, <1>4, LenProperties

(* What is written in one go is what the buffer shows, or the start of it. *)
LEMMA WriteType ==
  ASSUME TypeOK, NEW h \in Buffer, WriteData(h)
  PROVE  out' \in Seq(0..N) /\ faults' \in 0..MaxFaults
<1>1. out \in Seq(0..N) /\ faults \in 0..MaxFaults /\ MaxFaults \in Nat
  BY TransportAssumption DEF TypeOK
<1>2. Payload(h) \in Seq(0..N) /\ Len(Payload(h)) = h.len /\ h.len \in Nat
  BY PayloadType
<1>3. CASE out' = out \o Payload(h) /\ UNCHANGED faults
  BY <1>1, <1>2, <1>3, ConcatProperties
<1>4. CASE /\ CanFault("shortwrite")
           /\ faults' = faults + 1
           /\ \E n \in 0..h.len : n < h.len /\ out' = out \o SubSeq(Payload(h), 1, n)
  <2>1. PICK n \in 0..h.len : n < h.len /\ out' = out \o SubSeq(Payload(h), 1, n)
    BY <1>4
  <2>2. SubSeq(Payload(h), 1, n) \in Seq(0..N)
    <3>1. ASSUME NEW i \in 1..n
          PROVE  Payload(h)[i] \in 0..N
      <4>1. i \in 1..Len(Payload(h))
        BY <1>2, <2>1
      <4> QED BY <1>2, <4>1, ElementOfSeq
    <3>2. n \in Int /\ 1 \in Int
      BY <1>2
    <3> QED BY <3>1, <3>2, SubSeqProperties
  <2>3. out \o SubSeq(Payload(h), 1, n) \in Seq(0..N)
    BY <1>1, <2>2, ConcatProperties
  <2> QED BY <1>1, <1>4, <2>1, <2>3 DEF CanFault
<1> QED BY <1>3, <1>4 DEF WriteData

LEMMA TypeStep == TypeOK /\ [Next]_vars => TypeOK'
<1> SUFFICES ASSUME TypeOK, [Next]_vars
             PROVE  TypeOK'
  OBVIOUS
<1> USE TransportAssumption
<1>1. CASE SendNextPacket
  <2>1. PICK n \in 1..BlockMax, ok \in BOOLEAN :
          /\ taken + n \leq N
          /\ SysCall(ok)
          /\ taken' = taken + n
          /\ blocks' = blocks + 1
          /\ sState' = IF ok THEN "wait" ELSE "failed"
          /\ toRecv' = IF ok THEN Append(toRecv, MakeHeader(sequence, n, FALSE, FALSE, taken + n))
                             ELSE toRecv
          /\ age' = 0
    BY <1>1 DEF SendNextPacket
  <2>2. taken' \in 0..N /\ n \in 0..BlockMax /\ n \leq taken + n /\ sequence \in Nat
    BY <2>1 DEF TypeOK, Sequences32
  <2>3. MakeHeader(sequence, n, FALSE, FALSE, taken + n) \in Datagram
    BY <2>1, <2>2, MakeHeaderType
  <2>4. toRecv' \in Seq(Datagram)
    BY <2>1, <2>3, AppendRange DEF TypeOK
  <2>5. faults' \in 0..MaxFaults
    BY <2>1, FaultCount DEF TypeOK
  <2>6. sState' \in {"send", "wait", "done", "failed"} /\ age' \in 0..Latency
    BY <2>1
  <2>7. UNCHANGED <<sequence, sTimer, sBuf, rState, rTimer, rBuf, out, toSend>>
    BY <1>1 DEF SendNextPacket, receiverVars
  <2>8. blocks' \in 0..taken'
    BY <2>1 DEF TypeOK
  <2> QED BY <2>8, <2>2, <2>4, <2>5, <2>6, <2>7 DEF TypeOK
<1>2. CASE SendFinalPacket
  <2>1. PICK ok \in BOOLEAN :
          /\ SysCall(ok)
          /\ sState' = IF ok THEN "done" ELSE "failed"
          /\ toRecv' = IF ok THEN Append(toRecv, MakeHeader(sequence + 1, 0, TRUE, FALSE, N))
                             ELSE toRecv
          /\ age' = 0
    BY <1>2 DEF SendFinalPacket
  <2>2. sequence + 1 \in Nat /\ 0 \in 0..BlockMax /\ 0 \leq N /\ N \in 0..N
    BY DEF TypeOK, Sequences32
  <2>3. MakeHeader(sequence + 1, 0, TRUE, FALSE, N) \in Datagram
    BY <2>2, MakeHeaderType
  <2>4. toRecv' \in Seq(Datagram)
    BY <2>1, <2>3, AppendRange DEF TypeOK
  <2>5. faults' \in 0..MaxFaults
    BY <2>1, FaultCount DEF TypeOK
  <2>6. sState' \in {"send", "wait", "done", "failed"} /\ age' \in 0..Latency
    BY <2>1
  <2>7. UNCHANGED <<sequence, taken, sTimer, sBuf, blocks, rState, rTimer, rBuf, out, toSend>>
    BY <1>2 DEF SendFinalPacket, receiverVars
  <2> QED BY <2>4, <2>5, <2>6, <2>7 DEF TypeOK
<1>3. CASE RecvAck
  <2>1. PICK i \in Deliverable(toSend), ok \in BOOLEAN :
          /\ SysCall(ok)
          /\ toSend' = RemoveAt(toSend, i)
          /\ sBuf' = IF ok THEN Received(sBuf, toSend[i]) ELSE sBuf
          /\ IF ok /\ Acceptable(Received(sBuf, toSend[i]))
             THEN sState' = "send" /\ sequence' = Received(sBuf, toSend[i]).seq
             ELSE sState' = (IF ok THEN "wait" ELSE "failed") /\ UNCHANGED sequence
    BY <1>3 DEF RecvAck
  <2>2. i \in DOMAIN toSend /\ toSend \in Seq(Datagram)
    BY <2>1 DEF Deliverable, TypeOK
  <2>3. toSend' \in Seq(Datagram) /\ toSend[i] \in Datagram
    BY <2>1, <2>2, RemoveAtProperties
  <2>4. PICK h \in Buffer : h = Received(sBuf, toSend[i])
    BY <2>3, ReceivedType DEF TypeOK
  <2>5. sequence' \in Sequences32 /\ sBuf' \in Buffer
    BY <2>1, <2>4 DEF TypeOK, Buffer
  <2>6. faults' \in 0..MaxFaults
    BY <2>1, FaultCount DEF TypeOK
  <2>7. sState' \in {"send", "wait", "done", "failed"}
    BY <2>1
  <2>8. UNCHANGED <<taken, sTimer, blocks, rState, rTimer, rBuf, out, toRecv, age>>
    BY <1>3 DEF RecvAck, receiverVars
  <2> QED BY <2>3, <2>5, <2>6, <2>7, <2>8 DEF TypeOK
<1>4. CASE AckTimeout
  BY <1>4 DEF AckTimeout, TypeOK, vars, senderVars, receiverVars, netVars
<1>5. CASE RecvPacket
  <2>1. PICK i \in Deliverable(toRecv) :
          /\ \/ AcceptPacket(Received(rBuf, toRecv[i]), toRecv[i])
             \/ IgnorePacket(Received(rBuf, toRecv[i]))
             \/ RecvFails(Received(rBuf, toRecv[i]))
          /\ rBuf' = Received(rBuf, toRecv[i])
          /\ toRecv' = RemoveAt(toRecv, i)
    BY <1>5 DEF RecvPacket
  <2>2. i \in DOMAIN toRecv /\ toRecv \in Seq(Datagram)
    BY <2>1 DEF Deliverable, TypeOK
  <2>3. toRecv' \in Seq(Datagram) /\ toRecv[i] \in Datagram
    BY <2>1, <2>2, RemoveAtProperties
  <2>4. PICK p \in Datagram : p = toRecv[i]
    BY <2>3
  <2>5. PICK h \in Buffer : h = Received(rBuf, toRecv[i]) /\ rBuf' = h
    BY <2>1, <2>3, ReceivedType DEF TypeOK
  <2>6. UNCHANGED <<sState, sequence, taken, sTimer, sBuf, blocks, rTimer>>
    BY <1>5 DEF RecvPacket, senderVars
  <2>7. /\ out \in Seq(0..N) /\ toSend \in Seq(Datagram) /\ age \in 0..Latency
        /\ faults \in 0..MaxFaults /\ rState \in {"run", "eof", "timeout", "failed"}
    BY DEF TypeOK
  <2>8. CASE AcceptPacket(h, p)
    <3>1. toSend' \in Seq(Datagram) /\ age' \in 0..Latency
      <4>1. Response(p) \in Datagram
        BY ResponseType
      <4>2. Append(toSend, Response(p)) \in Seq(Datagram) /\ 0 \in 0..Latency
        BY <2>7, <4>1, AppendRange, TransportAssumption
      <4>3. \/ toSend' = toSend /\ age' = age
            \/ toSend' = Append(toSend, Response(p)) /\ age' = 0
        BY <2>8 DEF AcceptPacket, Respond
      <4> QED BY <2>7, <4>2, <4>3
    <3>2. out' \in Seq(0..N) /\ faults' \in 0..MaxFaults
      BY <2>8, WriteType DEF AcceptPacket
    <3>3. rState' \in {"run", "eof", "timeout", "failed"}
      BY <2>8 DEF AcceptPacket
    <3> QED BY <2>3, <2>5, <2>6, <3>1, <3>2, <3>3 DEF TypeOK
  <2>9. CASE IgnorePacket(h)
    BY <2>3, <2>5, <2>6, <2>9 DEF IgnorePacket, TypeOK
  <2>10. CASE RecvFails(h)
    <3>1. out' \in Seq(0..N)
      <4>1. Payload(h) \in Seq(0..N)
        BY PayloadType
      <4>2. out \o Payload(h) \in Seq(0..N)
        BY <2>7, <4>1, ConcatProperties
      <4> QED BY <2>7, <2>10, <4>2 DEF RecvFails
    <3>2. faults' \in 0..MaxFaults /\ rState' = "failed" /\ UNCHANGED <<toSend, age>>
      BY <2>7, <2>10 DEF RecvFails, CanFault
    <3> QED BY <2>3, <2>5, <2>6, <3>1, <3>2 DEF TypeOK
  <2> QED BY <2>1, <2>4, <2>5, <2>8, <2>9, <2>10
<1>6. CASE RecvTimeout
  BY <1>6 DEF RecvTimeout, TypeOK, senderVars, netVars
<1>7. CASE Drop
  <2>1. ASSUME NEW c \in Seq(Datagram), NEW i \in DOMAIN c
        PROVE  RemoveAt(c, i) \in Seq(Datagram)
    BY RemoveAtProperties
  <2>2. toRecv' \in Seq(Datagram) /\ toSend' \in Seq(Datagram)
    BY <1>7, <2>1 DEF Drop, TypeOK
  <2> QED BY <1>7, <2>2 DEF Drop, CanFault, TypeOK, senderVars, receiverVars
<1>8. CASE Duplicate
  <2>1. ASSUME NEW c \in Seq(Datagram), NEW i \in DOMAIN c
        PROVE  InsertAt(c, i, c[i]) \in Seq(Datagram)
    BY InsertAtRange DEF Range
  <2>2. toRecv' \in Seq(Datagram) /\ toSend' \in Seq(Datagram)
    BY <1>8, <2>1 DEF Duplicate, TypeOK
  <2> QED BY <1>8, <2>2 DEF Duplicate, CanFault, TypeOK, senderVars, receiverVars
<1>9. CASE Stray
  <2>1. ASSUME NEW c \in Seq(Datagram)
        PROVE  \A f \in Strangers : Append(c, f) \in Seq(Datagram)
    BY StrangerType
  <2>2. toRecv' \in Seq(Datagram) /\ toSend' \in Seq(Datagram)
    <3>1. PICK f \in Strangers : \/ toRecv' = Append(toRecv, f) /\ UNCHANGED toSend
                                 \/ toSend' = Append(toSend, f) /\ UNCHANGED toRecv
      BY <1>9, StrayStep
    <3> QED BY <2>1, <3>1 DEF TypeOK
  <2> QED BY <1>9, <2>2 DEF Stray, CanFault, TypeOK, senderVars, receiverVars
<1>10. CASE Tick
  BY <1>10 DEF Tick, TypeOK
<1>11. CASE Terminated \/ UNCHANGED vars
  BY <1>11 DEF Terminated, TypeOK, vars, senderVars, receiverVars, netVars
<1> QED BY <1>1, <1>2, <1>3, <1>4, <1>5, <1>6, <1>7, <1>8, <1>9, <1>10, <1>11 DEF Next

(* The state of the two programs and of the network is always well formed; *)
(* in particular every sequence fits in 32 bits and every datagram carries *)
(* a block of the input.                                                   *)
THEOREM TypeCorrect == Spec => []TypeOK
BY TypeInit, TypeStep, PTL DEF Spec

-----------------------------------------------------------------------------
(* Until a header is looked at a second time, what the programs see are    *)
(* the datagrams: the steps they take then, in terms of these alone.       *)

PlainRecvAck ==
  /\ sState = "wait"
  /\ \E i \in Deliverable(toSend), ok \in BOOLEAN :
       /\ SysCall(ok)
       /\ toSend' = RemoveAt(toSend, i)
       /\ IF ok /\ Acceptable(toSend[i])
          THEN sState' = "send" /\ sequence' = toSend[i].seq
          ELSE sState' = (IF ok THEN "wait" ELSE "failed") /\ UNCHANGED sequence
  /\ UNCHANGED <<taken, sTimer, blocks, receiverVars, toRecv, age>>

PlainWrite(p) ==
  \/ out' = out \o Block(p) /\ UNCHANGED faults
  \/ /\ CanFault("shortwrite")
     /\ faults' = faults + 1
     /\ \E n \in 0..p.len : n < p.len /\ out' = out \o SubSeq(Block(p), 1, n)

PlainAccept(p) ==
  /\ p.magic
  /\ PlainWrite(p)
  /\ toSend' = Append(toSend, Response(p))
  /\ age' = 0
  /\ rState' = IF p.eof THEN "eof" ELSE "run"

PlainIgnore(p) == ~ p.magic /\ UNCHANGED <<rState, out, toSend, age, faults>>

PlainFails(p) ==
  /\ CanFault("syscall")
  /\ faults' = faults + 1
  /\ rState' = "failed"
  /\ UNCHANGED out \/ (p.magic /\ out' = out \o Block(p))
  /\ UNCHANGED <<toSend, age>>

PlainRecvPacket ==
  /\ rState = "run"
  /\ \E i \in Deliverable(toRecv) :
       /\ PlainAccept(toRecv[i]) \/ PlainIgnore(toRecv[i]) \/ PlainFails(toRecv[i])
       /\ toRecv' = RemoveAt(toRecv, i)
  /\ UNCHANGED <<senderVars, rTimer>>

PlainNext ==
  \/ SendNextPacket
  \/ SendFinalPacket
  \/ PlainRecvAck
  \/ AckTimeout
  \/ PlainRecvPacket
  \/ RecvTimeout
  \/ Drop
  \/ Duplicate
  \/ Stray
  \/ Tick
  \/ Terminated

(* The buffer shows the datagram, if there is a header in that.            *)
LEMMA ReceivedFields ==
  ASSUME NEW buf \in Buffer, NEW p \in Datagram, NEW h, h = Received(buf, p)
  PROVE  /\ buf.reread => h.reread
         /\ p.short => h.magic = buf.magic /\ h.reread = (buf.reread \/ buf.magic)
         /\ ~ p.short => /\ h.magic = p.magic /\ h.ack = p.ack /\ h.eof = p.eof
                         /\ h.seq = p.seq /\ h.len = p.len /\ Payload(h) = Block(p)
<1>1. CASE p.short
  <2>1. h = [buf EXCEPT !.seq = SwapSequence[buf.seq], !.len = SwapLength[buf.len],
                        !.reread = buf.reread \/ buf.magic]
    BY <1>1 DEF Received
  <2>2. h.magic = buf.magic /\ h.reread = (buf.reread \/ buf.magic)
    BY <2>1 DEF Buffer
  <2> QED BY <1>1, <2>2
<1>2. CASE ~ p.short
  <2> DEFINE d == [i \in 1..(LenSpace - 1) |-> IF i \leq p.len THEN p.end - p.len + i ELSE buf.data[i]]
  <2>1. h = [magic |-> p.magic, ack |-> p.ack, eof |-> p.eof, seq |-> p.seq,
             len |-> p.len, data |-> d, reread |-> buf.reread]
    BY <1>2 DEF Received
  <2>2. \A i \in 1..p.len : d[i] = p.end - p.len + i
    <3>1. p.len \in Nat /\ p.len < LenSpace /\ LenSpace \in Nat
      BY TransportAssumption DEF Datagram
    <3>2. \A i \in 1..p.len : i \in 1..(LenSpace - 1) /\ i \leq p.len
      BY <3>1
    <3> QED BY <3>2
  <2> HIDE DEF d
  <2>3. h.len = p.len /\ h.data = d
    BY <2>1
  <2>4. Payload(h) = Block(p)
    BY <2>2, <2>3 DEF Payload, Block
  <2> QED BY <1>2, <2>1, <2>4
<1> QED BY <1>1, <1>2

LEMMA PlainStep ==
  ASSUME TypeOK, [Next]_vars, ~ Reread'
  PROVE  ~ Reread /\ [PlainNext]_vars
<1>1. CASE RecvAck
  <2>1. PICK i \in Deliverable(toSend), ok \in BOOLEAN :
          /\ SysCall(ok)
          /\ toSend' = RemoveAt(toSend, i)
          /\ sBuf' = IF ok THEN Received(sBuf, toSend[i]) ELSE sBuf
          /\ IF ok /\ Acceptable(Received(sBuf, toSend[i]))
             THEN sState' = "send" /\ sequence' = Received(sBuf, toSend[i]).seq
             ELSE sState' = (IF ok THEN "wait" ELSE "failed") /\ UNCHANGED sequence
    BY <1>1 DEF RecvAck
  <2>2. toSend[i] \in Datagram /\ sBuf \in Buffer
    BY <2>1, RemoveAtProperties, ElementOfSeq, LenProperties DEF Deliverable, TypeOK
  <2>3. PICK p \in Datagram : p = toSend[i]
    BY <2>2
  <2>4. PICK h : h = Received(sBuf, p)
    OBVIOUS
  <2>5. /\ sBuf.reread => h.reread
        /\ p.short => h.magic = sBuf.magic /\ h.reread = (sBuf.reread \/ sBuf.magic)
        /\ ~ p.short => h.magic = p.magic /\ h.ack = p.ack /\ h.seq = p.seq
    BY <2>2, <2>4, ReceivedFields
  <2>6. sBuf' = (IF ok THEN h ELSE sBuf) /\ UNCHANGED rBuf
    BY <1>1, <2>1, <2>3, <2>4 DEF RecvAck, receiverVars
  <2>7. ~ Reread
    BY <2>5, <2>6 DEF Reread
  <2>8. ok => (p.short => ~ h.magic /\ ~ p.magic)
    BY <2>5, <2>6 DEF Reread, Datagram
  <2>9. ok => (Acceptable(h) <=> Acceptable(p)) /\ (Acceptable(h) => h.seq = p.seq)
    BY <2>5, <2>8 DEF Acceptable
  <2>10. IF ok /\ Acceptable(toSend[i])
         THEN sState' = "send" /\ sequence' = toSend[i].seq
         ELSE sState' = (IF ok THEN "wait" ELSE "failed") /\ UNCHANGED sequence
    BY <2>1, <2>3, <2>4, <2>9
  <2>11. /\ sState = "wait"
         /\ UNCHANGED <<taken, sTimer, blocks, receiverVars, toRecv, age>>
    <3>1. UNCHANGED <<taken, sTimer, blocks, rState, rTimer, rBuf, out, toRecv, age>>
      BY <1>1 DEF RecvAck, receiverVars
    <3> QED BY <1>1, <3>1 DEF RecvAck, receiverVars
  <2>12. PlainRecvAck
    BY <2>1, <2>10, <2>11 DEF PlainRecvAck
  <2> QED BY <2>7, <2>12 DEF PlainNext
<1>2. CASE RecvPacket
  <2>1. PICK i \in Deliverable(toRecv) :
          /\ \/ AcceptPacket(Received(rBuf, toRecv[i]), toRecv[i])
             \/ IgnorePacket(Received(rBuf, toRecv[i]))
             \/ RecvFails(Received(rBuf, toRecv[i]))
          /\ rBuf' = Received(rBuf, toRecv[i])
          /\ toRecv' = RemoveAt(toRecv, i)
    BY <1>2 DEF RecvPacket
  <2>2. toRecv[i] \in Datagram /\ rBuf \in Buffer
    BY <2>1, RemoveAtProperties, ElementOfSeq, LenProperties DEF Deliverable, TypeOK
  <2>3. PICK p \in Datagram : p = toRecv[i]
    BY <2>2
  <2>4. PICK h : h = Received(rBuf, p)
    OBVIOUS
  <2>5. /\ rBuf.reread => h.reread
        /\ p.short => h.magic = rBuf.magic /\ h.reread = (rBuf.reread \/ rBuf.magic)
        /\ ~ p.short => /\ h.magic = p.magic /\ h.eof = p.eof
                        /\ h.len = p.len /\ Payload(h) = Block(p)
    BY <2>2, <2>4, ReceivedFields
  <2>6. rBuf' = h /\ UNCHANGED sBuf
    BY <1>2, <2>1, <2>3, <2>4 DEF RecvPacket, senderVars
  <2>7. ~ Reread
    BY <2>5, <2>6 DEF Reread
  <2>8. p.short => ~ h.magic /\ ~ p.magic
    BY <2>5, <2>6 DEF Reread, Datagram
  <2>9. AcceptPacket(h, p) => PlainAccept(p)
    BY <2>5, <2>8 DEF AcceptPacket, PlainAccept, WriteData, PlainWrite, Respond
  <2>10. IgnorePacket(h) => PlainIgnore(p)
    BY <2>5, <2>8 DEF IgnorePacket, PlainIgnore
  <2>11. RecvFails(h) => PlainFails(p)
    BY <2>5, <2>8 DEF RecvFails, PlainFails
  <2>12. PlainAccept(toRecv[i]) \/ PlainIgnore(toRecv[i]) \/ PlainFails(toRecv[i])
    BY <2>1, <2>3, <2>4, <2>9, <2>10, <2>11
  <2>13. rState = "run" /\ UNCHANGED <<senderVars, rTimer>>
    BY <1>2 DEF RecvPacket
  <2>14. PlainRecvPacket
    BY <2>1, <2>12, <2>13 DEF PlainRecvPacket
  <2> QED BY <2>7, <2>14 DEF PlainNext
<1>3. CASE ~ RecvAck /\ ~ RecvPacket
  <2>1. [PlainNext]_vars
    BY <1>3 DEF Next, PlainNext
  <2>2. UNCHANGED <<sBuf, rBuf>>
    BY <1>3 DEF Next, SendNextPacket, SendFinalPacket, AckTimeout, RecvTimeout, Drop, Duplicate, Stray,
               Tick, Terminated, vars, senderVars, receiverVars, netVars
  <2> QED BY <2>1, <2>2 DEF Reread
<1> QED BY <1>1, <1>2, <1>3

-----------------------------------------------------------------------------
(* The inductive invariants.                                               *)

(* What the headers in flight say of the transfer, on any network, until a *)
(* header is looked at a second time.                                      *)
LabelInv ==
  /\ sequence \leq taken
  /\ \A p \in Range(toRecv) : p.magic =>
       /\ p.eof => sState = "done"
       /\ ~ p.eof => p.seq + p.len \leq p.end /\ p.end \leq taken
       /\ (sState = "wait" /\ p.end = taken) => p.seq = sequence
  /\ \A p \in Range(toSend) : p.magic =>
       /\ p.eof => sState = "done"
       /\ ~ p.eof => p.seq \leq p.end /\ p.end \leq taken
       /\ (sState = "wait" /\ taken < SeqSpace /\ p.end = taken) => p.seq \geq sequence
  /\ \A p \in Range(toSend) : p.ack => p.magic

(* What is left of that when headers are looked at twice.                  *)
FreshInv ==
  /\ \A p \in Range(toRecv) : p.magic =>
       /\ p.eof => sState = "done"
       /\ ~ p.eof => p.end \leq taken
       /\ (sState = "wait" /\ p.end = taken) => p.seq = sequence
  /\ \A p \in Range(toSend) : p.magic =>
       /\ p.eof => sState = "done"
       /\ ~ p.eof => p.end \leq taken
       /\ (sState = "wait" /\ p.end = taken /\ sequence + BlockMax < SeqSpace) => p.seq \geq sequence
  /\ \A p \in Range(toSend) : p.ack => p.magic

-----------------------------------------------------------------------------
(* Facts shared by the proofs below.                                       *)

LEMMA DatagramFields ==
  ASSUME NEW p \in Datagram
  PROVE  /\ p.magic \in BOOLEAN /\ p.ack \in BOOLEAN /\ p.eof \in BOOLEAN
         /\ p.seq \in Nat /\ p.seq < SeqSpace
         /\ p.len \in Nat /\ p.end \in Nat /\ p.len \leq p.end /\ p.end \leq N
BY TransportAssumption DEF Datagram, Sequences32

LEMMA TypeFacts ==
  ASSUME TypeOK
  PROVE  /\ sequence \in Nat /\ sequence < SeqSpace /\ taken \in Nat /\ taken \leq N
         /\ toRecv \in Seq(Datagram) /\ toSend \in Seq(Datagram)
         /\ Range(toRecv) \subseteq Datagram /\ Range(toSend) \subseteq Datagram
         /\ out \in Seq(0..N) /\ Len(out) \in Nat
         /\ N \in Nat /\ SeqSpace \in Nat \ {0} /\ BlockMax \in Nat
BY TransportAssumption, RangeType DEF TypeOK, Sequences32

(* Losing or copying a datagram adds no other.                             *)
LEMMA FiniteNetwork ==
  ASSUME TypeOK, Drop \/ Duplicate
  PROVE  Range(toRecv') \subseteq Range(toRecv) /\ Range(toSend') \subseteq Range(toSend)
<1>1. toRecv \in Seq(Datagram) /\ toSend \in Seq(Datagram)
  BY DEF TypeOK
<1>2. CASE Drop
  <2>1. ASSUME NEW c \in Seq(Datagram), NEW i \in DOMAIN c
        PROVE  Range(RemoveAt(c, i)) \subseteq Range(c)
    BY RemoveAtRange
  <2> QED BY <1>1, <1>2, <2>1 DEF Drop
<1>3. CASE Duplicate
  <2>1. ASSUME NEW c \in Seq(Datagram), NEW i \in DOMAIN c
        PROVE  Range(InsertAt(c, i, c[i])) \subseteq Range(c)
    <3>1. c[i] \in Range(c)
      BY DEF Range
    <3> QED BY <3>1, InsertAtRange
  <2> QED BY <1>1, <1>3, <2>1 DEF Duplicate
<1> QED BY <1>2, <1>3

(* The network invents nothing but the datagrams of other programs.        *)
LEMMA NetworkStep ==
  ASSUME TypeOK, Drop \/ Duplicate \/ Stray
  PROVE  /\ UNCHANGED <<senderVars, receiverVars>>
         /\ Range(toRecv') \subseteq Range(toRecv) \cup Strangers
         /\ Range(toSend') \subseteq Range(toSend) \cup Strangers
<1>1. UNCHANGED <<senderVars, receiverVars>>
  BY DEF Drop, Duplicate, Stray
<1>2. CASE Drop \/ Duplicate
  BY <1>1, <1>2, FiniteNetwork
<1>3. CASE Stray
  <2>1. ASSUME NEW c \in Seq(Datagram)
        PROVE  \A f \in Strangers : Range(Append(c, f)) \subseteq Range(c) \cup Strangers
    BY StrangerType, AppendRange
  <2>2. \A short \in BOOLEAN : Foreign(short) \in Strangers
    BY DEF Strangers
  <2>3. toRecv \in Seq(Datagram) /\ toSend \in Seq(Datagram)
    BY DEF TypeOK
  <2> QED BY <1>1, <1>3, <2>1, <2>2, <2>3 DEF Stray
<1> QED BY <1>2, <1>3

(* A datagram taken from the socket was in the channel, and what remains   *)
(* there was there before.                                                 *)
LEMMA TakeFromChannel ==
  ASSUME NEW c \in Seq(Datagram), NEW i \in Deliverable(c)
  PROVE  /\ i \in DOMAIN c
         /\ c[i] \in Range(c)
         /\ c[i] \in Datagram
         /\ Range(RemoveAt(c, i)) \subseteq Range(c)
<1>1. i \in DOMAIN c
  BY DEF Deliverable
<1>2. c[i] \in Range(c) /\ Range(c) \subseteq Datagram
  BY <1>1, RangeType DEF Range
<1>3. Range(RemoveAt(c, i)) \subseteq Range(c)
  BY <1>1, RemoveAtRange
<1> QED BY <1>1, <1>2, <1>3

(* Writing a payload extends the output.                                   *)
LEMMA WriteExtends ==
  ASSUME TypeOK, NEW p \in Datagram, PlainWrite(p)
  PROVE  /\ Len(out') \in Nat /\ Len(out) \leq Len(out')
         /\ "shortwrite" \notin Faults => out' = out \o Block(p) /\ Len(out') = Len(out) + p.len
<1>1. out \in Seq(0..N) /\ Len(out) \in Nat
  BY TypeFacts
<1>2. Block(p) \in Seq(0..N) /\ Len(Block(p)) = p.len /\ p.len \in Nat
  BY BlockType
<1>3. CASE out' = out \o Block(p) /\ UNCHANGED faults
  <2>1. Len(out \o Block(p)) = Len(out) + Len(Block(p))
    BY <1>1, <1>2, ConcatProperties
  <2> QED BY <1>1, <1>2, <1>3, <2>1
<1>4. CASE /\ CanFault("shortwrite")
           /\ faults' = faults + 1
           /\ \E n \in 0..p.len : n < p.len /\ out' = out \o SubSeq(Block(p), 1, n)
  <2>1. PICK n \in 0..p.len : n < p.len /\ out' = out \o SubSeq(Block(p), 1, n)
    BY <1>4
  <2>2. n \in Int /\ 1 \in Int /\ \A i \in 1..n : Block(p)[i] \in 0..N
    <3>1. ASSUME NEW i \in 1..n PROVE Block(p)[i] \in 0..N
      <4>1. i \in 1..Len(Block(p))
        BY <1>2, <2>1
      <4> QED BY <1>2, <4>1, ElementOfSeq
    <3> QED BY <1>2, <3>1
  <2>3. SubSeq(Block(p), 1, n) \in Seq(0..N) /\ Len(SubSeq(Block(p), 1, n)) \in Nat
    <3>1. SubSeq(Block(p), 1, n) \in Seq(0..N)
      BY <2>2, SubSeqProperties
    <3> QED BY <3>1, LenProperties
  <2>4. Len(out') = Len(out) + Len(SubSeq(Block(p), 1, n))
    BY <1>1, <2>1, <2>3, ConcatProperties
  <2> QED BY <1>1, <1>4, <2>3, <2>4 DEF CanFault
<1> QED BY <1>3, <1>4 DEF PlainWrite

(* However much write() takes, it takes the beginning of the payload.      *)
LEMMA WriteContinues ==
  ASSUME TypeOK, NEW p \in Datagram, PlainWrite(p) \/ out' = out \o Block(p)
  PROVE  /\ out' \in Seq(0..N) /\ Len(out') \in Nat /\ DOMAIN out' = 1..Len(out')
         /\ Len(out) \leq Len(out') /\ Len(out') \leq Len(out) + p.len
         /\ \A i \in 1..Len(out) : out'[i] = out[i]
         /\ \A i \in (Len(out) + 1)..Len(out') : out'[i] = p.end - p.len + (i - Len(out))
<1>1. out \in Seq(0..N) /\ Len(out) \in Nat
  BY TypeFacts
<1>2. /\ Block(p) \in Seq(0..N) /\ Len(Block(p)) = p.len /\ p.len \in Nat
      /\ \A i \in 1..p.len : Block(p)[i] = p.end - p.len + i
  BY BlockType DEF Block
<1>3. PICK e \in Seq(0..N) : /\ out' = out \o e /\ Len(e) \in Nat /\ Len(e) \leq p.len
                             /\ \A i \in 1..Len(e) : e[i] = p.end - p.len + i
  <2>1. CASE out' = out \o Block(p)
    BY SMTT(30), <1>2, <2>1
  <2>2. CASE \E n \in 0..p.len : n < p.len /\ out' = out \o SubSeq(Block(p), 1, n)
    <3>1. PICK n \in 0..p.len : n < p.len /\ out' = out \o SubSeq(Block(p), 1, n)
      BY <2>2
    <3>2. n \in Int /\ 1 \in Int /\ n \in Nat
      BY <1>2
    <3>3. ASSUME NEW i \in 1..n PROVE i \in 1..Len(Block(p)) /\ Block(p)[i] \in 0..N
      <4>1. i \in 1..Len(Block(p))
        BY <1>2, <3>1
      <4> QED BY <1>2, <4>1, ElementOfSeq
    <3> DEFINE e == SubSeq(Block(p), 1, n)
    <3>4. e \in Seq(0..N) /\ Len(e) = n /\ \A i \in 1..n : e[i] = Block(p)[i]
      BY <3>2, <3>3, SubSeqProperties
    <3>5. \A i \in 1..n : e[i] = p.end - p.len + i
      BY <1>2, <3>1, <3>4
    <3> HIDE DEF e
    <3>6. Len(e) \in Nat /\ Len(e) \leq p.len
      BY <3>4, <3>1, <3>2
    <3> QED BY <3>1, <3>4, <3>5, <3>6 DEF e
  <2> QED BY <2>1, <2>2 DEF PlainWrite
<1>4. /\ out' \in Seq(0..N) /\ Len(out') = Len(out) + Len(e)
      /\ \A i \in 1..(Len(out) + Len(e)) : out'[i] = IF i \leq Len(out) THEN out[i] ELSE e[i - Len(out)]
  BY <1>1, <1>3, ConcatProperties
<1>5. DOMAIN out' = 1..Len(out')
  BY <1>4, LenProperties
<1>6. \A i \in (Len(out) + 1)..Len(out') : out'[i] = p.end - p.len + (i - Len(out))
  <2> TAKE i \in (Len(out) + 1)..Len(out')
  <2>1. i - Len(out) \in 1..Len(e) /\ i \in 1..(Len(out) + Len(e)) /\ ~ (i \leq Len(out))
    BY <1>1, <1>3, <1>4
  <2> QED BY <1>3, <1>4, <2>1
<1>7. Len(out') \in Nat /\ Len(out) \leq Len(out') /\ Len(out') \leq Len(out) + p.len
  BY <1>1, <1>2, <1>3, <1>4
<1>8. \A i \in 1..Len(out) : out'[i] = out[i]
  BY <1>1, <1>3, <1>4
<1> QED BY <1>4, <1>5, <1>6, <1>7, <1>8

-----------------------------------------------------------------------------
(* The headers in flight.                                                  *)

LEMMA LabelInit == Init => LabelInv
<1>1. Range(<< >>) = {}
  BY DEF Range
<1> QED BY <1>1 DEF Init, LabelInv

LEMMA LabelSend ==
  ASSUME TypeOK, LabelInv, SendNextPacket
  PROVE  LabelInv'
<1>1. PICK n \in 1..BlockMax, ok \in BOOLEAN :
        /\ taken + n \leq N
        /\ taken' = taken + n
        /\ sState' = IF ok THEN "wait" ELSE "failed"
        /\ toRecv' = IF ok THEN Append(toRecv, MakeHeader(sequence, n, FALSE, FALSE, taken + n))
                           ELSE toRecv
  BY DEF SendNextPacket
<1> DEFINE new == MakeHeader(sequence, n, FALSE, FALSE, taken + n)
<1>2. sState = "send" /\ UNCHANGED <<sequence, toSend>>
  BY DEF SendNextPacket
<1>3. n \in Nat /\ n > 0 /\ n \in 0..BlockMax /\ n \leq taken + n /\ taken + n \in 0..N
      /\ sequence \in Nat
  BY <1>1, TypeFacts
<1>4. /\ new.magic = TRUE /\ new.eof = FALSE /\ new.len = n /\ new.end = taken + n
      /\ new.seq = sequence
  BY <1>3, Modulo, TypeFacts DEF MakeHeader
<1>5. new \in Datagram
  BY <1>3, MakeHeaderType
<1> HIDE DEF new
<1>6. Range(toRecv') \subseteq Range(toRecv) \cup {new}
  BY <1>1, <1>5, AppendRange, TypeFacts DEF new
<1>7. (sequence \leq taken)'
  BY <1>1, <1>2, <1>3, TypeFacts DEF LabelInv
<1>8. ASSUME NEW p \in Range(toRecv'), p.magic
      PROVE  /\ p.eof => sState' = "done"
             /\ ~ p.eof => p.seq + p.len \leq p.end /\ p.end \leq taken'
             /\ (sState' = "wait" /\ p.end = taken') => p.seq = sequence'
  <2>1. CASE p = new
    BY <1>1, <1>2, <1>3, <1>4, <2>1, TypeFacts DEF LabelInv
  <2>2. CASE p \in Range(toRecv)
    <3>1. ~ p.eof /\ p.seq + p.len \leq p.end /\ p.end \leq taken
      BY <1>2, <1>8, <2>2 DEF LabelInv
    <3>2. p.end \in Nat
      BY <2>2, DatagramFields, TypeFacts
    <3> QED BY <1>1, <1>3, <3>1, <3>2, TypeFacts
  <2> QED BY <1>6, <2>1, <2>2
<1>9. ASSUME NEW p \in Range(toSend), p.magic
      PROVE  /\ ~ p.eof /\ p.seq \leq p.end /\ p.end \leq taken'
             /\ p.end # taken'
  <2>1. ~ p.eof /\ p.seq \leq p.end /\ p.end \leq taken
    BY <1>2, <1>9 DEF LabelInv
  <2>2. p.end \in Nat
    BY DatagramFields, TypeFacts
  <2> QED BY <1>1, <1>3, <2>1, <2>2, TypeFacts
<1>10. \A p \in Range(toSend') : p.ack => p.magic
  BY <1>2 DEF LabelInv
<1> QED BY <1>2, <1>7, <1>8, <1>9, <1>10 DEF LabelInv

LEMMA LabelFinal ==
  ASSUME TypeOK, LabelInv, SendFinalPacket
  PROVE  LabelInv'
<1>1. PICK ok \in BOOLEAN :
        /\ sState' = IF ok THEN "done" ELSE "failed"
        /\ toRecv' = IF ok THEN Append(toRecv, MakeHeader(sequence + 1, 0, TRUE, FALSE, N))
                           ELSE toRecv
  BY DEF SendFinalPacket
<1> DEFINE new == MakeHeader(sequence + 1, 0, TRUE, FALSE, N)
<1>2. sState = "send" /\ UNCHANGED <<sequence, taken, toSend>>
  BY DEF SendFinalPacket
<1>3. sequence + 1 \in Nat /\ 0 \in 0..BlockMax /\ 0 \leq N /\ N \in 0..N
  BY TypeFacts
<1>4. new.eof = TRUE
  BY DEF MakeHeader
<1>5. new \in Datagram
  BY <1>3, MakeHeaderType
<1> HIDE DEF new
<1>6. CASE ok
  <2>1. Range(toRecv') = Range(toRecv) \cup {new}
    BY ZenonT(30), <1>1, <1>5, <1>6, AppendRange, TypeFacts DEF new
  <2> QED BY <1>1, <1>2, <1>4, <1>6, <2>1 DEF LabelInv
<1>7. CASE ~ ok
  BY <1>1, <1>2, <1>7 DEF LabelInv
<1> QED BY <1>6, <1>7

LEMMA LabelRecvAck ==
  ASSUME TypeOK, LabelInv, PlainRecvAck
  PROVE  LabelInv'
<1>1. PICK i \in Deliverable(toSend), ok \in BOOLEAN :
        /\ toSend' = RemoveAt(toSend, i)
        /\ IF ok /\ Acceptable(toSend[i])
           THEN sState' = "send" /\ sequence' = toSend[i].seq
           ELSE sState' = (IF ok THEN "wait" ELSE "failed") /\ UNCHANGED sequence
  BY DEF PlainRecvAck
<1>2. sState = "wait" /\ UNCHANGED <<taken, toRecv>>
  BY DEF PlainRecvAck
<1>3. toSend[i] \in Range(toSend) /\ toSend[i] \in Datagram /\ Range(toSend') \subseteq Range(toSend)
  BY <1>1, TakeFromChannel, TypeFacts
<1>4. CASE ok /\ Acceptable(toSend[i])
  <2>1. toSend[i].seq \leq toSend[i].end /\ toSend[i].end \leq taken
    BY <1>2, <1>3, <1>4 DEF LabelInv, Acceptable
  <2>2. sequence' \leq taken'
    BY <1>1, <1>2, <1>3, <1>4, <2>1, DatagramFields, TypeFacts
  <2>3. sState' = "send"
    BY <1>1, <1>4
  <2> QED BY <1>2, <1>3, <2>2, <2>3 DEF LabelInv
<1>5. CASE ~ (ok /\ Acceptable(toSend[i]))
  BY <1>1, <1>2, <1>3, <1>5 DEF LabelInv
<1> QED BY <1>4, <1>5

LEMMA LabelRecvPacket ==
  ASSUME TypeOK, LabelInv, PlainRecvPacket
  PROVE  LabelInv'
<1>1. PICK i \in Deliverable(toRecv) :
        /\ \/ PlainAccept(toRecv[i])
           \/ PlainIgnore(toRecv[i])
           \/ PlainFails(toRecv[i])
        /\ toRecv' = RemoveAt(toRecv, i)
  BY DEF PlainRecvPacket
<1> DEFINE p == toRecv[i]
<1>2. UNCHANGED <<sState, sequence, taken>>
  BY DEF PlainRecvPacket, senderVars
<1>3. p \in Range(toRecv) /\ p \in Datagram /\ Range(toRecv') \subseteq Range(toRecv)
  BY <1>1, TakeFromChannel, TypeFacts
<1> HIDE DEF p
<1>4. CASE PlainIgnore(p) \/ PlainFails(p)
  BY <1>2, <1>3, <1>4 DEF LabelInv, PlainIgnore, PlainFails
<1>5. CASE PlainAccept(p)
  <2> DEFINE q == Response(p)
  <2>1. q \in Datagram /\ q.magic = TRUE /\ q.eof = p.eof /\ q.end = p.end
        /\ q.seq = (p.seq + p.len) % SeqSpace
    BY <1>3, ResponseType DEF Response, MakeHeader
  <2> HIDE DEF q
  <2>2. Range(toSend') = Range(toSend) \cup {q}
    BY <1>5, <2>1, AppendRange, TypeFacts DEF PlainAccept, q
  <2>3. p.magic
    BY <1>5 DEF PlainAccept
  <2>4. p.seq + p.len \in Nat /\ p.end \in Nat
    BY <1>3, DatagramFields
  <2>5. /\ q.seq \in Nat /\ q.seq \leq p.seq + p.len
        /\ p.seq + p.len < SeqSpace => q.seq = p.seq + p.len
    BY <2>1, <2>4, Modulo
  <2>6. /\ q.eof => sState = "done"
        /\ ~ q.eof => q.seq \leq q.end /\ q.end \leq taken
    BY <1>3, <2>1, <2>3, <2>4, <2>5, TypeFacts DEF LabelInv
  <2>7. ASSUME sState = "wait", taken < SeqSpace, q.end = taken
        PROVE  q.seq \geq sequence
    <3>1. p.seq = sequence /\ p.seq + p.len \leq taken
      BY <1>3, <2>1, <2>3, <2>7 DEF LabelInv
    <3> QED BY <1>3, <2>4, <2>5, <2>7, <3>1, DatagramFields, TypeFacts
  <2> QED BY <1>2, <1>3, <2>1, <2>2, <2>6, <2>7 DEF LabelInv
<1> QED BY <1>1, <1>4, <1>5 DEF p

LEMMA LabelStep == TypeOK /\ LabelInv /\ [PlainNext]_vars => LabelInv'
<1> SUFFICES ASSUME TypeOK, LabelInv, [PlainNext]_vars
             PROVE  LabelInv'
  OBVIOUS
<1>1. CASE SendNextPacket
  BY <1>1, LabelSend
<1>2. CASE SendFinalPacket
  BY <1>2, LabelFinal
<1>3. CASE PlainRecvAck
  BY <1>3, LabelRecvAck
<1>4. CASE PlainRecvPacket
  BY <1>4, LabelRecvPacket
<1>5. CASE Drop \/ Duplicate \/ Stray
  <2>1. UNCHANGED <<sState, sequence, taken>>
    BY <1>5, NetworkStep DEF senderVars
  <2>2. \A f \in Strangers : ~ f.magic /\ ~ f.ack
    BY StrangerType
  <2>3. /\ Range(toRecv') \subseteq Range(toRecv) \cup Strangers
        /\ Range(toSend') \subseteq Range(toSend) \cup Strangers
    BY <1>5, NetworkStep
  <2> QED BY <2>1, <2>2, <2>3 DEF LabelInv
<1>6. CASE AckTimeout \/ RecvTimeout \/ Tick \/ Terminated \/ UNCHANGED vars
  BY <1>6 DEF AckTimeout, RecvTimeout, Tick, Terminated, LabelInv,
              vars, senderVars, netVars
<1> QED BY <1>1, <1>2, <1>3, <1>4, <1>5, <1>6 DEF PlainNext

LEMMA LabelInvariant == Spec => [](TypeOK /\ (Reread \/ LabelInv))
<1>1. TypeOK /\ (Reread \/ LabelInv) /\ [Next]_vars => (Reread \/ LabelInv)'
  BY PlainStep, LabelStep
<1> QED BY <1>1, TypeInit, TypeStep, LabelInit, PTL DEF Spec

-----------------------------------------------------------------------------
(* The headers in flight, whatever is looked at twice.                     *)

LEMMA FreshInit == Init => FreshInv
<1>1. Range(<< >>) = {}
  BY DEF Range
<1> QED BY <1>1 DEF Init, FreshInv

LEMMA FreshSend ==
  ASSUME TypeOK, FreshInv, SendNextPacket
  PROVE  FreshInv'
<1>1. PICK n \in 1..BlockMax, ok \in BOOLEAN :
        /\ taken + n \leq N
        /\ taken' = taken + n
        /\ sState' = IF ok THEN "wait" ELSE "failed"
        /\ toRecv' = IF ok THEN Append(toRecv, MakeHeader(sequence, n, FALSE, FALSE, taken + n))
                           ELSE toRecv
  BY DEF SendNextPacket
<1> DEFINE new == MakeHeader(sequence, n, FALSE, FALSE, taken + n)
<1>2. sState = "send" /\ UNCHANGED <<sequence, toSend>>
  BY DEF SendNextPacket
<1>3. n \in Nat /\ n > 0 /\ n \in 0..BlockMax /\ n \leq taken + n /\ taken + n \in 0..N
      /\ sequence \in Nat
  BY <1>1, TypeFacts
<1>4. new.eof = FALSE /\ new.end = taken + n /\ new.seq = sequence
  BY <1>3, Modulo, TypeFacts DEF MakeHeader
<1>5. new \in Datagram
  BY <1>3, MakeHeaderType
<1> HIDE DEF new
<1>6. Range(toRecv') \subseteq Range(toRecv) \cup {new}
  BY <1>1, <1>5, AppendRange, TypeFacts DEF new
<1>7. ASSUME NEW p \in Range(toRecv'), p.magic
      PROVE  ~ p.eof /\ p.end \leq taken' /\ (p.end = taken' => p.seq = sequence')
  <2>1. CASE p = new
    BY <1>1, <1>2, <1>3, <1>4, <2>1, TypeFacts
  <2>2. CASE p \in Range(toRecv)
    <3>1. ~ p.eof /\ p.end \leq taken
      BY <1>2, <1>7, <2>2 DEF FreshInv
    <3>2. p.end \in Nat
      BY <2>2, DatagramFields, TypeFacts
    <3> QED BY <1>1, <1>3, <3>1, <3>2, TypeFacts
  <2> QED BY <1>6, <2>1, <2>2
<1>8. ASSUME NEW p \in Range(toSend), p.magic
      PROVE  ~ p.eof /\ p.end \leq taken' /\ p.end # taken'
  <2>1. ~ p.eof /\ p.end \leq taken
    BY <1>2, <1>8 DEF FreshInv
  <2>2. p.end \in Nat
    BY DatagramFields, TypeFacts
  <2> QED BY <1>1, <1>3, <2>1, <2>2, TypeFacts
<1>9. \A p \in Range(toSend') : p.ack => p.magic
  BY <1>2 DEF FreshInv
<1> QED BY <1>2, <1>7, <1>8, <1>9 DEF FreshInv

LEMMA FreshFinal ==
  ASSUME TypeOK, FreshInv, SendFinalPacket
  PROVE  FreshInv'
<1>1. PICK ok \in BOOLEAN :
        /\ sState' = IF ok THEN "done" ELSE "failed"
        /\ toRecv' = IF ok THEN Append(toRecv, MakeHeader(sequence + 1, 0, TRUE, FALSE, N))
                           ELSE toRecv
  BY DEF SendFinalPacket
<1> DEFINE new == MakeHeader(sequence + 1, 0, TRUE, FALSE, N)
<1>2. sState = "send" /\ UNCHANGED <<sequence, taken, toSend>>
  BY DEF SendFinalPacket
<1>3. sequence + 1 \in Nat /\ 0 \in 0..BlockMax /\ 0 \leq N /\ N \in 0..N
  BY TypeFacts
<1>4. new.eof = TRUE
  BY DEF MakeHeader
<1>5. new \in Datagram
  BY <1>3, MakeHeaderType
<1> HIDE DEF new
<1>6. CASE ok
  <2>1. Range(toRecv') = Range(toRecv) \cup {new}
    BY <1>1, <1>5, <1>6, AppendRange, TypeFacts DEF new
  <2> QED BY <1>1, <1>2, <1>4, <1>6, <2>1 DEF FreshInv
<1>7. CASE ~ ok
  BY <1>1, <1>2, <1>7 DEF FreshInv
<1> QED BY <1>6, <1>7

LEMMA FreshRecvPacket ==
  ASSUME TypeOK, FreshInv, RecvPacket
  PROVE  FreshInv'
<1>1. PICK i \in Deliverable(toRecv) :
        /\ \/ AcceptPacket(Received(rBuf, toRecv[i]), toRecv[i])
           \/ IgnorePacket(Received(rBuf, toRecv[i]))
           \/ RecvFails(Received(rBuf, toRecv[i]))
        /\ toRecv' = RemoveAt(toRecv, i)
  BY DEF RecvPacket
<1>2. UNCHANGED <<sState, sequence, taken>>
  BY DEF RecvPacket, senderVars
<1>3. /\ toRecv[i] \in Range(toRecv) /\ toRecv[i] \in Datagram
      /\ Range(toRecv') \subseteq Range(toRecv)
  BY <1>1, TakeFromChannel, TypeFacts
<1>4. PICK p \in Datagram : p = toRecv[i] /\ p \in Range(toRecv)
  BY <1>3
<1>5. PICK h : h = Received(rBuf, p)
  OBVIOUS
<1>6. ~ p.short => h.magic = p.magic
  BY <1>5, ReceivedFields DEF TypeOK
<1>7. CASE toSend' = toSend
  BY <1>2, <1>3, <1>7 DEF FreshInv
<1>8. CASE AcceptPacket(h, p) /\ ~ p.short
  <2> DEFINE q == Response(p)
  <2>1. q \in Datagram /\ q.magic = TRUE /\ q.eof = p.eof /\ q.end = p.end
        /\ q.seq = (p.seq + p.len) % SeqSpace
    BY ResponseType DEF Response, MakeHeader
  <2> HIDE DEF q
  <2>2. Range(toSend') = Range(toSend) \cup {q}
    <3>1. toSend' = Append(toSend, q)
      BY <1>8 DEF AcceptPacket, Respond, q
    <3> QED BY <2>1, <3>1, AppendRange, TypeFacts
  <2>3. p.magic
    BY <1>6, <1>8 DEF AcceptPacket
  <2>4. p.seq \in Nat /\ p.len \in Nat /\ p.seq + p.len \in Nat /\ p.len \leq BlockMax
    BY TransportAssumption, DatagramFields DEF Datagram
  <2>5. p.seq + p.len < SeqSpace => q.seq = p.seq + p.len
    BY <2>1, <2>4, Modulo
  <2>6. /\ q.eof => sState = "done"
        /\ ~ q.eof => q.end \leq taken
    BY <1>4, <2>1, <2>3 DEF FreshInv
  <2>7. ASSUME sState = "wait", q.end = taken, sequence + BlockMax < SeqSpace
        PROVE  q.seq \geq sequence
    <3>1. p.seq = sequence
      BY <1>4, <2>1, <2>3, <2>7 DEF FreshInv
    <3> QED BY <2>4, <2>5, <2>7, <3>1, TypeFacts
  <2> QED BY <1>2, <1>3, <2>1, <2>2, <2>6, <2>7 DEF FreshInv
<1> QED BY <1>1, <1>4, <1>5, <1>7, <1>8 DEF AcceptPacket, IgnorePacket, RecvFails, Respond

LEMMA FreshStep == TypeOK /\ FreshInv /\ [Next]_vars => FreshInv'
<1> SUFFICES ASSUME TypeOK, FreshInv, [Next]_vars
             PROVE  FreshInv'
  OBVIOUS
<1>1. CASE SendNextPacket
  BY <1>1, FreshSend
<1>2. CASE SendFinalPacket
  BY <1>2, FreshFinal
<1>3. CASE RecvAck
  <2>1. PICK i \in Deliverable(toSend) : toSend' = RemoveAt(toSend, i)
    BY <1>3 DEF RecvAck
  <2>2. Range(toSend') \subseteq Range(toSend)
    BY <2>1, TakeFromChannel, TypeFacts
  <2>3. /\ sState = "wait" /\ UNCHANGED <<taken, toRecv>>
        /\ sState' \in {"send", "failed"} \/ (sState' = "wait" /\ UNCHANGED sequence)
    BY <1>3 DEF RecvAck
  <2> QED BY <2>2, <2>3 DEF FreshInv
<1>4. CASE RecvPacket
  BY <1>4, FreshRecvPacket
<1>5. CASE Drop \/ Duplicate \/ Stray
  <2>1. UNCHANGED <<sState, sequence, taken>>
    BY <1>5, NetworkStep DEF senderVars
  <2>2. \A f \in Strangers : ~ f.magic /\ ~ f.ack
    BY StrangerType
  <2>3. /\ Range(toRecv') \subseteq Range(toRecv) \cup Strangers
        /\ Range(toSend') \subseteq Range(toSend) \cup Strangers
    BY <1>5, NetworkStep
  <2> QED BY <2>1, <2>2, <2>3 DEF FreshInv
<1>6. CASE AckTimeout \/ RecvTimeout \/ Tick \/ Terminated \/ UNCHANGED vars
  BY <1>6 DEF AckTimeout, RecvTimeout, Tick, Terminated, FreshInv,
              vars, senderVars, netVars
<1> QED BY <1>1, <1>2, <1>3, <1>4, <1>5, <1>6 DEF Next

(* On any network the acknowledgment of the outstanding block is never     *)
(* taken for a corrupted one until 2^32 bytes have been read; once an      *)
(* empty datagram has moved the sequence ahead, not until that is within   *)
(* a block of 2^32 (3600send.c:158).                                       *)
THEOREM FreshAckIsAccepted == Spec => []FreshAckAccepted
<1>1. TypeOK /\ (Reread \/ LabelInv) /\ FreshInv => FreshAckAccepted
  <2> SUFFICES ASSUME TypeOK, Reread \/ LabelInv, FreshInv, sState = "wait",
                      (IF Reread THEN sequence + BlockMax ELSE taken) < SeqSpace,
                      NEW p \in Range(toSend), p.ack, p.end = taken
               PROVE  Acceptable(p)
    BY DEF FreshAckAccepted
  <2>1. p.magic
    BY DEF FreshInv
  <2>2. p.seq \geq sequence
    BY <2>1 DEF FreshInv, LabelInv
  <2> QED BY <2>1, <2>2 DEF Acceptable
<1> QED BY <1>1, LabelInvariant, FreshInit, FreshStep, PTL DEF Spec

-----------------------------------------------------------------------------
(* Without empty datagrams no header is looked at twice.                   *)
LongInv == /\ ~ Reread
           /\ \A p \in Range(toRecv) : ~ p.short
           /\ \A p \in Range(toSend) : ~ p.short

LEMMA NeverReread ==
  ASSUME "empty" \notin Faults
  PROVE  Spec => []~ Reread
<1>1. Init => LongInv
  <2>1. Range(<< >>) = {}
    BY DEF Range
  <2> QED BY <2>1 DEF Init, LongInv, Reread, NoHeader
<1>2. TypeOK /\ LongInv /\ [Next]_vars => LongInv'
  <2> SUFFICES ASSUME TypeOK, LongInv, [Next]_vars
               PROVE  LongInv'
    OBVIOUS
  <2>1. CASE SendNextPacket \/ SendFinalPacket
    <3>1. UNCHANGED <<sBuf, rBuf, toSend>>
      BY <2>1 DEF SendNextPacket, SendFinalPacket, receiverVars
    <3>2. \A p \in Range(toRecv') : ~ p.short
      <4>1. CASE SendNextPacket
        <5>1. PICK n \in 1..BlockMax, ok \in BOOLEAN :
                /\ taken + n \leq N
                /\ toRecv' = IF ok THEN Append(toRecv, MakeHeader(sequence, n, FALSE, FALSE, taken + n))
                                   ELSE toRecv
          BY <4>1 DEF SendNextPacket
        <5>2. n \in 0..BlockMax /\ n \leq taken + n /\ taken + n \in 0..N /\ sequence \in Nat
          BY <5>1, TypeFacts
        <5>3. PICK new \in Datagram : new = MakeHeader(sequence, n, FALSE, FALSE, taken + n)
          BY <5>2, MakeHeaderType
        <5>4. ~ new.short
          BY <5>3 DEF MakeHeader
        <5>5. Range(toRecv') \subseteq Range(toRecv) \cup {new}
          BY <5>1, <5>3, AppendRange, TypeFacts
        <5> QED BY <5>4, <5>5 DEF LongInv
      <4>2. CASE SendFinalPacket
        <5>1. PICK ok \in BOOLEAN :
                toRecv' = IF ok THEN Append(toRecv, MakeHeader(sequence + 1, 0, TRUE, FALSE, N))
                                ELSE toRecv
          BY <4>2 DEF SendFinalPacket
        <5>2. sequence + 1 \in Nat /\ 0 \in 0..BlockMax /\ 0 \leq N /\ N \in 0..N
          BY TypeFacts
        <5>3. PICK new \in Datagram : new = MakeHeader(sequence + 1, 0, TRUE, FALSE, N)
          BY <5>2, MakeHeaderType
        <5>4. ~ new.short
          BY <5>3 DEF MakeHeader
        <5>5. Range(toRecv') \subseteq Range(toRecv) \cup {new}
          BY <5>1, <5>3, AppendRange, TypeFacts
        <5> QED BY <5>4, <5>5 DEF LongInv
      <4> QED BY <2>1, <4>1, <4>2
    <3> QED BY <3>1, <3>2 DEF LongInv, Reread
  <2>2. CASE RecvAck
    <3>1. PICK i \in Deliverable(toSend), ok \in BOOLEAN :
            /\ toSend' = RemoveAt(toSend, i)
            /\ sBuf' = IF ok THEN Received(sBuf, toSend[i]) ELSE sBuf
      BY <2>2 DEF RecvAck
    <3>2. toSend[i] \in Range(toSend) /\ Range(toSend') \subseteq Range(toSend)
      BY <3>1, TakeFromChannel, TypeFacts
    <3>3. sBuf'.reread = sBuf.reread
      BY <3>1, <3>2 DEF Received, LongInv
    <3>4. UNCHANGED <<rBuf, toRecv>>
      BY <2>2 DEF RecvAck, receiverVars
    <3> QED BY <3>2, <3>3, <3>4 DEF LongInv, Reread
  <2>3. CASE RecvPacket
    <3>1. PICK i \in Deliverable(toRecv) :
            /\ \/ AcceptPacket(Received(rBuf, toRecv[i]), toRecv[i])
               \/ IgnorePacket(Received(rBuf, toRecv[i]))
               \/ RecvFails(Received(rBuf, toRecv[i]))
            /\ rBuf' = Received(rBuf, toRecv[i])
            /\ toRecv' = RemoveAt(toRecv, i)
      BY <2>3 DEF RecvPacket
    <3>2. toRecv[i] \in Datagram /\ toRecv[i] \in Range(toRecv) /\ Range(toRecv') \subseteq Range(toRecv)
      BY <3>1, TakeFromChannel, TypeFacts
    <3>3. rBuf'.reread = rBuf.reread
      BY <3>1, <3>2 DEF Received, LongInv
    <3>4. PICK q \in Datagram : q = Response(toRecv[i]) /\ ~ q.short
      <4>1. Response(toRecv[i]) \in Datagram
        BY <3>2, ResponseType
      <4> QED BY <4>1 DEF Response, MakeHeader
    <3>5. toSend' = toSend \/ toSend' = Append(toSend, q)
      BY <3>1, <3>4 DEF AcceptPacket, IgnorePacket, RecvFails, Respond
    <3>6. Range(toSend') \subseteq Range(toSend) \cup {q}
      BY <3>5, AppendRange, TypeFacts
    <3>7. UNCHANGED sBuf
      BY <2>3 DEF RecvPacket, senderVars
    <3> QED BY <3>2, <3>3, <3>4, <3>6, <3>7 DEF LongInv, Reread
  <2>4. CASE Drop \/ Duplicate
    <3>1. UNCHANGED <<sBuf, rBuf>>
      BY <2>4 DEF Drop, Duplicate, senderVars, receiverVars
    <3>2. Range(toRecv') \subseteq Range(toRecv) /\ Range(toSend') \subseteq Range(toSend)
      BY <2>4, FiniteNetwork
    <3> QED BY <3>1, <3>2 DEF LongInv, Reread
  <2>5. CASE Stray
    <3>1. UNCHANGED <<sBuf, rBuf>>
      BY <2>5 DEF Stray, senderVars, receiverVars
    <3>2. PICK f \in Datagram : f = Foreign(FALSE) /\ ~ f.short
      <4>1. Foreign(FALSE) \in Strangers /\ ~ Foreign(FALSE).short
        BY DEF Strangers, Foreign
      <4> QED BY <4>1, StrangerType
    <3>3. \/ toRecv' = Append(toRecv, f) /\ UNCHANGED toSend
          \/ toSend' = Append(toSend, f) /\ UNCHANGED toRecv
      BY <2>5, <3>2 DEF Stray, CanFault
    <3>4. Range(toRecv') \subseteq Range(toRecv) \cup {f} /\ Range(toSend') \subseteq Range(toSend) \cup {f}
      BY ZenonT(30), <3>3, AppendRange, TypeFacts
    <3> QED BY <3>1, <3>2, <3>4 DEF LongInv, Reread
  <2>6. CASE AckTimeout \/ RecvTimeout \/ Tick \/ Terminated \/ UNCHANGED vars
    BY <2>6 DEF AckTimeout, RecvTimeout, Tick, Terminated, LongInv, Reread,
                vars, senderVars, receiverVars, netVars
  <2> QED BY <2>1, <2>2, <2>3, <2>4, <2>5, <2>6 DEF Next
<1>3. LongInv => ~ Reread
  BY DEF LongInv
<1> QED BY <1>1, <1>2, <1>3, TypeInit, TypeStep, PTL DEF Spec
=============================================================================
