---------------------- MODULE TransportDeliveryProofs ----------------------
(***************************************************************************)
(* What of the file reaches the output of project4.  Without duplication,  *)
(* and while write() takes all it is given, it is a byte pipe: the proof   *)
(* that Transport implements BytePipe.  What is left of that when write()  *)
(* falls short, and when the network duplicates: the output has no gap     *)
(* while the order is kept, and the receiver's patience is spent on        *)
(* datagrams that are accounted for, in whatever order they come.          *)
(***************************************************************************)
EXTENDS TransportProofs

-----------------------------------------------------------------------------
(* What the properties say of the output until a header is looked at a     *)
(* second time.                                                            *)
Gapless ==
  /\ \A i \in DOMAIN out : out[i] = 1 \/ \E j \in 1..(i - 1) : out[j] = out[i] - 1
  /\ rState = "eof" => \A b \in 1..N : \E i \in DOMAIN out : out[i] = b

Increasing == \A i, j \in DOMAIN out : i < j => out[i] < out[j]

Limited == N \geq SeqSpace => sState # "done"

-----------------------------------------------------------------------------
(* Without duplication at most one datagram of the transfer is in flight,  *)
(* and the output is exactly what precedes it.                             *)
AtMostOne(channel) ==
  \A i, j \in DOMAIN channel : (channel[i].magic /\ channel[j].magic) => i = j

Quiet(channel) == \A p \in Range(channel) : ~ p.magic

PipeInv ==
  /\ \A i \in DOMAIN out : out[i] = i
  /\ AtMostOne(toRecv)
  /\ \A p \in Range(toRecv) : p.magic => p.end - p.len = Len(out)
  /\ sState = "send" => Quiet(toRecv) /\ Quiet(toSend) /\ Len(out) = taken
  /\ sState = "wait" =>
       /\ AtMostOne(toSend)
       /\ Quiet(toRecv) \/ Quiet(toSend)
       /\ \A p \in Range(toRecv) : p.magic => p.end = taken
       /\ \A p \in Range(toSend) : p.magic => Len(out) = taken
  /\ sState = "done" => Len(out) = N

-----------------------------------------------------------------------------
(* Channels with at most one datagram of the transfer.                     *)

LEMMA QuietSubset ==
  ASSUME NEW c, NEW d, Range(d) \subseteq Range(c), Quiet(c)
  PROVE  Quiet(d)
BY DEF Quiet

LEMMA QuietRange ==
  ASSUME NEW c, NEW i \in DOMAIN c, Quiet(c)
  PROVE  ~ c[i].magic
BY DEF Quiet, Range

LEMMA AtMostOneRemove ==
  ASSUME NEW c \in Seq(Datagram), NEW i \in DOMAIN c, AtMostOne(c)
  PROVE  /\ AtMostOne(RemoveAt(c, i))
         /\ c[i].magic => Quiet(RemoveAt(c, i))
<1> DEFINE r == RemoveAt(c, i)
<1>1. Len(c) \in Nat /\ DOMAIN c = 1..Len(c) /\ i \in 1..Len(c)
  BY LenProperties
<1>2. r \in Seq(Datagram) /\ Len(r) = Len(c) - 1
  BY RemoveAtProperties
<1>3. \A j \in 1..(Len(c) - 1) : r[j] = IF j < i THEN c[j] ELSE c[j + 1]
  BY RemoveAtProperties
<1>4. DOMAIN r = 1..(Len(c) - 1)
  BY <1>2, LenProperties
<1> HIDE DEF r
<1>5. ASSUME NEW j \in DOMAIN r
      PROVE  \E k \in DOMAIN c : k # i /\ r[j] = c[k] /\ k = (IF j < i THEN j ELSE j + 1)
  BY <1>1, <1>3, <1>4
<1>6. AtMostOne(r)
  <2> SUFFICES ASSUME NEW j \in DOMAIN r, NEW k \in DOMAIN r, r[j].magic, r[k].magic
               PROVE  j = k
    BY DEF AtMostOne
  <2>1. PICK a \in DOMAIN c : r[j] = c[a] /\ a = (IF j < i THEN j ELSE j + 1)
    BY <1>5
  <2>2. PICK b \in DOMAIN c : r[k] = c[b] /\ b = (IF k < i THEN k ELSE k + 1)
    BY <1>5
  <2>3. a = b
    BY <2>1, <2>2 DEF AtMostOne
  <2> QED BY <1>1, <1>4, <2>1, <2>2, <2>3
<1>7. ASSUME c[i].magic
      PROVE  Quiet(r)
  BY <1>5, <1>7 DEF AtMostOne, Quiet, Range
<1> QED BY <1>6, <1>7 DEF r

LEMMA AtMostOneAppend ==
  ASSUME NEW c \in Seq(Datagram), NEW e \in Datagram,
         Quiet(c) \/ (AtMostOne(c) /\ ~ e.magic)
  PROVE  AtMostOne(Append(c, e))
<1> DEFINE d == Append(c, e)
<1>1. /\ Len(c) \in Nat /\ DOMAIN c = 1..Len(c) /\ DOMAIN d = 1..(Len(c) + 1)
      /\ d[Len(c) + 1] = e
  BY LenProperties
<1>2. \A j \in 1..Len(c) : d[j] = c[j]
  OBVIOUS
<1> HIDE DEF d
<1> SUFFICES ASSUME NEW j \in DOMAIN d, NEW k \in DOMAIN d, d[j].magic, d[k].magic
             PROVE  j = k
  BY DEF AtMostOne, d
<1>3. CASE Quiet(c)
  <2>1. \A m \in 1..Len(c) : ~ d[m].magic
    BY <1>1, <1>2, <1>3, QuietRange
  <2> QED BY <1>1, <2>1
<1>4. CASE AtMostOne(c) /\ ~ e.magic
  <2>1. j \in 1..Len(c) /\ k \in 1..Len(c)
    BY <1>1, <1>4
  <2> QED BY <1>1, <1>2, <1>4, <2>1 DEF AtMostOne
<1> QED BY <1>3, <1>4

LEMMA QuietIsAtMostOne ==
  ASSUME NEW c, Quiet(c)
  PROVE  AtMostOne(c)
BY DEF Quiet, AtMostOne, Range

(* The payload of the datagram in flight continues the output.             *)
LEMMA BlockContinues ==
  ASSUME TypeOK, NEW p \in Datagram, \A i \in DOMAIN out : out[i] = i,
         p.end - p.len = Len(out)
  PROVE  /\ Len(out \o Block(p)) = p.end
         /\ \A i \in DOMAIN (out \o Block(p)) : (out \o Block(p))[i] = i
<1>1. out \in Seq(0..N) /\ Len(out) \in Nat /\ DOMAIN out = 1..Len(out)
  BY TypeFacts, LenProperties
<1>2. /\ Block(p) \in Seq(0..N) /\ Len(Block(p)) = p.len /\ p.len \in Nat
      /\ \A i \in 1..p.len : Block(p)[i] = Len(out) + i
  BY BlockType
<1>3. p.end \in Nat /\ p.end = Len(out) + p.len
  BY <1>1, <1>2, DatagramFields
<1> DEFINE o == out \o Block(p)
<1>4. /\ o \in Seq(0..N) /\ Len(o) = Len(out) + p.len
      /\ \A i \in 1..(Len(out) + p.len) :
           o[i] = IF i \leq Len(out) THEN out[i] ELSE Block(p)[i - Len(out)]
  BY <1>1, <1>2, ConcatProperties
<1>5. DOMAIN o = 1..(Len(out) + p.len)
  BY <1>4, LenProperties
<1> HIDE DEF o
<1>6. ASSUME NEW i \in DOMAIN o
      PROVE  o[i] = i
  <2>1. CASE i \leq Len(out)
    BY <1>1, <1>4, <1>5, <2>1
  <2>2. CASE i > Len(out)
    <3>1. i - Len(out) \in 1..p.len /\ Len(out) + (i - Len(out)) = i
      BY <1>1, <1>2, <1>5, <2>2
    <3> QED BY <1>1, <1>2, <1>4, <1>5, <2>2, <3>1
  <2> QED BY <1>1, <1>5, <2>1, <2>2
<1> QED BY <1>3, <1>4, <1>6 DEF o

-----------------------------------------------------------------------------
(* The pipe invariant is inductive.                                        *)

LEMMA PipeInvInit == Init => PipeInv
<1>1. Range(<< >>) = {} /\ Len(<< >>) = 0 /\ DOMAIN << >> = {}
  BY DEF Range
<1> QED BY <1>1 DEF Init, PipeInv, Quiet, AtMostOne

LEMMA PipeInvSend ==
  ASSUME TypeOK, PipeInv, SendNextPacket
  PROVE  PipeInv'
<1>1. PICK n \in 1..BlockMax, ok \in BOOLEAN :
        /\ taken + n \leq N
        /\ taken' = taken + n
        /\ sState' = IF ok THEN "wait" ELSE "failed"
        /\ toRecv' = IF ok THEN Append(toRecv, MakeHeader(sequence, n, FALSE, FALSE, taken + n))
                           ELSE toRecv
  BY DEF SendNextPacket
<1> DEFINE new == MakeHeader(sequence, n, FALSE, FALSE, taken + n)
<1>2. sState = "send" /\ UNCHANGED <<out, toSend>>
  BY DEF SendNextPacket, receiverVars
<1>3. Quiet(toRecv) /\ Quiet(toSend) /\ Len(out) = taken
  BY <1>2 DEF PipeInv
<1>4. n \in 0..BlockMax /\ n \leq taken + n /\ taken + n \in 0..N /\ sequence \in Nat
  BY <1>1, TypeFacts
<1>5. new \in Datagram
  BY <1>4, MakeHeaderType
<1>6. new.end = taken + n /\ new.len = n /\ new.end - new.len = taken
  BY <1>4, TypeFacts DEF MakeHeader
<1> HIDE DEF new
<1>7. AtMostOne(toSend) /\ AtMostOne(toRecv) /\ Quiet(toSend')
  BY <1>2, <1>3, QuietIsAtMostOne
<1>8. CASE ok
  <2>1. toRecv' = Append(toRecv, new) /\ sState' = "wait" /\ toRecv \in Seq(Datagram)
    BY <1>1, <1>8, TypeFacts DEF new
  <2>2. Range(toRecv') = Range(toRecv) \cup {new}
    BY <1>5, <2>1, AppendRange
  <2>3. AtMostOne(toRecv')
    BY <1>3, <1>5, <2>1, AtMostOneAppend
  <2>4. ASSUME NEW p \in Range(toRecv'), p.magic
        PROVE  p.end - p.len = Len(out') /\ p.end = taken'
    BY <1>1, <1>2, <1>3, <1>6, <2>2, <2>4 DEF Quiet
  <2> QED BY <1>2, <1>3, <1>7, <2>1, <2>3, <2>4 DEF PipeInv, Quiet
<1>9. CASE ~ ok
  BY <1>1, <1>2, <1>7, <1>9 DEF PipeInv
<1> QED BY <1>8, <1>9

LEMMA PipeInvFinal ==
  ASSUME TypeOK, PipeInv, SendFinalPacket
  PROVE  PipeInv'
<1>1. PICK ok \in BOOLEAN :
        /\ sState' = IF ok THEN "done" ELSE "failed"
        /\ toRecv' = IF ok THEN Append(toRecv, MakeHeader(sequence + 1, 0, TRUE, FALSE, N))
                           ELSE toRecv
  BY DEF SendFinalPacket
<1> DEFINE new == MakeHeader(sequence + 1, 0, TRUE, FALSE, N)
<1>2. sState = "send" /\ taken = N /\ UNCHANGED <<out, toSend>>
  BY DEF SendFinalPacket, receiverVars
<1>3. Quiet(toRecv) /\ Len(out) = N
  BY <1>2 DEF PipeInv
<1>4. sequence + 1 \in Nat /\ 0 \in 0..BlockMax /\ 0 \leq N /\ N \in 0..N
  BY TypeFacts
<1>5. new \in Datagram
  BY <1>4, MakeHeaderType
<1>6. new.end - new.len = N
  BY <1>4 DEF MakeHeader
<1> HIDE DEF new
<1>7. CASE ok
  <2>1. toRecv' = Append(toRecv, new) /\ sState' = "done" /\ toRecv \in Seq(Datagram)
    BY <1>1, <1>7, TypeFacts DEF new
  <2>2. Range(toRecv') = Range(toRecv) \cup {new}
    BY <1>5, <2>1, AppendRange
  <2>3. AtMostOne(toRecv')
    BY <1>3, <1>5, <2>1, AtMostOneAppend
  <2>4. \A p \in Range(toRecv') : p.magic => p.end - p.len = Len(out')
    BY <1>2, <1>3, <1>6, <2>2 DEF Quiet
  <2> QED BY <1>2, <1>3, <2>1, <2>3, <2>4 DEF PipeInv
<1>8. CASE ~ ok
  BY <1>1, <1>2, <1>8 DEF PipeInv
<1> QED BY <1>7, <1>8

LEMMA PipeInvRecvAck ==
  ASSUME TypeOK, PipeInv, PlainRecvAck
  PROVE  PipeInv'
<1>1. PICK i \in Deliverable(toSend), ok \in BOOLEAN :
        /\ toSend' = RemoveAt(toSend, i)
        /\ IF ok /\ Acceptable(toSend[i])
           THEN sState' = "send" /\ sequence' = toSend[i].seq
           ELSE sState' = (IF ok THEN "wait" ELSE "failed") /\ UNCHANGED sequence
  BY DEF PlainRecvAck
<1>2. sState = "wait" /\ UNCHANGED <<taken, out, toRecv>>
  BY DEF PlainRecvAck, receiverVars
<1>3. /\ i \in DOMAIN toSend /\ toSend \in Seq(Datagram)
      /\ toSend[i] \in Range(toSend) /\ Range(toSend') \subseteq Range(toSend)
  BY <1>1, TakeFromChannel, TypeFacts
<1>4. AtMostOne(toSend) /\ (Quiet(toRecv) \/ Quiet(toSend))
  BY <1>2 DEF PipeInv
<1>5. AtMostOne(toSend') /\ (toSend[i].magic => Quiet(toSend'))
  BY <1>1, <1>3, <1>4, AtMostOneRemove
<1>6. CASE ok /\ Acceptable(toSend[i])
  <2>1. toSend[i].magic /\ sState' = "send"
    BY <1>1, <1>6 DEF Acceptable
  <2>2. Quiet(toRecv) /\ Len(out) = taken
    BY <1>2, <1>3, <1>4, <2>1 DEF PipeInv, Quiet
  <2> QED BY <1>2, <1>5, <2>1, <2>2 DEF PipeInv, Quiet
<1>7. CASE ~ (ok /\ Acceptable(toSend[i]))
  <2>1. Quiet(toSend) => Quiet(toSend')
    BY <1>3 DEF Quiet
  <2> QED BY <1>1, <1>2, <1>3, <1>4, <1>5, <1>7, <2>1 DEF PipeInv, Quiet
<1> QED BY <1>6, <1>7

LEMMA PipeInvRecvPacket ==
  ASSUME "shortwrite" \notin Faults, TypeOK, PipeInv, PlainRecvPacket
  PROVE  PipeInv'
<1>1. PICK i \in Deliverable(toRecv) :
        /\ \/ PlainAccept(toRecv[i])
           \/ PlainIgnore(toRecv[i])
           \/ PlainFails(toRecv[i])
        /\ toRecv' = RemoveAt(toRecv, i)
  BY DEF PlainRecvPacket
<1> DEFINE p == toRecv[i]
<1>2. UNCHANGED <<sState, taken>>
  BY DEF PlainRecvPacket, senderVars
<1>3. /\ p \in Range(toRecv) /\ p \in Datagram /\ Range(toRecv') \subseteq Range(toRecv)
      /\ i \in DOMAIN toRecv /\ toRecv \in Seq(Datagram)
  BY <1>1, TakeFromChannel, TypeFacts
<1>4. AtMostOne(toRecv') /\ (p.magic => Quiet(toRecv'))
  BY <1>1, <1>3, AtMostOneRemove DEF PipeInv
<1>5. Quiet(toRecv) => ~ p.magic
  BY <1>3 DEF Quiet
<1> HIDE DEF p
<1>6. Quiet(toRecv) => Quiet(toRecv')
  BY <1>3 DEF Quiet
<1>7. CASE UNCHANGED <<out, toSend>>
  BY <1>2, <1>3, <1>4, <1>6, <1>7 DEF PipeInv, Quiet
<1>8. ASSUME p.magic, out' = out \o Block(p),
             toSend' = toSend \/ toSend' = Append(toSend, Response(p))
      PROVE  PipeInv'
  <2>1. /\ \A j \in DOMAIN out : out[j] = j
        /\ p.end - p.len = Len(out)
    BY <1>3, <1>8 DEF PipeInv
  <2>2. Len(out') = p.end /\ \A j \in DOMAIN out' : out'[j] = j
    BY <1>3, <1>8, <2>1, BlockContinues
  <2>3. Quiet(toRecv') /\ sState # "send"
    BY <1>4, <1>5, <1>8 DEF PipeInv
  <2>4. sState = "wait" => p.end = taken /\ Quiet(toSend)
    BY <1>3, <1>5, <1>8 DEF PipeInv
  <2>5. sState = "done" => p.end = N
    BY <1>3, <2>1, DatagramFields, TypeFacts DEF PipeInv
  <2>6. ASSUME sState = "wait"
        PROVE  AtMostOne(toSend')
    <3>1. Response(p) \in Datagram /\ toSend \in Seq(Datagram)
      BY <1>3, ResponseType, TypeFacts
    <3> QED BY <1>8, <2>4, <2>6, <3>1, AtMostOneAppend, QuietIsAtMostOne
  <2>7. \A x \in Range(toRecv') : ~ x.magic
    BY <2>3 DEF Quiet
  <2> QED BY <1>2, <1>4, <2>2, <2>3, <2>4, <2>5, <2>6, <2>7 DEF PipeInv
<1>9. CASE PlainIgnore(p)
  BY <1>7, <1>9 DEF PlainIgnore
<1>10. CASE PlainFails(p)
  BY <1>7, <1>8, <1>10 DEF PlainFails
<1>11. CASE PlainAccept(p)
  BY <1>3, <1>8, <1>11, WriteExtends DEF PlainAccept
<1> QED BY <1>1, <1>9, <1>10, <1>11 DEF p

LEMMA PipeInvNetwork ==
  ASSUME TypeOK, PipeInv, Drop \/ Stray
  PROVE  PipeInv'
<1>1. UNCHANGED <<sState, taken, out>>
  BY NetworkStep DEF senderVars, receiverVars
<1>2. \A f \in Strangers : ~ f.magic /\ f \in Datagram
  BY StrangerType
<1>3. /\ Range(toRecv') \subseteq Range(toRecv) \cup Strangers
      /\ Range(toSend') \subseteq Range(toSend) \cup Strangers
  BY NetworkStep
<1>4. ASSUME NEW c \in Seq(Datagram), NEW d, AtMostOne(c),
             \/ d = c
             \/ \E i \in DOMAIN c : d = RemoveAt(c, i)
             \/ \E f \in Strangers : d = Append(c, f)
      PROVE  AtMostOne(d)
  BY <1>2, <1>4, AtMostOneRemove, AtMostOneAppend
<1>5. /\ toRecv' = toRecv \/ (\E i \in DOMAIN toRecv : toRecv' = RemoveAt(toRecv, i))
         \/ \E f \in Strangers : toRecv' = Append(toRecv, f)
      /\ toSend' = toSend \/ (\E i \in DOMAIN toSend : toSend' = RemoveAt(toSend, i))
         \/ \E f \in Strangers : toSend' = Append(toSend, f)
  BY StrayStep DEF Drop
<1>6. (AtMostOne(toRecv) => AtMostOne(toRecv')) /\ (AtMostOne(toSend) => AtMostOne(toSend'))
  BY <1>4, <1>5, TypeFacts
<1>7. (Quiet(toRecv) => Quiet(toRecv')) /\ (Quiet(toSend) => Quiet(toSend'))
  BY <1>2, <1>3 DEF Quiet
<1> QED BY <1>1, <1>2, <1>3, <1>6, <1>7 DEF PipeInv

LEMMA PipeInvStep ==
  ASSUME "duplicate" \notin Faults, "shortwrite" \notin Faults
  PROVE  TypeOK /\ PipeInv /\ [PlainNext]_vars => PipeInv'
<1> SUFFICES ASSUME TypeOK, PipeInv, [PlainNext]_vars
             PROVE  PipeInv'
  OBVIOUS
<1>1. CASE SendNextPacket
  BY <1>1, PipeInvSend
<1>2. CASE SendFinalPacket
  BY <1>2, PipeInvFinal
<1>3. CASE PlainRecvAck
  BY <1>3, PipeInvRecvAck
<1>4. CASE PlainRecvPacket
  BY <1>4, PipeInvRecvPacket
<1>5. CASE Drop \/ Stray
  BY <1>5, PipeInvNetwork
<1>6. CASE Duplicate
  BY <1>6 DEF Duplicate, CanFault
<1>7. CASE AckTimeout \/ RecvTimeout \/ Tick \/ Terminated \/ UNCHANGED vars
  BY <1>7 DEF AckTimeout, RecvTimeout, Tick, Terminated, PipeInv, Quiet, AtMostOne,
              vars, senderVars, receiverVars, netVars
<1> QED BY <1>1, <1>2, <1>3, <1>4, <1>5, <1>6, <1>7 DEF PlainNext

LEMMA PipeInvariant ==
  ASSUME "duplicate" \notin Faults, "shortwrite" \notin Faults
  PROVE  Spec => [](TypeOK /\ (Reread \/ (LabelInv /\ PipeInv)))
<1>1. TypeOK /\ (Reread \/ (LabelInv /\ PipeInv)) /\ [Next]_vars => (Reread \/ (LabelInv /\ PipeInv))'
  BY PlainStep, LabelStep, PipeInvStep
<1> QED BY <1>1, TypeInit, TypeStep, LabelInit, PipeInvInit, PTL DEF Spec

-----------------------------------------------------------------------------
(* A block is read only when all before it was written, until a header is  *)
(* looked at a second time (3600send.c:139-160).                           *)
THEOREM ReadsAfterWritten ==
  ASSUME "duplicate" \notin Faults, "shortwrite" \notin Faults
  PROVE  Spec => ReadsOnlyAfterWritten
<1>1. TypeOK /\ (Reread \/ (LabelInv /\ PipeInv)) /\ [Next]_vars
        => [(taken' # taken /\ ~ Reread) => Len(out) = taken]_vars
  <2> SUFFICES ASSUME TypeOK, PipeInv, [Next]_vars, taken' # taken
               PROVE  Len(out) = taken
    OBVIOUS
  <2>1. SendNextPacket
    BY NetworkStep DEF Next, SendFinalPacket, RecvAck, AckTimeout, RecvPacket, RecvTimeout,
                       Tick, Terminated, vars, senderVars, receiverVars, netVars
  <2> QED BY <2>1 DEF SendNextPacket, PipeInv
<1> QED BY <1>1, PipeInvariant, PTL DEF Spec, ReadsOnlyAfterWritten

-----------------------------------------------------------------------------
(* Refinement.                                                             *)

LEMMA OutIsInput ==
  ASSUME TypeOK, PipeInv
  PROVE  out = Pipe!Input(Len(out))
<1>1. out \in Seq(0..N) /\ Len(out) \in Nat
  BY TypeFacts
<1>2. out \in [1..Len(out) -> 0..N]
  BY <1>1, LenProperties
<1>3. \A i \in 1..Len(out) : out[i] = i
  BY <1>2 DEF PipeInv
<1> QED BY <1>2, <1>3 DEF Pipe!Input

LEMMA PipeInitStep == Init => Pipe!PipeInit
BY DEF Init, Pipe!PipeInit, Reader, Writer

LEMMA PipeSenderStep ==
  ASSUME TypeOK, PipeInv, SendNextPacket \/ SendFinalPacket \/ PlainRecvAck
  PROVE  [Pipe!PipeNext]_(Pipe!pipeVars)
<1>1. UNCHANGED <<rState, out, Reader>>
  BY DEF SendNextPacket, SendFinalPacket, PlainRecvAck, receiverVars, Reader
<1>2. Writer = "open"
  BY DEF SendNextPacket, SendFinalPacket, PlainRecvAck, Writer
<1>3. CASE sState' \in {"send", "wait"}
  <2>1. Writer' = "open"
    BY <1>3 DEF Writer
  <2> QED BY <1>1, <1>2, <2>1 DEF Pipe!pipeVars
<1>4. CASE sState' = "failed"
  <2>1. Writer' = "broken"
    BY <1>4 DEF Writer
  <2> QED BY <1>1, <1>2, <2>1 DEF Pipe!PipeNext, Pipe!CloseWriter
<1>5. CASE sState' = "done"
  <2>1. Writer' = "closed"
    BY <1>5 DEF Writer
  <2>2. SendFinalPacket
    BY <1>5 DEF SendNextPacket, PlainRecvAck
  <2>3. out = Pipe!Input(N)
    BY <2>2, OutIsInput DEF SendFinalPacket, PipeInv
  <2> QED BY <1>1, <1>2, <2>1, <2>3 DEF Pipe!PipeNext, Pipe!CloseWriter
<1>6. sState' \in {"send", "wait", "done", "failed"}
  BY DEF SendNextPacket, SendFinalPacket, PlainRecvAck
<1> QED BY <1>3, <1>4, <1>5, <1>6

LEMMA PipeReceiverStep ==
  ASSUME "shortwrite" \notin Faults, TypeOK, TypeOK', LabelInv, PipeInv, PipeInv', PlainRecvPacket
  PROVE  [Pipe!PipeNext]_(Pipe!pipeVars)
<1>1. PICK i \in Deliverable(toRecv) :
        \/ PlainAccept(toRecv[i])
        \/ PlainIgnore(toRecv[i])
        \/ PlainFails(toRecv[i])
  BY DEF PlainRecvPacket
<1> DEFINE p == toRecv[i]
<1>2. UNCHANGED <<sState, Writer>> /\ rState = "run" /\ Reader = "open"
  BY DEF PlainRecvPacket, senderVars, Reader, Writer
<1>3. p \in Range(toRecv) /\ p \in Datagram
  BY <1>1, TakeFromChannel, TypeFacts
<1> HIDE DEF p
<1>4. ASSUME p.magic, out' = out \o Block(p)
      PROVE  \/ out' = out
             \/ \E n \in (Len(out) + 1)..N : out' = Pipe!Input(n)
  <2>1. /\ p.end - p.len = Len(out)
        /\ Len(out') = p.end
    BY <1>3, <1>4, BlockContinues DEF PipeInv
  <2>2. p.end \in Nat /\ p.end \leq N /\ p.len \in Nat /\ Len(out) \in Nat /\ N \in Nat
    BY <1>3, DatagramFields, TypeFacts
  <2>3. out' = Pipe!Input(p.end)
    <3>1. out' \in Seq(0..N)
      BY DEF TypeOK
    <3>2. out' \in [1..p.end -> 0..N]
      BY <2>1, <3>1, LenProperties
    <3>3. \A j \in 1..p.end : out'[j] = j
      BY <3>2 DEF PipeInv
    <3> QED BY <3>2, <3>3 DEF Pipe!Input
  <2>4. CASE p.len = 0
    <3>1. Len(out) = p.end
      BY <2>1, <2>2, <2>4
    <3> QED BY <2>3, <3>1, OutIsInput
  <2>5. CASE p.len > 0
    <3>1. p.end \in (Len(out) + 1)..N
      BY <2>1, <2>2, <2>5
    <3> QED BY <2>3, <3>1
  <2> QED BY <2>2, <2>4, <2>5
<1>5. CASE PlainIgnore(p)
  <2>1. UNCHANGED <<out, Reader>>
    BY <1>5 DEF PlainIgnore, Reader
  <2> QED BY <1>2, <2>1 DEF Pipe!pipeVars
<1>6. CASE PlainFails(p)
  <2>1. Reader' = "broken"
    BY <1>6 DEF PlainFails, Reader
  <2>2. out' = out \/ \E n \in (Len(out) + 1)..N : out' = Pipe!Input(n)
    BY <1>4, <1>6 DEF PlainFails
  <2> QED BY <1>2, <2>1, <2>2 DEF Pipe!PipeNext, Pipe!Deliver, Pipe!CloseReader
<1>7. CASE PlainAccept(p)
  <2>1. p.magic /\ out' = out \o Block(p)
    BY <1>3, <1>7, WriteExtends DEF PlainAccept
  <2>2. CASE p.eof
    <3>1. rState' = "eof" /\ Reader' = "closed"
      BY <1>7, <2>2 DEF PlainAccept, Reader
    <3>2. Len(out) = N
      BY <1>3, <2>1, <2>2 DEF LabelInv, PipeInv
    <3>3. out' = out
      BY <1>4, <2>1, <3>2, TypeFacts
    <3>4. out = Pipe!Input(N)
      BY <3>2, OutIsInput
    <3> QED BY <1>2, <3>1, <3>3, <3>4 DEF Pipe!PipeNext, Pipe!CloseReader
  <2>3. CASE ~ p.eof
    <3>1. Reader' = "open"
      BY <1>7, <2>3 DEF PlainAccept, Reader
    <3>2. CASE out' = out
      BY <1>2, <3>1, <3>2 DEF Pipe!pipeVars
    <3>3. CASE \E n \in (Len(out) + 1)..N : out' = Pipe!Input(n)
      BY <1>2, <3>1, <3>3 DEF Pipe!PipeNext, Pipe!Deliver
    <3> QED BY <1>4, <2>1, <3>2, <3>3
  <2> QED BY <2>2, <2>3
<1> QED BY <1>1, <1>5, <1>6, <1>7 DEF p

LEMMA PipeStep ==
  ASSUME "shortwrite" \notin Faults
  PROVE  /\ TypeOK /\ LabelInv /\ PipeInv
         /\ (TypeOK /\ LabelInv /\ PipeInv)'
         /\ [PlainNext]_vars
         => [Pipe!PipeNext]_(Pipe!pipeVars)
<1> SUFFICES ASSUME TypeOK, LabelInv, PipeInv, TypeOK', PipeInv', [PlainNext]_vars
             PROVE  [Pipe!PipeNext]_(Pipe!pipeVars)
  OBVIOUS
<1>1. CASE SendNextPacket \/ SendFinalPacket \/ PlainRecvAck
  BY <1>1, PipeSenderStep
<1>2. CASE PlainRecvPacket
  BY <1>2, PipeReceiverStep
<1>3. CASE RecvTimeout
  <2>1. Reader = "open" /\ Reader' = "broken" /\ UNCHANGED <<out, Writer>>
    BY <1>3 DEF RecvTimeout, Reader, Writer, senderVars
  <2> QED BY <2>1 DEF Pipe!PipeNext, Pipe!CloseReader
<1>4. CASE Drop \/ Duplicate \/ Stray
  <2>1. UNCHANGED <<out, Reader, Writer>>
    BY <1>4, NetworkStep DEF senderVars, receiverVars, Reader, Writer
  <2> QED BY <2>1 DEF Pipe!pipeVars
<1>5. CASE AckTimeout \/ Tick \/ Terminated \/ UNCHANGED vars
  <2>1. UNCHANGED <<out, Reader, Writer>>
    BY <1>5 DEF AckTimeout, Tick, Terminated, vars, senderVars, receiverVars, Reader, Writer
  <2> QED BY <2>1 DEF Pipe!pipeVars
<1> QED BY <1>1, <1>2, <1>3, <1>4, <1>5 DEF PlainNext

(* Without duplication, without empty datagrams and while write() takes    *)
(* all it is given, project4 is a byte pipe: for every input and block     *)
(* size, with any number of datagrams lost, reordered, delayed or ignored  *)
(* for want of the magic, and whichever system call fails, the output is a *)
(* prefix of the input and either program reports success only when all of *)
(* it was written.                                                         *)
THEOREM TransportIsAPipe ==
  ASSUME "duplicate" \notin Faults, "shortwrite" \notin Faults, "empty" \notin Faults
  PROVE  Spec => ImplementsPipe
<1> DEFINE I == TypeOK /\ ~ Reread /\ LabelInv /\ PipeInv
<1>1. I /\ I' /\ [Next]_vars => [Pipe!PipeNext]_(Pipe!pipeVars)
  BY PlainStep, PipeStep
<1>2. TypeOK /\ (Reread \/ (LabelInv /\ PipeInv)) /\ ~ Reread => I
  OBVIOUS
<1> HIDE DEF I
<1> QED BY <1>1, <1>2, PipeInitStep, PipeInvariant, NeverReread, PTL
        DEF Spec, ImplementsPipe, Pipe!PipeSpec

-----------------------------------------------------------------------------
(* With a write() that may fall short project4 is no pipe, but it writes   *)
(* nothing twice, and never reports success for more than the sequence     *)
(* space holds.                                                            *)

(* The datagram in flight holds what comes behind all that is written, or  *)
(* answers the one that did, and both say where the sender stands.         *)
FlightInv ==
  /\ AtMostOne(toRecv)
  /\ \A p \in Range(toRecv) : p.magic =>
       p.end \leq taken /\ \A i \in DOMAIN out : out[i] \leq p.end - p.len
  /\ sState = "send" => Quiet(toRecv) /\ Quiet(toSend)
  /\ sState = "wait" =>
       /\ AtMostOne(toSend)
       /\ Quiet(toRecv) \/ Quiet(toSend)

OutInv == Increasing /\ \A i \in DOMAIN out : out[i] \leq taken

(* While the sequence has not wrapped it is the number of bytes read; once *)
(* it has, no acknowledgment is ever accepted.                             *)
SeqInv ==
  /\ sState = "send" => sequence = taken
  /\ sState = "wait" =>
       /\ sequence < taken /\ taken \leq sequence + BlockMax
       /\ \A p \in Range(toRecv) : p.magic => p.seq = sequence /\ p.seq + p.len = taken
       /\ \A p \in Range(toSend) : p.magic => p.seq = taken % SeqSpace
  /\ Limited

LimitInv == FlightInv /\ OutInv /\ SeqInv

-----------------------------------------------------------------------------
(* What a sequence that has just run over 32 bits wraps around to.         *)
LEMMA ModuloWraps ==
  ASSUME NEW n \in Nat, n \geq SeqSpace, n - SeqSpace < SeqSpace
  PROVE  n % SeqSpace = n - SeqSpace
<1> DEFINE q == n \div SeqSpace
           r == n % SeqSpace
<1>1. SeqSpace \in Nat /\ SeqSpace > 0
  BY TransportAssumption
<1>2. q \in Nat /\ r \in Nat /\ r < SeqSpace /\ n = SeqSpace * q + r
  BY <1>1
<1> HIDE DEF q, r
<1>3. CASE q = 0
  BY <1>1, <1>2, <1>3
<1>4. CASE q = 1
  BY <1>1, <1>2, <1>4 DEF r
<1>5. CASE q \geq 2
  <2>1. SeqSpace * q \geq SeqSpace * 2
    BY <1>1, <1>2, <1>5
  <2> QED BY <2>1, <1>1, <1>2
<1> QED BY <1>2, <1>3, <1>4, <1>5

-----------------------------------------------------------------------------
(* The invariant is inductive.                                             *)
LEMMA LimitInit ==
  ASSUME BlockMax < SeqSpace
  PROVE  Init => LimitInv
<1>1. Range(<< >>) = {} /\ Len(<< >>) = 0 /\ DOMAIN << >> = {}
  BY DEF Range
<1> QED BY <1>1 DEF Init, LimitInv, FlightInv, OutInv, SeqInv, Increasing, Limited,
     Quiet, AtMostOne

LEMMA LimitSend ==
  ASSUME TypeOK, LimitInv, SendNextPacket
  PROVE  LimitInv'
<1>1. PICK n \in 1..BlockMax, ok \in BOOLEAN :
        /\ taken + n \leq N
        /\ taken' = taken + n
        /\ sState' = IF ok THEN "wait" ELSE "failed"
        /\ toRecv' = IF ok THEN Append(toRecv, MakeHeader(sequence, n, FALSE, FALSE, taken + n))
                           ELSE toRecv
  BY DEF SendNextPacket
<1> DEFINE new == MakeHeader(sequence, n, FALSE, FALSE, taken + n)
<1>2. sState = "send" /\ UNCHANGED <<sequence, out, toSend>>
  BY DEF SendNextPacket, receiverVars
<1>3. Quiet(toRecv) /\ Quiet(toSend) /\ sequence = taken
  BY <1>2 DEF LimitInv, FlightInv, SeqInv
<1>4. n \in 0..BlockMax /\ n \leq taken + n /\ taken + n \in 0..N /\ sequence \in Nat
      /\ n \in Nat /\ n > 0 /\ taken \in Nat /\ BlockMax \in Nat
  BY <1>1, TypeFacts
<1>5. new \in Datagram
  BY <1>4, MakeHeaderType
<1>6. new.end = taken + n /\ new.len = n /\ new.end - new.len = taken /\ new.seq = sequence
  BY <1>4, Modulo, TypeFacts DEF MakeHeader
<1> HIDE DEF new
<1>7. \A i \in DOMAIN out : out[i] \in Nat /\ out[i] \leq taken
  BY TypeFacts, ElementOfSeq, LenProperties DEF LimitInv, OutInv
<1>8. OutInv'
  BY <1>1, <1>2, <1>4, <1>7 DEF LimitInv, OutInv, Increasing
<1>9. AtMostOne(toSend) /\ AtMostOne(toRecv) /\ Quiet(toSend')
  BY <1>2, <1>3, QuietIsAtMostOne
<1>10. CASE ok
  <2>1. toRecv' = Append(toRecv, new) /\ sState' = "wait" /\ toRecv \in Seq(Datagram)
    BY <1>1, <1>10, TypeFacts DEF new
  <2>2. Range(toRecv') = Range(toRecv) \cup {new}
    BY <1>5, <2>1, AppendRange
  <2>3. AtMostOne(toRecv')
    BY <1>3, <1>5, <2>1, AtMostOneAppend
  <2>4. ASSUME NEW p \in Range(toRecv'), p.magic
        PROVE  /\ p.end \leq taken' /\ \A i \in DOMAIN out : out[i] \leq p.end - p.len
               /\ p.seq = sequence /\ p.seq + p.len = taken'
    <3>1. p = new
      BY <1>3, <2>2, <2>4 DEF Quiet
    <3> QED BY <3>1, <1>1, <1>3, <1>4, <1>6, <1>7
  <2>5. FlightInv'
    BY <1>2, <1>9, <2>1, <2>3, <2>4, QuietIsAtMostOne DEF FlightInv
  <2>6. SeqInv'
    <3>1. sequence' < taken' /\ taken' \leq sequence' + BlockMax
      BY <1>1, <1>2, <1>3, <1>4
    <3>2. \A p \in Range(toSend') : ~ p.magic
      BY <1>9 DEF Quiet
    <3> QED BY <1>2, <2>1, <2>4, <3>1, <3>2 DEF SeqInv, Limited
  <2> QED BY <1>8, <2>5, <2>6 DEF LimitInv
<1>11. CASE ~ ok
  <2>1. sState' = "failed" /\ toRecv' = toRecv
    BY <1>1, <1>11
  <2>2. FlightInv'
    BY <1>2, <1>3, <1>9, <2>1 DEF FlightInv, Quiet
  <2> QED BY <1>8, <2>1, <2>2 DEF LimitInv, SeqInv, Limited
<1> QED BY <1>10, <1>11

(* A sender that has read more than the sequence space holds is not here.  *)
LEMMA LimitFinal ==
  ASSUME TypeOK, LimitInv, SendFinalPacket
  PROVE  LimitInv'
<1>1. PICK ok \in BOOLEAN :
        /\ sState' = IF ok THEN "done" ELSE "failed"
        /\ toRecv' = IF ok THEN Append(toRecv, MakeHeader(sequence + 1, 0, TRUE, FALSE, N))
                           ELSE toRecv
  BY DEF SendFinalPacket
<1> DEFINE new == MakeHeader(sequence + 1, 0, TRUE, FALSE, N)
<1>2. sState = "send" /\ taken = N /\ UNCHANGED <<sequence, taken, out, toSend>>
  BY DEF SendFinalPacket, receiverVars
<1>3. Quiet(toRecv) /\ sequence = N /\ N < SeqSpace
  BY <1>2, TypeFacts DEF LimitInv, FlightInv, SeqInv
<1>4. sequence + 1 \in Nat /\ 0 \in 0..BlockMax /\ 0 \leq N /\ N \in 0..N
  BY TypeFacts
<1>5. new \in Datagram
  BY <1>4, MakeHeaderType
<1>6. new.end = N /\ new.end - new.len = N
  BY <1>4 DEF MakeHeader
<1> HIDE DEF new
<1>7. OutInv'
  BY <1>2 DEF LimitInv, OutInv, Increasing
<1>8. SeqInv'
  BY <1>1, <1>3, TypeFacts DEF SeqInv, Limited
<1>9. FlightInv'
  <2>1. CASE ok
    <3>1. toRecv' = Append(toRecv, new) /\ sState' = "done" /\ toRecv \in Seq(Datagram)
      BY <1>1, <2>1, TypeFacts DEF new
    <3>2. Range(toRecv') = Range(toRecv) \cup {new}
      BY <1>5, <3>1, AppendRange
    <3>3. AtMostOne(toRecv')
      BY <1>3, <1>5, <3>1, AtMostOneAppend
    <3>4. \A p \in Range(toRecv') : p.magic => p = new
      BY <1>3, <3>2 DEF Quiet
    <3>5. \A i \in DOMAIN out : out[i] \leq N
      BY <1>2 DEF LimitInv, OutInv
    <3> QED BY <1>2, <1>4, <1>6, <3>1, <3>3, <3>4, <3>5 DEF FlightInv
  <2>2. CASE ~ ok
    BY <1>1, <1>2, <2>2 DEF LimitInv, FlightInv
  <2> QED BY <2>1, <2>2
<1> QED BY <1>7, <1>8, <1>9 DEF LimitInv

(* Past the sequence space the acknowledgment has wrapped, and is smaller  *)
(* than the sequence it is compared with.                                  *)
LEMMA LimitRecvAck ==
  ASSUME BlockMax < SeqSpace, TypeOK, LimitInv, PlainRecvAck
  PROVE  LimitInv'
<1>1. PICK i \in Deliverable(toSend), ok \in BOOLEAN :
        /\ toSend' = RemoveAt(toSend, i)
        /\ IF ok /\ Acceptable(toSend[i])
           THEN sState' = "send" /\ sequence' = toSend[i].seq
           ELSE sState' = (IF ok THEN "wait" ELSE "failed") /\ UNCHANGED sequence
  BY DEF PlainRecvAck
<1>2. sState = "wait" /\ UNCHANGED <<taken, out, toRecv>>
  BY DEF PlainRecvAck, receiverVars
<1>3. /\ i \in DOMAIN toSend /\ toSend \in Seq(Datagram)
      /\ toSend[i] \in Range(toSend) /\ Range(toSend') \subseteq Range(toSend)
  BY <1>1, TakeFromChannel, TypeFacts
<1>4. AtMostOne(toSend) /\ (Quiet(toRecv) \/ Quiet(toSend))
  BY <1>2 DEF LimitInv, FlightInv
<1>5. AtMostOne(toSend') /\ (toSend[i].magic => Quiet(toSend'))
  BY <1>1, <1>3, <1>4, AtMostOneRemove
<1>6. OutInv'
  BY <1>2 DEF LimitInv, OutInv, Increasing
<1>7. CASE ok /\ Acceptable(toSend[i])
  <2>1. toSend[i].magic /\ sState' = "send" /\ sequence' = toSend[i].seq
        /\ toSend[i].seq \geq sequence
    BY <1>1, <1>7 DEF Acceptable
  <2>2. Quiet(toRecv') /\ Quiet(toSend')
    BY <1>2, <1>3, <1>4, <1>5, <2>1 DEF Quiet
  <2>3. toSend[i].seq = taken % SeqSpace /\ sequence < taken /\ taken \leq sequence + BlockMax
    BY <1>2, <1>3, <2>1 DEF LimitInv, SeqInv
  <2>4. taken < SeqSpace
    <3> SUFFICES ASSUME taken \geq SeqSpace PROVE FALSE
      BY TypeFacts
    <3>1. taken - SeqSpace \in Nat /\ taken - SeqSpace < SeqSpace /\ taken - SeqSpace < sequence
      BY <2>3, TypeFacts
    <3>2. taken % SeqSpace = taken - SeqSpace
      BY <3>1, ModuloWraps, TypeFacts
    <3> QED BY <2>1, <2>3, <3>1, <3>2, TypeFacts
  <2>5. sequence' = taken
    BY <2>1, <2>3, <2>4, Modulo, TypeFacts
  <2>6. FlightInv'
    BY <1>2, <2>1, <2>2, QuietIsAtMostOne DEF LimitInv, FlightInv
  <2>7. SeqInv'
    BY <1>2, <2>1, <2>5 DEF SeqInv, Limited
  <2> QED BY <1>6, <2>6, <2>7 DEF LimitInv
<1>8. CASE ~ (ok /\ Acceptable(toSend[i]))
  <2>1. sState' \in {"wait", "failed"} /\ sequence' = sequence
    BY <1>1, <1>8
  <2>2. Quiet(toSend) => Quiet(toSend')
    BY <1>3 DEF Quiet
  <2>3. FlightInv'
    BY <1>2, <1>4, <1>5, <2>1, <2>2 DEF LimitInv, FlightInv, Quiet
  <2>4. SeqInv'
    BY <1>2, <1>3, <2>1 DEF LimitInv, SeqInv, Limited
  <2> QED BY <1>6, <2>3, <2>4 DEF LimitInv
<1> QED BY <1>7, <1>8

(* What is written continues the output, and its answer replaces it in     *)
(* flight.                                                                 *)
LEMMA LimitWrite ==
  ASSUME TypeOK, LimitInv, NEW p \in Range(toRecv), p \in Datagram, p.magic,
         PlainWrite(p) \/ out' = out \o Block(p)
  PROVE  /\ \A i, j \in DOMAIN out' : i < j => out'[i] < out'[j]
         /\ \A i \in DOMAIN out' : out'[i] \leq taken
<1> DEFINE k == Len(out)
           l == Len(out')
           start == p.end - p.len
<1>1. DOMAIN out = 1..k /\ \A i \in 1..k : out[i] \in Nat
  BY TypeFacts, LenProperties, ElementOfSeq
<1>2. p.len \in Nat /\ p.end \in Nat /\ p.len \leq p.end /\ p.end \leq taken /\ taken \in Nat
  BY DatagramFields, TypeFacts DEF LimitInv, FlightInv
<1>3. start \in Nat /\ start + p.len \leq taken
  BY <1>2
<1>4. \A i \in 1..k : out[i] \in Nat /\ out[i] \leq start
  BY <1>1 DEF LimitInv, FlightInv
<1>5. \A i, j \in 1..k : i < j => out[i] < out[j]
  BY <1>1 DEF LimitInv, OutInv, Increasing
<1>6. k \in Nat /\ l \in Nat /\ k \leq l /\ l \leq k + p.len
  BY WriteContinues, TypeFacts
<1>7. /\ DOMAIN out' = 1..l
      /\ \A i \in 1..k : out'[i] = out[i]
      /\ \A i \in (k + 1)..l : out'[i] = start + (i - k)
  BY WriteContinues
<1> HIDE DEF k, l, start
<1>8. \A i \in 1..l : i \in 1..k \/ i \in (k + 1)..l
  BY <1>6
<1>9. ASSUME NEW i \in 1..l, NEW j \in 1..l, i < j
      PROVE  out'[i] < out'[j]
  <2>1. CASE i \in 1..k /\ j \in 1..k
    BY <2>1, <1>5, <1>7, <1>9
  <2>2. CASE i \in 1..k /\ j \in (k + 1)..l
    <3>1. j - k \in Nat /\ j - k > 0
      BY <2>2, <1>6
    <3>2. out'[i] \in Nat /\ out'[i] \leq start /\ out'[j] = start + (j - k)
      BY <2>2, <1>4, <1>7
    <3> QED BY <3>1, <3>2, <1>3
  <2>3. CASE i \in (k + 1)..l /\ j \in (k + 1)..l
    <3>1. out'[i] = start + (i - k) /\ out'[j] = start + (j - k)
      BY <2>3, <1>7
    <3> QED BY <3>1, <1>3, <1>6, <1>9
  <2>4. CASE i \in (k + 1)..l /\ j \in 1..k
    BY <2>4, <1>6, <1>9
  <2> QED BY <2>1, <2>2, <2>3, <2>4, <1>8
<1>10. ASSUME NEW i \in 1..l PROVE out'[i] \leq taken
  <2>1. CASE i \in 1..k
    <3>1. out'[i] \in Nat /\ out'[i] \leq start
      BY <2>1, <1>4, <1>7
    <3> QED BY <3>1, <1>2, <1>3
  <2>2. CASE i \in (k + 1)..l
    <3>1. out'[i] = start + (i - k) /\ i - k \leq p.len
      BY <2>2, <1>2, <1>6, <1>7
    <3> QED BY <3>1, <1>2, <1>3, <1>6
  <2> QED BY <2>1, <2>2, <1>8
<1> QED BY <1>7, <1>9, <1>10

LEMMA LimitRecvPacket ==
  ASSUME TypeOK, LimitInv, PlainRecvPacket
  PROVE  LimitInv'
<1>1. PICK i \in Deliverable(toRecv) :
        /\ \/ PlainAccept(toRecv[i])
           \/ PlainIgnore(toRecv[i])
           \/ PlainFails(toRecv[i])
        /\ toRecv' = RemoveAt(toRecv, i)
  BY DEF PlainRecvPacket
<1> DEFINE p == toRecv[i]
<1>2. UNCHANGED <<sState, sequence, taken>>
  BY DEF PlainRecvPacket, senderVars
<1>3. /\ p \in Range(toRecv) /\ p \in Datagram /\ Range(toRecv') \subseteq Range(toRecv)
      /\ i \in DOMAIN toRecv /\ toRecv \in Seq(Datagram)
  BY <1>1, TakeFromChannel, TypeFacts
<1>4. AtMostOne(toRecv') /\ (p.magic => Quiet(toRecv'))
  BY <1>1, <1>3, AtMostOneRemove DEF LimitInv, FlightInv
<1>5. Quiet(toRecv) => ~ p.magic /\ Quiet(toRecv')
  BY <1>3 DEF Quiet
<1> HIDE DEF p
<1>6. CASE UNCHANGED <<out, toSend>>
  <2>1. FlightInv'
    BY <1>2, <1>3, <1>4, <1>5, <1>6 DEF LimitInv, FlightInv, Quiet
  <2>2. OutInv'
    BY <1>2, <1>6 DEF LimitInv, OutInv, Increasing
  <2>3. SeqInv'
    BY <1>2, <1>3, <1>6 DEF LimitInv, SeqInv, Limited
  <2> QED BY <2>1, <2>2, <2>3 DEF LimitInv
<1>7. ASSUME p.magic, PlainWrite(p) \/ out' = out \o Block(p),
             toSend' = toSend \/ toSend' = Append(toSend, Response(p))
      PROVE  LimitInv'
  <2>1. OutInv'
    BY <1>2, <1>3, <1>7, LimitWrite DEF OutInv, Increasing
  <2>2. \A x \in Range(toRecv') : ~ x.magic
    BY <1>4, <1>7 DEF Quiet
  <2>3. sState # "send"
    BY <1>5, <1>7 DEF LimitInv, FlightInv
  <2>4. ASSUME sState = "wait"
        PROVE  Quiet(toSend) /\ p.seq + p.len = taken
    BY <1>3, <1>5, <1>7, <2>4 DEF LimitInv, FlightInv, SeqInv
  <2>5. Response(p) \in Datagram /\ toSend \in Seq(Datagram)
    BY <1>3, ResponseType, TypeFacts
  <2>6. Response(p).seq = (p.seq + p.len) % SeqSpace
    BY DEF Response, MakeHeader
  <2>7. ASSUME sState = "wait"
        PROVE  AtMostOne(toSend')
    BY <1>7, <2>4, <2>5, <2>7, AtMostOneAppend, QuietIsAtMostOne
  <2>8. ASSUME sState = "wait", NEW x \in Range(toSend'), x.magic
        PROVE  x.seq = taken % SeqSpace
    <3>1. CASE toSend' = toSend
      BY <3>1, <2>4, <2>8 DEF Quiet
    <3>2. CASE toSend' = Append(toSend, Response(p))
      <4>1. Range(toSend') = Range(toSend) \cup {Response(p)}
        BY <3>2, <2>5, AppendRange
      <4> QED BY <4>1, <2>4, <2>6, <2>8 DEF Quiet
    <3> QED BY <3>1, <3>2, <1>7
  <2>9. FlightInv'
    BY <1>2, <1>4, <1>7, <2>2, <2>3, <2>7 DEF FlightInv
  <2>10. SeqInv'
    BY <1>2, <2>2, <2>3, <2>8 DEF LimitInv, SeqInv, Limited
  <2> QED BY <2>1, <2>9, <2>10 DEF LimitInv
<1>8. CASE PlainIgnore(p)
  BY <1>6, <1>8 DEF PlainIgnore
<1>9. CASE PlainFails(p)
  BY <1>6, <1>7, <1>9 DEF PlainFails
<1>10. CASE PlainAccept(p)
  BY <1>7, <1>10 DEF PlainAccept
<1> QED BY <1>1, <1>8, <1>9, <1>10 DEF p

LEMMA LimitNetwork ==
  ASSUME TypeOK, LimitInv, Drop \/ Stray
  PROVE  LimitInv'
<1>1. UNCHANGED <<sState, sequence, taken, out>>
  BY NetworkStep DEF senderVars, receiverVars
<1>2. \A f \in Strangers : ~ f.magic /\ f \in Datagram
  BY StrangerType
<1>3. /\ Range(toRecv') \subseteq Range(toRecv) \cup Strangers
      /\ Range(toSend') \subseteq Range(toSend) \cup Strangers
  BY NetworkStep
<1>4. ASSUME NEW c \in Seq(Datagram), NEW d, AtMostOne(c),
             \/ d = c
             \/ \E i \in DOMAIN c : d = RemoveAt(c, i)
             \/ \E f \in Strangers : d = Append(c, f)
      PROVE  AtMostOne(d)
  BY <1>2, <1>4, AtMostOneRemove, AtMostOneAppend
<1>5. /\ toRecv' = toRecv \/ (\E i \in DOMAIN toRecv : toRecv' = RemoveAt(toRecv, i))
         \/ \E f \in Strangers : toRecv' = Append(toRecv, f)
      /\ toSend' = toSend \/ (\E i \in DOMAIN toSend : toSend' = RemoveAt(toSend, i))
         \/ \E f \in Strangers : toSend' = Append(toSend, f)
  BY StrayStep DEF Drop
<1>6. (AtMostOne(toRecv) => AtMostOne(toRecv')) /\ (AtMostOne(toSend) => AtMostOne(toSend'))
  BY <1>4, <1>5, TypeFacts
<1>7. (Quiet(toRecv) => Quiet(toRecv')) /\ (Quiet(toSend) => Quiet(toSend'))
  BY <1>2, <1>3 DEF Quiet
<1>8. FlightInv'
  BY <1>1, <1>2, <1>3, <1>6, <1>7 DEF LimitInv, FlightInv
<1>9. OutInv' /\ SeqInv'
  BY <1>1, <1>2, <1>3 DEF LimitInv, OutInv, Increasing, SeqInv, Limited
<1> QED BY <1>8, <1>9 DEF LimitInv

LEMMA LimitStep ==
  ASSUME "duplicate" \notin Faults, BlockMax < SeqSpace
  PROVE  TypeOK /\ LimitInv /\ [PlainNext]_vars => LimitInv'
<1> SUFFICES ASSUME TypeOK, LimitInv, [PlainNext]_vars
             PROVE  LimitInv'
  OBVIOUS
<1>1. CASE SendNextPacket
  BY <1>1, LimitSend
<1>2. CASE SendFinalPacket
  BY <1>2, LimitFinal
<1>3. CASE PlainRecvAck
  BY <1>3, LimitRecvAck
<1>4. CASE PlainRecvPacket
  BY <1>4, LimitRecvPacket
<1>5. CASE Drop \/ Stray
  BY <1>5, LimitNetwork
<1>6. CASE Duplicate
  BY <1>6 DEF Duplicate, CanFault
<1>7. CASE AckTimeout \/ RecvTimeout \/ Tick \/ Terminated \/ UNCHANGED vars
  <2>1. UNCHANGED <<sequence, taken, out, toRecv, toSend, sState>>
    BY <1>7 DEF AckTimeout, RecvTimeout, Tick, Terminated, vars, senderVars, receiverVars, netVars
  <2> QED BY <2>1 DEF LimitInv, FlightInv, OutInv, Increasing, SeqInv, Limited,
                      Quiet, AtMostOne
<1> QED BY <1>1, <1>2, <1>3, <1>4, <1>5, <1>6, <1>7 DEF PlainNext

LEMMA LimitInvariant ==
  ASSUME "duplicate" \notin Faults, BlockMax < SeqSpace
  PROVE  Spec => [](TypeOK /\ (Reread \/ LimitInv))
<1>1. TypeOK /\ (Reread \/ LimitInv) /\ [Next]_vars => (Reread \/ LimitInv)'
  BY PlainStep, LimitStep
<1> QED BY <1>1, TypeInit, TypeStep, LimitInit, PTL DEF Spec

-----------------------------------------------------------------------------
(* Without duplication nothing is written twice or out of order, whatever  *)
(* is lost and however often write() falls short (3600recv.c:95), until a  *)
(* header is looked at a second time.                                      *)
THEOREM NothingIsTwice ==
  ASSUME "duplicate" \notin Faults, BlockMax < SeqSpace
  PROVE  Spec => []NothingTwice
<1>1. TypeOK /\ (Reread \/ LimitInv) => NothingTwice
  BY DEF LimitInv, OutInv, Increasing, NothingTwice
<1> QED BY <1>1, LimitInvariant, PTL

(* The sequence space is the most a transfer can carry: the sender never   *)
(* reports success for that much or more (3600send.c:27, 158), unless it   *)
(* took an old acknowledgment for a later one.                             *)
THEOREM LimitOfATransfer ==
  ASSUME "duplicate" \notin Faults, BlockMax < SeqSpace
  PROVE  Spec => []TransferLimit
<1>1. TypeOK /\ (Reread \/ LimitInv) => TransferLimit
  BY DEF LimitInv, SeqInv, Limited, TransferLimit
<1> QED BY <1>1, LimitInvariant, PTL

-----------------------------------------------------------------------------
(* The order of the output: everything that precedes a block in flight is  *)
(* written or in flight ahead of it.                                       *)
InBlock(b, p) == p.magic /\ p.end - p.len < b /\ b \leq p.end

(* The first n bytes of the input are in the output or in one of the first *)
(* k datagrams of the channel.                                             *)
Covered(n, channel, k) ==
  \A b \in 1..n : b \in Range(out) \/ \E j \in 1..k : InBlock(b, channel[j])

OrderInv ==
  /\ Gapless
  /\ rState = "run" =>
       /\ \A i \in 1..Len(toRecv) : toRecv[i].magic =>
            /\ Covered(toRecv[i].end - toRecv[i].len, toRecv, i - 1)
            /\ toRecv[i].eof => toRecv[i].len = 0 /\ toRecv[i].end = N
       /\ sState \in {"send", "wait"} => Covered(taken, toRecv, Len(toRecv))

-----------------------------------------------------------------------------
(* The receiver's patience is spent while something travels.               *)
Travelling ==
  /\ sState # "failed"
  /\ \A p \in Range(toRecv) : (p.magic /\ ~ p.eof) => p.len \geq 1
  /\ rState = "run" =>
       /\ sState = "wait" =>
            \/ \E p \in Range(toRecv) : p.magic /\ ~ p.eof /\ p.end = taken
            \/ \E p \in Range(toSend) : p.ack /\ p.end = taken
       /\ sState = "done" => \E p \in Range(toRecv) : p.magic /\ p.eof

Spent == Patience - rTimer

-----------------------------------------------------------------------------
(* Writing a block leaves all its bytes in the output.                     *)
LEMMA WriteCovers ==
  ASSUME TypeOK, NEW p \in Datagram, out' = out \o Block(p)
  PROVE  /\ Range(out) \subseteq Range(out')
         /\ \A b : (b \in 1..N /\ InBlock(b, p)) => b \in Range(out')
         /\ Len(out') = Len(out) + p.len
<1> DEFINE k == Len(out)
           l == Len(out')
           start == p.end - p.len
<1>1. /\ k \in Nat /\ DOMAIN out = 1..k
      /\ p.len \in Nat /\ p.end \in Nat /\ start \in Nat /\ p.end = start + p.len
  BY TypeFacts, DatagramFields, LenProperties
<1>2. /\ l = k + p.len /\ DOMAIN out' = 1..l
      /\ \A i \in 1..k : out'[i] = out[i]
      /\ \A i \in (k + 1)..l : out'[i] = start + (i - k)
  <2>1. l = k + p.len
    <3>1. Block(p) \in Seq(0..N) /\ Len(Block(p)) = p.len /\ out \in Seq(0..N)
      BY BlockType, TypeFacts
    <3>2. Len(out \o Block(p)) = Len(out) + Len(Block(p))
      BY <3>1, ConcatProperties
    <3> QED BY <3>1, <3>2
  <2> QED BY <2>1, WriteContinues
<1> HIDE DEF k, l, start
<1>3. Range(out) \subseteq Range(out')
  BY <1>1, <1>2 DEF Range
<1>4. ASSUME NEW b \in 1..N, InBlock(b, p)
      PROVE  b \in Range(out')
  <2>1. b \in Nat /\ start < b /\ b \leq start + p.len
    BY <1>1, <1>4, TypeFacts DEF InBlock, start
  <2>2. PICK i \in (k + 1)..l : b = start + (i - k)
    <3>1. k + (b - start) \in (k + 1)..l /\ b = start + ((k + (b - start)) - k)
      BY <1>1, <1>2, <2>1
    <3> QED BY <3>1
  <2>3. out'[i] = b /\ i \in DOMAIN out'
    BY <1>1, <1>2, <2>2
  <2> QED BY <2>3 DEF Range
<1> QED BY <1>2, <1>3, <1>4 DEF k, l

(* Writing a block whose predecessors are all written leaves no gap.       *)
LEMMA WriteKeepsOrder ==
  ASSUME TypeOK, Gapless, NEW p \in Datagram, out' = out \o Block(p),
         \A b \in 1..(p.end - p.len) : b \in Range(out)
  PROVE  \A i \in DOMAIN out' : out'[i] = 1 \/ \E j \in 1..(i - 1) : out'[j] = out'[i] - 1
<1> DEFINE k == Len(out)
           l == Len(out')
           start == p.end - p.len
<1>1. /\ k \in Nat /\ DOMAIN out = 1..k
      /\ p.len \in Nat /\ p.end \in Nat /\ start \in Nat /\ p.end = start + p.len
  BY TypeFacts, DatagramFields, LenProperties
<1>2. /\ l = k + p.len /\ DOMAIN out' = 1..l
      /\ \A i \in 1..k : out'[i] = out[i]
      /\ \A i \in (k + 1)..l : out'[i] = start + (i - k)
  BY WriteCovers, WriteContinues
<1>3. \A b \in 1..start : b \in Range(out)
  OBVIOUS
<1> HIDE DEF k, l, start
<1>4. ASSUME NEW i \in 1..k
      PROVE  out'[i] = 1 \/ \E j \in 1..(i - 1) : out'[j] = out'[i] - 1
  <2>1. out[i] = 1 \/ \E j \in 1..(i - 1) : out[j] = out[i] - 1
    BY <1>1 DEF Gapless
  <2>2. \A j \in 1..(i - 1) : j \in 1..k
    BY <1>1
  <2> QED BY <1>2, <2>1, <2>2
<1>5. ASSUME NEW i \in (k + 1)..l
      PROVE  out'[i] = 1 \/ \E j \in 1..(i - 1) : out'[j] = out'[i] - 1
  <2>1. CASE i > k + 1
    <3>1. (i - 1) \in (k + 1)..l /\ (i - 1) \in 1..(i - 1)
      BY <1>1, <1>2, <2>1
    <3>2. out'[i - 1] = start + ((i - 1) - k) /\ out'[i] = start + (i - k)
      BY <1>2, <3>1
    <3>3. out'[i - 1] = out'[i] - 1
      BY <1>1, <1>2, <3>2
    <3> QED BY <3>1, <3>3
  <2>2. CASE i = k + 1
    <3>1. out'[i] = start + 1
      BY <1>1, <1>2, <2>2
    <3>2. CASE start = 0
      BY <3>1, <3>2
    <3>3. CASE start > 0
      <4>1. start \in Range(out)
        BY <1>1, <1>3, <3>3
      <4>2. PICK j \in 1..k : out[j] = start
        BY <1>1, <4>1 DEF Range
      <4>3. j \in 1..(i - 1) /\ out'[j] = out'[i] - 1
        BY <1>1, <1>2, <2>2, <3>1, <4>2
      <4> QED BY <4>3
    <3>4. start = 0 \/ start > 0
      BY <1>1
    <3> QED BY <3>2, <3>3, <3>4
  <2>3. i > k + 1 \/ i = k + 1
    BY <1>1, <1>2
  <2> QED BY <2>1, <2>2, <2>3
<1>6. \A i \in DOMAIN out' : i \in 1..k \/ i \in (k + 1)..l
  BY <1>1, <1>2
<1> QED BY <1>4, <1>5, <1>6

-----------------------------------------------------------------------------
(* The order invariant is inductive on a network that keeps the order and  *)
(* loses nothing, while write() takes all it is given.                     *)

LEMMA OrderInit == Init => OrderInv
<1>1. Len(<< >>) = 0 /\ DOMAIN << >> = {} /\ 1..0 = {}
  OBVIOUS
<1> QED BY <1>1 DEF Init, OrderInv, Gapless, Covered

(* A new datagram behind all the others.                                   *)
LEMMA OrderAppend ==
  ASSUME TypeOK, OrderInv, NEW e \in Datagram,
         toRecv' = Append(toRecv, e), UNCHANGED <<rState, out>>,
         e.magic => /\ Covered(e.end - e.len, toRecv, Len(toRecv))
                    /\ e.eof => e.len = 0 /\ e.end = N,
         sState' \in {"send", "wait"} =>
           \A b \in 1..taken' : \/ b \in Range(out)
                                \/ \E j \in 1..Len(toRecv) : InBlock(b, toRecv[j])
                                \/ InBlock(b, e)
  PROVE  OrderInv'
<1>0. PICK n \in Nat : n = Len(toRecv)
  BY TypeFacts, LenProperties
<1>1. /\ toRecv \in Seq(Datagram)
      /\ Len(toRecv') = n + 1 /\ toRecv'[n + 1] = e
      /\ \A j \in 1..n : toRecv'[j] = toRecv[j]
  BY <1>0, TypeFacts, AppendProperties
<1>2. Gapless'
  BY DEF OrderInv, Gapless
<1> SUFFICES ASSUME rState = "run"
             PROVE  OrderInv'
  BY <1>2 DEF OrderInv
<1>3. ASSUME NEW i \in 1..n, toRecv'[i].magic
      PROVE  /\ (Covered(toRecv[i].end - toRecv[i].len, toRecv, i - 1))'
             /\ toRecv'[i].eof => toRecv'[i].len = 0 /\ toRecv'[i].end = N
  <2>1. toRecv'[i] = toRecv[i] /\ toRecv[i].magic
    BY <1>1, <1>3
  <2>2. /\ Covered(toRecv[i].end - toRecv[i].len, toRecv, i - 1)
        /\ toRecv[i].eof => toRecv[i].len = 0 /\ toRecv[i].end = N
    BY <1>0, <2>1 DEF OrderInv
  <2>3. \A j \in 1..(i - 1) : j \in 1..n
    BY <1>1
  <2> QED BY <1>1, <2>1, <2>2, <2>3 DEF Covered
<1>4. ASSUME toRecv'[n + 1].magic
      PROVE  /\ (Covered(toRecv[n + 1].end - toRecv[n + 1].len, toRecv, n))'
             /\ toRecv'[n + 1].eof => toRecv'[n + 1].len = 0 /\ toRecv'[n + 1].end = N
  BY <1>0, <1>1, <1>4 DEF Covered
<1>5. sState' \in {"send", "wait"} => (Covered(taken, toRecv, Len(toRecv)))'
  <2>1. \A j \in 1..n : j \in 1..(n + 1)
    BY <1>1
  <2>2. (n + 1) \in 1..(n + 1)
    BY <1>1
  <2> QED BY <1>0, <1>1, <2>1, <2>2 DEF Covered
<1>6. ASSUME NEW i \in 1..Len(toRecv'), toRecv'[i].magic
      PROVE  /\ (Covered(toRecv[i].end - toRecv[i].len, toRecv, i - 1))'
             /\ toRecv'[i].eof => toRecv'[i].len = 0 /\ toRecv'[i].end = N
  <2>1. i \in 1..n \/ (i = n + 1 /\ i - 1 = n)
    BY <1>1
  <2> QED BY <1>3, <1>4, <1>6, <2>1
<1> QED BY <1>2, <1>5, <1>6 DEF OrderInv

LEMMA OrderSend ==
  ASSUME TypeOK, OrderInv, SendNextPacket \/ SendFinalPacket
  PROVE  OrderInv'
<1>1. sState = "send" /\ UNCHANGED <<rState, out>>
  BY DEF SendNextPacket, SendFinalPacket, receiverVars
<1>2. rState = "run" => Covered(taken, toRecv, Len(toRecv))
  BY <1>1 DEF OrderInv
<1>3. Gapless'
  BY <1>1 DEF OrderInv, Gapless
<1>4. CASE toRecv' = toRecv /\ sState' = "failed"
  BY <1>1, <1>3, <1>4 DEF OrderInv, Covered
<1>5. CASE rState # "run"
  BY <1>1, <1>3, <1>5 DEF OrderInv
<1>6. ASSUME rState = "run", NEW n \in 1..BlockMax, taken + n \leq N, taken' = taken + n,
             toRecv' = Append(toRecv, MakeHeader(sequence, n, FALSE, FALSE, taken + n))
      PROVE  OrderInv'
  <2> DEFINE new == MakeHeader(sequence, n, FALSE, FALSE, taken + n)
  <2>1. n \in 0..BlockMax /\ n \leq taken + n /\ taken + n \in 0..N
        /\ sequence \in Nat /\ taken \in Nat /\ n \in Nat
    BY <1>6, TypeFacts
  <2>2. new \in Datagram
    BY <2>1, MakeHeaderType
  <2>3. new.magic /\ ~ new.eof /\ new.end = taken + n /\ new.end - new.len = taken
    BY <2>1 DEF MakeHeader
  <2>4. toRecv' = Append(toRecv, new)
    BY <1>6
  <2> HIDE DEF new
  <2>5. ASSUME NEW b \in 1..taken'
        PROVE  b \in 1..taken \/ InBlock(b, new)
    BY <1>6, <2>1, <2>3 DEF InBlock
  <2> QED BY <1>1, <1>2, <1>6, <2>2, <2>3, <2>4, <2>5, OrderAppend DEF Covered
<1>7. ASSUME rState = "run", taken = N, sState' = "done",
             toRecv' = Append(toRecv, MakeHeader(sequence + 1, 0, TRUE, FALSE, N))
      PROVE  OrderInv'
  <2> DEFINE new == MakeHeader(sequence + 1, 0, TRUE, FALSE, N)
  <2>1. sequence + 1 \in Nat /\ 0 \in 0..BlockMax /\ 0 \leq N /\ N \in 0..N
    BY TypeFacts
  <2>2. new \in Datagram
    BY <2>1, MakeHeaderType
  <2>3. new.end - new.len = taken /\ new.len = 0 /\ new.end = N
    BY <1>7, <2>1 DEF MakeHeader
  <2>4. toRecv' = Append(toRecv, new)
    BY <1>7
  <2> HIDE DEF new
  <2> QED BY <1>1, <1>2, <1>7, <2>2, <2>3, <2>4, OrderAppend
<1>8. CASE SendNextPacket
  BY <1>4, <1>5, <1>6, <1>8 DEF SendNextPacket
<1>9. CASE SendFinalPacket
  BY <1>4, <1>5, <1>7, <1>9 DEF SendFinalPacket
<1> QED BY <1>8, <1>9

LEMMA OrderRecvPacket ==
  ASSUME "reorder" \notin Faults, "shortwrite" \notin Faults, TypeOK, OrderInv, PlainRecvPacket
  PROVE  OrderInv'
<1>1. PICK i \in Deliverable(toRecv) :
        /\ \/ PlainAccept(toRecv[i])
           \/ PlainIgnore(toRecv[i])
           \/ PlainFails(toRecv[i])
        /\ toRecv' = RemoveAt(toRecv, i)
  BY DEF PlainRecvPacket
<1>2. rState = "run" /\ UNCHANGED <<sState, taken>>
  BY DEF PlainRecvPacket, senderVars
<1>3. i = 1 /\ i \in DOMAIN toRecv /\ toRecv \in Seq(Datagram)
  BY <1>1, TypeFacts DEF Deliverable
<1>4. PICK n \in Nat : n = Len(toRecv) /\ n \geq 1
  BY <1>3, LenProperties
<1>5. PICK p \in Datagram : p = toRecv[1]
  BY <1>1, <1>3, TakeFromChannel
<1>6. Len(toRecv') = n - 1 /\ \A j \in 1..(n - 1) : toRecv'[j] = toRecv[j + 1]
  BY <1>1, <1>3, <1>4, RemoveAtProperties
<1>7. p.magic => \A b \in 1..(p.end - p.len) : b \in Range(out)
  BY <1>2, <1>4, <1>5 DEF OrderInv, Covered
<1>8. (p.magic /\ out' = out \o Block(p)) =>
        /\ \A j \in DOMAIN out' : out'[j] = 1 \/ \E k \in 1..(j - 1) : out'[k] = out'[j] - 1
        /\ Range(out) \subseteq Range(out')
        /\ \A b : (b \in 1..N /\ InBlock(b, p)) => b \in Range(out')
  BY <1>7, WriteKeepsOrder, WriteCovers DEF OrderInv
<1>9. CASE PlainFails(p)
  <2>1. rState' = "failed" /\ (out' = out \/ (p.magic /\ out' = out \o Block(p)))
    BY <1>9 DEF PlainFails
  <2>2. Gapless'
    BY <1>2, <1>8, <2>1 DEF OrderInv, Gapless
  <2> QED BY <2>1, <2>2 DEF OrderInv
<1>10. ASSUME Range(out) \subseteq Range(out'),
              \A b : (b \in 1..N /\ InBlock(b, p)) => b \in Range(out'),
              rState' = "run", Gapless'
       PROVE  OrderInv'
  <2>1. ASSUME NEW m \in 0..N, NEW k \in Nat, Covered(m, toRecv, k + 1), k \leq n - 1
        PROVE  (Covered(m, toRecv, k))'
    <3> SUFFICES ASSUME NEW b \in 1..m, b \notin Range(out')
                 PROVE  \E j \in 1..k : InBlock(b, toRecv'[j])
      BY DEF Covered
    <3>1. b \in 1..N
      BY TypeFacts
    <3>2. PICK j \in 1..(k + 1) : InBlock(b, toRecv[j])
      BY <1>10, <2>1 DEF Covered
    <3>3. j # 1
      BY <1>5, <1>10, <3>1, <3>2
    <3>4. (j - 1) \in 1..k /\ (j - 1) \in 1..(n - 1) /\ (j - 1) + 1 = j
      BY <1>4, <2>1, <3>3
    <3> QED BY <1>6, <3>2, <3>4
  <2>2. ASSUME NEW j \in 1..(n - 1), toRecv'[j].magic
        PROVE  /\ (Covered(toRecv[j].end - toRecv[j].len, toRecv, j - 1))'
               /\ toRecv'[j].eof => toRecv'[j].len = 0 /\ toRecv'[j].end = N
    <3>1. j + 1 \in 1..n /\ toRecv'[j] = toRecv[j + 1] /\ (j + 1) - 1 = j
          /\ j - 1 \in Nat /\ (j - 1) + 1 = j /\ j - 1 \leq n - 1
      BY <1>4, <1>6
    <3>2. /\ Covered(toRecv[j + 1].end - toRecv[j + 1].len, toRecv, j)
          /\ toRecv[j + 1].eof => toRecv[j + 1].len = 0 /\ toRecv[j + 1].end = N
      BY <1>2, <1>4, <2>2, <3>1 DEF OrderInv
    <3>3. PICK m \in 0..N : m = toRecv[j + 1].end - toRecv[j + 1].len
      <4>1. toRecv[j + 1] \in Datagram
        BY <1>3, <1>4, <3>1, ElementOfSeq
      <4>2. toRecv[j + 1].end - toRecv[j + 1].len \in 0..N
        BY SMTT(30), <4>1, DatagramFields, TypeFacts
      <4> QED BY <4>2
    <3>4. (Covered(m, toRecv, j - 1))'
      BY <2>1, <3>1, <3>2, <3>3
    <3>5. m = toRecv'[j].end - toRecv'[j].len
      BY <3>1, <3>3
    <3> QED BY <3>1, <3>2, <3>4, <3>5
  <2>3. sState' \in {"send", "wait"} => (Covered(taken, toRecv, Len(toRecv)))'
    <3>1. n - 1 \in Nat /\ (n - 1) + 1 = n
      BY <1>4
    <3>2. sState' \in {"send", "wait"} => Covered(taken, toRecv, n)
      BY <1>2, <1>4 DEF OrderInv
    <3>3. PICK m \in 0..N : m = taken /\ m = taken'
      BY <1>2, TypeFacts
    <3>4. sState' \in {"send", "wait"} => (Covered(m, toRecv, n - 1))'
      BY <2>1, <3>1, <3>2, <3>3
    <3> QED BY <1>6, <3>3, <3>4
  <2> QED BY <1>6, <1>10, <2>2, <2>3 DEF OrderInv
<1>11. CASE PlainIgnore(p)
  <2>1. UNCHANGED <<rState, out>> /\ ~ p.magic
    BY <1>11 DEF PlainIgnore
  <2>2. Gapless'
    BY <2>1 DEF OrderInv, Gapless
  <2> QED BY <1>2, <1>10, <2>1, <2>2 DEF InBlock
<1>12. CASE PlainAccept(p)
  <2>1. p.magic /\ rState' = (IF p.eof THEN "eof" ELSE "run")
    BY <1>12 DEF PlainAccept
  <2>2. out' = out \o Block(p)
    BY <1>12 DEF PlainAccept, PlainWrite, CanFault
  <2>3. CASE p.eof
    <3>1. p.len = 0 /\ p.end = N /\ N \in Nat
      BY <1>2, <1>4, <1>5, <2>1, <2>3, TypeFacts DEF OrderInv
    <3>2. \A b \in 1..N : b \in Range(out')
      BY <1>7, <1>8, <2>1, <2>2, <3>1
    <3>3. Gapless'
      BY <1>8, <2>1, <2>2, <3>2 DEF Gapless, Range
    <3> QED BY <2>1, <2>3, <3>3 DEF OrderInv
  <2>4. CASE ~ p.eof
    <3>1. Gapless'
      BY <1>8, <2>1, <2>2, <2>4 DEF Gapless
    <3> QED BY <1>8, <1>10, <2>1, <2>2, <2>4, <3>1
  <2> QED BY <2>3, <2>4
<1> QED BY <1>1, <1>3, <1>5, <1>9, <1>11, <1>12

(* The copy stands right behind the original, and covers what it covers.   *)
LEMMA OrderDuplicate ==
  ASSUME TypeOK, OrderInv, Duplicate
  PROVE  OrderInv'
<1>1. UNCHANGED <<sState, taken, rState, out>>
  BY DEF Duplicate, senderVars, receiverVars
<1>2. Gapless'
  BY <1>1 DEF OrderInv, Gapless
<1>3. CASE toRecv' = toRecv
  BY <1>1, <1>2, <1>3 DEF OrderInv, Covered
<1>4. CASE \E i \in DOMAIN toRecv : toRecv' = InsertAt(toRecv, i, toRecv[i])
  <2>1. PICK i \in DOMAIN toRecv : toRecv' = InsertAt(toRecv, i, toRecv[i])
    BY <1>4
  <2>2. PICK n \in Nat : n = Len(toRecv) /\ i \in 1..n
    BY <2>1, LenProperties, TypeFacts
  <2>3. toRecv \in Seq(Datagram) /\ toRecv[i] \in Datagram
    BY <2>1, <2>2, TypeFacts, ElementOfSeq
  <2>4. /\ Len(toRecv') = n + 1
        /\ \A j \in 1..(i - 1) : toRecv'[j] = toRecv[j]
        /\ toRecv'[i] = toRecv[i]
        /\ \A j \in (i + 1)..(n + 1) : toRecv'[j] = toRecv[j - 1]
    <3>1. i \in DOMAIN toRecv
      BY <2>1
    <3>2. /\ Len(InsertAt(toRecv, i, toRecv[i])) = Len(toRecv) + 1
          /\ \A j \in 1..(i - 1) : InsertAt(toRecv, i, toRecv[i])[j] = toRecv[j]
          /\ InsertAt(toRecv, i, toRecv[i])[i] = toRecv[i]
          /\ \A j \in (i + 1)..(Len(toRecv) + 1) : InsertAt(toRecv, i, toRecv[i])[j] = toRecv[j - 1]
      BY <2>3, <3>1, InsertAtProperties
    <3> QED BY <2>1, <2>2, <3>2
  <2>5. /\ \A j \in 1..i : toRecv'[j] = toRecv[j]
        /\ \A j \in i..n : toRecv'[j + 1] = toRecv[j]
    <3>1. ASSUME NEW j \in 1..i
          PROVE  toRecv'[j] = toRecv[j]
      <4>1. j \in 1..(i - 1) \/ j = i
        BY <2>2
      <4> QED BY <2>4, <4>1
    <3>2. ASSUME NEW j \in i..n
          PROVE  toRecv'[j + 1] = toRecv[j]
      <4>1. (j + 1) \in (i + 1)..(n + 1) /\ (j + 1) - 1 = j
        BY <2>2
      <4> QED BY <2>4, <4>1
    <3> QED BY <3>1, <3>2
  <2>6. ASSUME NEW m, NEW k \in 0..n, Covered(m, toRecv, k)
        PROVE  /\ k < i => (Covered(m, toRecv, k))'
               /\ (Covered(m, toRecv, k + 1))'
    <3> SUFFICES ASSUME NEW b \in 1..m, b \notin Range(out')
                 PROVE  /\ k < i => \E j \in 1..k : InBlock(b, toRecv'[j])
                        /\ \E j \in 1..(k + 1) : InBlock(b, toRecv'[j])
      BY DEF Covered
    <3>1. PICK j \in 1..k : InBlock(b, toRecv[j])
      BY <1>1, <2>6 DEF Covered
    <3>2. CASE j \in 1..i
      <4>1. InBlock(b, toRecv'[j]) /\ j \in 1..(k + 1)
        BY <2>5, <3>1, <3>2
      <4> QED BY <3>1, <4>1
    <3>3. CASE j \notin 1..i
      <4>1. j \in i..n /\ ~ (k < i) /\ (j + 1) \in 1..(k + 1)
        BY <2>2, <2>6, <3>3
      <4>2. InBlock(b, toRecv'[j + 1])
        BY <2>5, <3>1, <4>1
      <4> QED BY <4>1, <4>2
    <3> QED BY <3>2, <3>3
  <2>7. ASSUME rState = "run", NEW j \in 1..(n + 1), toRecv'[j].magic
        PROVE  /\ (Covered(toRecv[j].end - toRecv[j].len, toRecv, j - 1))'
               /\ toRecv'[j].eof => toRecv'[j].len = 0 /\ toRecv'[j].end = N
    <3>1. CASE j \in 1..i
      <4>1. toRecv'[j] = toRecv[j] /\ j \in 1..n /\ (j - 1) \in 0..n /\ j - 1 < i
        BY <2>2, <2>5, <3>1
      <4>2. /\ Covered(toRecv[j].end - toRecv[j].len, toRecv, j - 1)
            /\ toRecv[j].eof => toRecv[j].len = 0 /\ toRecv[j].end = N
        BY <2>2, <2>7, <4>1 DEF OrderInv
      <4>3. PICK m : m = toRecv[j].end - toRecv[j].len
        OBVIOUS
      <4>4. (Covered(m, toRecv, j - 1))'
        BY <2>6, <4>1, <4>2, <4>3
      <4> QED BY <4>1, <4>2, <4>3, <4>4
    <3>2. CASE j \notin 1..i
      <4>1. PICK k \in 0..n : k = j - 2 /\ k + 1 \in i..n /\ k + 1 \in 1..n
        BY <2>2, <3>2
      <4>2. toRecv'[j] = toRecv[k + 1] /\ (k + 1) - 1 = k /\ j - 1 = k + 1
        <5>1. (k + 1) + 1 = j
          BY <4>1
        <5> QED BY <2>5, <4>1, <5>1
      <4>3. /\ Covered(toRecv[k + 1].end - toRecv[k + 1].len, toRecv, k)
            /\ toRecv[k + 1].eof => toRecv[k + 1].len = 0 /\ toRecv[k + 1].end = N
        BY <2>2, <2>7, <4>1, <4>2 DEF OrderInv
      <4>4. PICK m : m = toRecv[k + 1].end - toRecv[k + 1].len
        OBVIOUS
      <4>5. (Covered(m, toRecv, k + 1))'
        BY <2>6, <4>3, <4>4
      <4> QED BY <4>2, <4>3, <4>4, <4>5
    <3> QED BY <3>1, <3>2
  <2>8. (rState = "run" /\ sState \in {"send", "wait"}) => (Covered(taken, toRecv, Len(toRecv)))'
    <3>1. PICK m : m = taken /\ m = taken'
      BY <1>1
    <3>2. (rState = "run" /\ sState \in {"send", "wait"}) => Covered(m, toRecv, n)
      BY <2>2, <3>1 DEF OrderInv
    <3>3. n \in 0..n
      BY <2>2
    <3>4. (rState = "run" /\ sState \in {"send", "wait"}) => (Covered(m, toRecv, n + 1))'
      BY <2>6, <3>2, <3>3
    <3> QED BY <2>4, <3>1, <3>4
  <2> QED BY <1>1, <1>2, <2>4, <2>7, <2>8 DEF OrderInv
<1> QED BY <1>3, <1>4 DEF Duplicate

LEMMA OrderStep ==
  ASSUME "reorder" \notin Faults, "drop" \notin Faults, "shortwrite" \notin Faults
  PROVE  TypeOK /\ OrderInv /\ [PlainNext]_vars => OrderInv'
<1> SUFFICES ASSUME TypeOK, OrderInv, [PlainNext]_vars
             PROVE  OrderInv'
  OBVIOUS
<1>1. CASE SendNextPacket \/ SendFinalPacket
  BY <1>1, OrderSend
<1>2. CASE PlainRecvPacket
  BY <1>2, OrderRecvPacket
<1>3. CASE Duplicate
  BY <1>3, OrderDuplicate
<1>4. CASE Drop
  BY <1>4 DEF Drop, CanFault
<1>5. CASE Stray
  <2>1. UNCHANGED <<sState, taken, rState, out>>
    BY <1>5 DEF Stray, senderVars, receiverVars
  <2>2. CASE toRecv' = toRecv
    BY <2>1, <2>2 DEF OrderInv, Gapless, Covered
  <2>3. ASSUME NEW f \in Strangers, toRecv' = Append(toRecv, f)
        PROVE  OrderInv'
    <3>1. ~ f.magic /\ f \in Datagram
      BY StrangerType
    <3>2. CASE rState = "run"
      <4>1. sState' \in {"send", "wait"} => Covered(taken', toRecv, Len(toRecv))
        BY <2>1, <3>2 DEF OrderInv
      <4> QED BY <2>1, <2>3, <3>1, <4>1, OrderAppend DEF Covered
    <3>3. CASE rState # "run"
      BY <2>1, <3>3 DEF OrderInv, Gapless
    <3> QED BY <3>2, <3>3
  <2> QED BY <1>5, <2>2, <2>3, StrayStep
<1>6. CASE PlainRecvAck
  <2>1. UNCHANGED <<rState, out, toRecv, taken>> /\ sState = "wait"
    BY <1>6 DEF PlainRecvAck, receiverVars
  <2> QED BY <2>1 DEF OrderInv, Gapless, Covered
<1>7. CASE RecvTimeout
  BY <1>7 DEF RecvTimeout, OrderInv, Gapless
<1>8. CASE AckTimeout \/ Tick \/ Terminated \/ UNCHANGED vars
  <2>1. UNCHANGED <<taken, out, toRecv, sState, rState>>
    BY <1>8 DEF AckTimeout, Tick, Terminated, vars, senderVars, receiverVars, netVars
  <2> QED BY <2>1 DEF OrderInv, Gapless, Covered
<1> QED BY <1>1, <1>2, <1>3, <1>4, <1>5, <1>6, <1>7, <1>8 DEF PlainNext

LEMMA OrderInvariant ==
  ASSUME "reorder" \notin Faults, "drop" \notin Faults, "shortwrite" \notin Faults
  PROVE  Spec => [](TypeOK /\ (Reread \/ (LabelInv /\ OrderInv)))
<1>1. TypeOK /\ (Reread \/ (LabelInv /\ OrderInv)) /\ [Next]_vars => (Reread \/ (LabelInv /\ OrderInv))'
  BY PlainStep, LabelStep, OrderStep
<1> QED BY <1>1, TypeInit, TypeStep, LabelInit, OrderInit, PTL DEF Spec

(* On a network that may duplicate and delay, but keeps the order and      *)
(* drops nothing, no byte is ever written ahead of the one before it, and  *)
(* an "eof" exit means every byte is there (3600recv.c:94-110), until a    *)
(* header is looked at a second time.                                      *)
THEOREM OutputHasNoGaps ==
  ASSUME "reorder" \notin Faults, "drop" \notin Faults, "shortwrite" \notin Faults
  PROVE  Spec => []NoGaps
<1>1. TypeOK /\ (Reread \/ (LabelInv /\ OrderInv)) => NoGaps
  BY DEF OrderInv, Gapless, NoGaps
<1> QED BY <1>1, OrderInvariant, PTL

-----------------------------------------------------------------------------
(* What is acknowledged was written: an acknowledgment leaves only when    *)
(* its block is in the output, with all that precedes it.                  *)
WrittenInv ==
  /\ \A p \in Range(toSend) : p.magic => \A b \in 1..p.end : b \in Range(out)
  /\ \A b \in 1..sequence : b \in Range(out)

(* What the receiver may take next continues what is written.              *)
Preceded ==
  rState = "run" =>
    \A i \in Deliverable(toRecv) : toRecv[i].magic =>
      \A b \in 1..(toRecv[i].end - toRecv[i].len) : b \in Range(out)

LEMMA PipePreceded ==
  ASSUME TypeOK, PipeInv
  PROVE  Preceded
<1> SUFFICES ASSUME NEW i \in Deliverable(toRecv), toRecv[i].magic,
                    NEW b \in 1..(toRecv[i].end - toRecv[i].len)
             PROVE  b \in Range(out)
  BY DEF Preceded
<1>1. toRecv[i] \in Range(toRecv)
  BY TakeFromChannel, TypeFacts
<1>2. b \in 1..Len(out)
  BY <1>1 DEF PipeInv
<1>3. b \in DOMAIN out /\ out[b] = b
  BY <1>2, TypeFacts, LenProperties DEF PipeInv
<1> QED BY <1>3 DEF Range

LEMMA OrderPreceded ==
  ASSUME "reorder" \notin Faults, TypeOK, OrderInv
  PROVE  Preceded
<1> SUFFICES ASSUME rState = "run", NEW i \in Deliverable(toRecv), toRecv[i].magic,
                    NEW b \in 1..(toRecv[i].end - toRecv[i].len)
             PROVE  b \in Range(out)
  BY DEF Preceded
<1>1. i = 1 /\ i \in 1..Len(toRecv) /\ i - 1 = 0
  BY TypeFacts, LenProperties DEF Deliverable
<1>2. Covered(toRecv[i].end - toRecv[i].len, toRecv, 0)
  BY <1>1 DEF OrderInv
<1> QED BY <1>2 DEF Covered

LEMMA WrittenInit == Init => WrittenInv
<1>1. Range(<< >>) = {} /\ 1..0 = {}
  BY DEF Range
<1> QED BY <1>1 DEF Init, WrittenInv

LEMMA WrittenRecvPacket ==
  ASSUME "shortwrite" \notin Faults, TypeOK, Preceded, WrittenInv, PlainRecvPacket
  PROVE  WrittenInv'
<1>1. PICK i \in Deliverable(toRecv) :
        \/ PlainAccept(toRecv[i])
        \/ PlainIgnore(toRecv[i])
        \/ PlainFails(toRecv[i])
  BY DEF PlainRecvPacket
<1>2. rState = "run" /\ UNCHANGED sequence
  BY DEF PlainRecvPacket, senderVars
<1>3. PICK p \in Datagram : p = toRecv[i]
  BY <1>1, TakeFromChannel, TypeFacts
<1>4. ASSUME Range(out) \subseteq Range(out'), UNCHANGED toSend
      PROVE  WrittenInv'
  BY <1>2, <1>4 DEF WrittenInv
<1>5. CASE PlainIgnore(p)
  BY <1>4, <1>5 DEF PlainIgnore
<1>6. CASE PlainFails(p)
  BY <1>4, <1>6, WriteCovers DEF PlainFails
<1>7. CASE PlainAccept(p)
  <2>1. p.magic /\ toSend' = Append(toSend, Response(p)) /\ out' = out \o Block(p)
    BY <1>7 DEF PlainAccept, PlainWrite, CanFault
  <2>2. /\ Range(out) \subseteq Range(out')
        /\ \A b : (b \in 1..N /\ InBlock(b, p)) => b \in Range(out')
    BY <2>1, WriteCovers
  <2>3. \A b \in 1..(p.end - p.len) : b \in Range(out)
    BY <1>2, <1>3, <2>1 DEF Preceded
  <2>4. p.end \in Nat /\ p.len \in Nat /\ p.end \leq N /\ N \in Nat
    BY DatagramFields, TypeFacts
  <2>5. ASSUME NEW b \in 1..p.end
        PROVE  b \in Range(out')
    <3>1. CASE b \in 1..(p.end - p.len)
      BY <2>2, <2>3, <3>1
    <3>2. CASE b \notin 1..(p.end - p.len)
      <4>1. b \in 1..N /\ InBlock(b, p)
        BY <2>1, <2>4, <3>2 DEF InBlock
      <4> QED BY <2>2, <4>1
    <3> QED BY <3>1, <3>2
  <2>6. PICK q \in Datagram : q = Response(p) /\ q.end = p.end
    BY ResponseType DEF Response, MakeHeader
  <2>7. Range(toSend') = Range(toSend) \cup {q}
    BY <2>1, <2>6, AppendRange, TypeFacts
  <2> QED BY <1>2, <2>2, <2>5, <2>6, <2>7 DEF WrittenInv
<1> QED BY <1>1, <1>3, <1>5, <1>6, <1>7

LEMMA WrittenStep ==
  ASSUME "shortwrite" \notin Faults
  PROVE  TypeOK /\ LabelInv /\ Preceded /\ WrittenInv /\ [PlainNext]_vars => WrittenInv'
<1> SUFFICES ASSUME TypeOK, LabelInv, Preceded, WrittenInv, [PlainNext]_vars
             PROVE  WrittenInv'
  OBVIOUS
<1>1. CASE SendNextPacket \/ SendFinalPacket
  BY <1>1 DEF SendNextPacket, SendFinalPacket, receiverVars, WrittenInv
<1>2. CASE PlainRecvAck
  <2>1. PICK i \in Deliverable(toSend), ok \in BOOLEAN :
          /\ toSend' = RemoveAt(toSend, i)
          /\ IF ok /\ Acceptable(toSend[i])
             THEN sequence' = toSend[i].seq
             ELSE UNCHANGED sequence
    BY <1>2 DEF PlainRecvAck
  <2>2. PICK p \in Datagram : p = toSend[i] /\ p \in Range(toSend)
    BY <2>1, TakeFromChannel, TypeFacts
  <2>3. Range(toSend') \subseteq Range(toSend)
    BY <2>1, TakeFromChannel, TypeFacts
  <2>4. sState = "wait" /\ UNCHANGED out
    BY <1>2 DEF PlainRecvAck, receiverVars
  <2>5. ASSUME Acceptable(p)
        PROVE  \A b \in 1..p.seq : b \in Range(out)
    <3>1. p.magic /\ p.seq \leq p.end
      BY <2>2, <2>4, <2>5 DEF LabelInv, Acceptable
    <3>2. p.seq \in Nat /\ p.end \in Nat
      BY DatagramFields
    <3>3. \A b \in 1..p.seq : b \in 1..p.end
      BY <3>1, <3>2
    <3> QED BY <2>2, <3>1, <3>3 DEF WrittenInv
  <2> QED BY <2>1, <2>2, <2>3, <2>4, <2>5 DEF WrittenInv
<1>3. CASE PlainRecvPacket
  BY <1>3, WrittenRecvPacket
<1>4. CASE Drop \/ Duplicate \/ Stray
  <2>1. UNCHANGED <<sequence, out>>
    BY <1>4, NetworkStep DEF senderVars, receiverVars
  <2>2. \A f \in Strangers : ~ f.magic
    BY StrangerType
  <2>3. Range(toSend') \subseteq Range(toSend) \cup Strangers
    BY <1>4, NetworkStep
  <2> QED BY <2>1, <2>2, <2>3 DEF WrittenInv
<1>5. CASE AckTimeout \/ RecvTimeout \/ Tick \/ Terminated \/ UNCHANGED vars
  BY <1>5 DEF AckTimeout, RecvTimeout, Tick, Terminated, WrittenInv,
              vars, senderVars, receiverVars, netVars
<1> QED BY <1>1, <1>2, <1>3, <1>4, <1>5 DEF PlainNext

(* What the sender takes to be acknowledged was written, byte for byte, on *)
(* a network that does not duplicate or one that neither drops nor         *)
(* reorders, while write() takes all it is given and until a header is     *)
(* looked at a second time (3600send.c:158-160).                           *)
THEOREM AckedIsWritten ==
  ASSUME "shortwrite" \notin Faults,
         "duplicate" \notin Faults \/ ("drop" \notin Faults /\ "reorder" \notin Faults)
  PROVE  Spec => []AckedWritten
<1>1. TypeOK /\ WrittenInv => AckedWritten
  BY DEF WrittenInv, AckedWritten, Range
<1>2. CASE "duplicate" \notin Faults
  <2> DEFINE I == Reread \/ (LabelInv /\ PipeInv)
  <2>1. TypeOK /\ I /\ (Reread \/ WrittenInv) /\ [Next]_vars => (Reread \/ WrittenInv)'
    BY PlainStep, PipePreceded, WrittenStep
  <2>2. TypeOK /\ (Reread \/ WrittenInv) => AckedWritten
    BY <1>1 DEF AckedWritten
  <2>3. Spec => [](TypeOK /\ I)
    BY <1>2, PipeInvariant
  <2> HIDE DEF I
  <2> QED BY <2>1, <2>2, <2>3, WrittenInit, PTL DEF Spec
<1>3. CASE "drop" \notin Faults /\ "reorder" \notin Faults
  <2> DEFINE I == Reread \/ (LabelInv /\ OrderInv)
  <2>1. TypeOK /\ I /\ (Reread \/ WrittenInv) /\ [Next]_vars => (Reread \/ WrittenInv)'
    BY <1>3, PlainStep, OrderPreceded, WrittenStep
  <2>2. TypeOK /\ (Reread \/ WrittenInv) => AckedWritten
    BY <1>1 DEF AckedWritten
  <2>3. Spec => [](TypeOK /\ I)
    BY <1>3, OrderInvariant
  <2> HIDE DEF I
  <2> QED BY <2>1, <2>2, <2>3, WrittenInit, PTL DEF Spec
<1> QED BY <1>2, <1>3

-----------------------------------------------------------------------------
(* What stays in a channel.                                                *)

LEMMA RemoveAtKeeps ==
  ASSUME NEW c \in Seq(Datagram), NEW i \in DOMAIN c, NEW p \in Range(c), p # c[i]
  PROVE  p \in Range(RemoveAt(c, i))
<1>1. Len(c) \in Nat /\ DOMAIN c = 1..Len(c) /\ i \in 1..Len(c)
  BY SMTT(30), LenProperties
<1>2. PICK n \in Nat : n = Len(c)
  BY <1>1
<1>3. PICK r : r = RemoveAt(c, i)
  OBVIOUS
<1>4. /\ r \in Seq(Datagram) /\ Len(r) = n - 1
      /\ \A j \in 1..(n - 1) : r[j] = IF j < i THEN c[j] ELSE c[j + 1]
  BY <1>2, <1>3, RemoveAtProperties
<1>5. DOMAIN r = 1..(n - 1)
  BY <1>4, LenProperties
<1>6. PICK j \in 1..n : c[j] = p
  BY <1>1, <1>2 DEF Range
<1>7. j # i
  BY <1>6
<1>8. CASE j < i
  <2>1. j \in 1..(n - 1) /\ r[j] = c[j]
    BY <1>1, <1>2, <1>4, <1>8
  <2> QED BY <1>3, <1>5, <1>6, <2>1 DEF Range
<1>9. CASE j > i
  <2>1. j - 1 \in 1..(n - 1) /\ ~ (j - 1 < i) /\ (j - 1) + 1 = j
    BY <1>1, <1>2, <1>9
  <2>2. r[j - 1] = c[j]
    BY SMTT(30), <1>4, <2>1
  <2> QED BY <1>3, <1>5, <1>6, <2>1, <2>2 DEF Range
<1> QED BY <1>1, <1>2, <1>7, <1>8, <1>9

LEMMA InsertAtKeeps ==
  ASSUME NEW c \in Seq(Datagram), NEW i \in DOMAIN c
  PROVE  Range(c) \subseteq Range(InsertAt(c, i, c[i]))
<1>1. Len(c) \in Nat /\ DOMAIN c = 1..Len(c) /\ i \in 1..Len(c) /\ c[i] \in Datagram
  BY LenProperties, ElementOfSeq
<1>2. PICK n \in Nat : n = Len(c)
  BY <1>1
<1>3. PICK r : r = InsertAt(c, i, c[i])
  OBVIOUS
<1>4. /\ r \in Seq(Datagram) /\ Len(r) = n + 1
      /\ \A j \in 1..(i - 1) : r[j] = c[j]
      /\ \A j \in (i + 1)..(n + 1) : r[j] = c[j - 1]
  <2>1. PICK e \in Datagram : e = c[i]
    BY <1>1
  <2>2. /\ InsertAt(c, i, e) \in Seq(Datagram) /\ Len(InsertAt(c, i, e)) = Len(c) + 1
        /\ \A j \in 1..(i - 1) : InsertAt(c, i, e)[j] = c[j]
    BY InsertAtProperties
  <2>3. \A j \in (i + 1)..(Len(c) + 1) : InsertAt(c, i, e)[j] = c[j - 1]
    BY InsertAtProperties
  <2> QED BY <1>2, <1>3, <2>1, <2>2, <2>3
<1>5. DOMAIN r = 1..(n + 1)
  BY <1>4, LenProperties
<1>6. ASSUME NEW j \in 1..n
      PROVE  c[j] \in Range(r)
  <2>1. CASE j < i
    <3>1. j \in 1..(n + 1) /\ r[j] = c[j]
      BY <1>1, <1>2, <1>4, <2>1
    <3> QED BY <1>5, <3>1 DEF Range
  <2>2. CASE j \geq i
    <3>1. j + 1 \in (i + 1)..(n + 1) /\ j + 1 \in 1..(n + 1) /\ (j + 1) - 1 = j
      BY <1>1, <1>2, <2>2
    <3>2. r[j + 1] = c[j]
      BY <1>4, <3>1
    <3> QED BY <1>5, <3>1, <3>2 DEF Range
  <2> QED BY <1>1, <1>2, <2>1, <2>2
<1> QED BY <1>1, <1>2, <1>3, <1>6 DEF Range

(* Where nothing is dropped, a datagram leaves its channel only when it is *)
(* received.                                                               *)
LEMMA NetworkKeeps ==
  ASSUME TypeOK, Duplicate \/ Stray
  PROVE  /\ Range(toRecv) \subseteq Range(toRecv')
         /\ Range(toSend) \subseteq Range(toSend')
         /\ Len(toRecv') - Len(toRecv) \leq faults' - faults
<1>1. toRecv \in Seq(Datagram) /\ toSend \in Seq(Datagram) /\ Len(toRecv) \in Nat /\ faults \in Nat
  BY TransportAssumption DEF TypeOK
<1>2. ASSUME NEW c \in Seq(Datagram), NEW i \in DOMAIN c
      PROVE  /\ Range(c) \subseteq Range(InsertAt(c, i, c[i]))
             /\ Len(InsertAt(c, i, c[i])) = Len(c) + 1
  <2>1. c[i] \in Datagram
    BY ElementOfSeq, LenProperties
  <2> QED BY <2>1, InsertAtKeeps, InsertAtProperties
<1>3. ASSUME NEW c \in Seq(Datagram)
      PROVE  \A f \in Strangers : /\ Range(c) \subseteq Range(Append(c, f))
                                  /\ Len(Append(c, f)) = Len(c) + 1
  <2>1. Strangers \subseteq Datagram
    BY StrangerType
  <2> QED BY <2>1, AppendRange, AppendProperties
<1>4. CASE Duplicate
  BY <1>1, <1>2, <1>4 DEF Duplicate
<1>5. CASE Stray
  <2>1. PICK f \in Strangers : \/ toRecv' = Append(toRecv, f) /\ UNCHANGED toSend
                               \/ toSend' = Append(toSend, f) /\ UNCHANGED toRecv
    BY <1>5, StrayStep
  <2>2. faults' = faults + 1
    BY <1>5 DEF Stray
  <2>3. CASE toRecv' = Append(toRecv, f) /\ UNCHANGED toSend
    BY <1>1, <1>3, <2>2, <2>3
  <2>4. CASE toSend' = Append(toSend, f) /\ UNCHANGED toRecv
    BY <1>1, <1>3, <2>2, <2>4
  <2> QED BY <2>1, <2>3, <2>4
<1> QED BY <1>4, <1>5

-----------------------------------------------------------------------------
(* On a network that only duplicates, reorders and brings in datagrams to  *)
(* be ignored, and until the sequence wraps, the transfer never stands     *)
(* still: an acknowledgment awaited is on its way, or its block is.        *)
BenignFaults == Faults \subseteq {"duplicate", "reorder", "stray"}

LEMMA TravellingInit == Init => Travelling
<1>1. Range(<< >>) = {}
  BY DEF Range
<1> QED BY <1>1 DEF Init, Travelling

LEMMA TravellingSend ==
  ASSUME BenignFaults, TypeOK, Travelling, SendNextPacket \/ SendFinalPacket
  PROVE  Travelling'
<1>1. sState = "send" /\ UNCHANGED <<rState, toSend>>
  BY DEF SendNextPacket, SendFinalPacket, receiverVars
<1>2. CASE SendNextPacket
  <2>1. PICK n \in 1..BlockMax :
          /\ taken + n \leq N /\ taken' = taken + n /\ sState' = "wait"
          /\ toRecv' = Append(toRecv, MakeHeader(sequence, n, FALSE, FALSE, taken + n))
    BY <1>2 DEF SendNextPacket, SysCall, CanFault, BenignFaults
  <2> DEFINE new == MakeHeader(sequence, n, FALSE, FALSE, taken + n)
  <2>2. n \in 0..BlockMax /\ n \leq taken + n /\ taken + n \in 0..N /\ sequence \in Nat
    BY <2>1, TypeFacts
  <2>3. new \in Datagram
    BY <2>2, MakeHeaderType
  <2>4. new.magic /\ ~ new.eof /\ new.end = taken' /\ new.len \geq 1
    BY <2>1 DEF MakeHeader
  <2>5. toRecv' = Append(toRecv, new)
    BY <2>1
  <2> HIDE DEF new
  <2>6. Range(toRecv') = Range(toRecv) \cup {new}
    BY <2>3, <2>5, AppendRange, TypeFacts
  <2> QED BY <1>1, <2>1, <2>4, <2>6 DEF Travelling
<1>3. CASE SendFinalPacket
  <2>1. /\ sState' = "done"
        /\ toRecv' = Append(toRecv, MakeHeader(sequence + 1, 0, TRUE, FALSE, N))
    BY <1>3 DEF SendFinalPacket, SysCall, CanFault, BenignFaults
  <2> DEFINE new == MakeHeader(sequence + 1, 0, TRUE, FALSE, N)
  <2>2. sequence + 1 \in Nat /\ 0 \in 0..BlockMax /\ 0 \leq N /\ N \in 0..N
    BY TypeFacts
  <2>3. new \in Datagram
    BY <2>2, MakeHeaderType
  <2>4. new.magic /\ new.eof
    BY DEF MakeHeader
  <2>5. toRecv' = Append(toRecv, new)
    BY <2>1
  <2> HIDE DEF new
  <2>6. Range(toRecv') = Range(toRecv) \cup {new}
    BY <2>3, <2>5, AppendRange, TypeFacts
  <2> QED BY <1>1, <2>1, <2>4, <2>6 DEF Travelling
<1> QED BY <1>2, <1>3

LEMMA TravellingRecvAck ==
  ASSUME BenignFaults, N < SeqSpace, TypeOK, LabelInv, Travelling, PlainRecvAck
  PROVE  Travelling'
<1>1. PICK i \in Deliverable(toSend) :
        /\ toSend' = RemoveAt(toSend, i)
        /\ sState' = IF Acceptable(toSend[i]) THEN "send" ELSE "wait"
  BY DEF PlainRecvAck, SysCall, CanFault, BenignFaults
<1>2. sState = "wait" /\ UNCHANGED <<taken, rState, toRecv>>
  BY DEF PlainRecvAck, receiverVars
<1>3. i \in DOMAIN toSend /\ toSend[i] \in Range(toSend) /\ toSend \in Seq(Datagram)
  BY <1>1, TakeFromChannel, TypeFacts
<1>4. CASE Acceptable(toSend[i])
  BY <1>1, <1>2, <1>4 DEF Travelling
<1>5. CASE ~ Acceptable(toSend[i])
  <2>1. ASSUME NEW p \in Range(toSend), p.ack, p.end = taken
        PROVE  p \in Range(toSend')
    <3>1. Acceptable(p)
      BY <1>2, <2>1, TypeFacts DEF LabelInv, Acceptable
    <3> QED BY <1>1, <1>3, <1>5, <3>1, RemoveAtKeeps
  <2> QED BY <1>1, <1>2, <1>5, <2>1 DEF Travelling
<1> QED BY <1>4, <1>5

LEMMA TravellingRecvPacket ==
  ASSUME BenignFaults, TypeOK, LabelInv, Travelling, PlainRecvPacket
  PROVE  Travelling'
<1>1. PICK i \in Deliverable(toRecv) :
        /\ PlainAccept(toRecv[i]) \/ PlainIgnore(toRecv[i])
        /\ toRecv' = RemoveAt(toRecv, i)
  BY DEF PlainRecvPacket, PlainFails, CanFault, BenignFaults
<1>2. rState = "run" /\ UNCHANGED <<sState, taken>>
  BY DEF PlainRecvPacket, senderVars
<1>3. PICK p : p = toRecv[i]
  OBVIOUS
<1>4. /\ i \in DOMAIN toRecv /\ p \in Range(toRecv) /\ p \in Datagram
      /\ toRecv \in Seq(Datagram) /\ Range(toRecv') \subseteq Range(toRecv)
  BY <1>1, <1>3, TakeFromChannel, TypeFacts
<1>5. ASSUME NEW q \in Range(toRecv), q # p
      PROVE  q \in Range(toRecv')
  BY <1>1, <1>3, <1>4, <1>5, RemoveAtKeeps
<1>6. CASE PlainIgnore(p)
  BY <1>2, <1>4, <1>5, <1>6 DEF PlainIgnore, Travelling
<1>7. CASE PlainAccept(p)
  <2> DEFINE r == Response(p)
  <2>1. r \in Datagram /\ r.ack = TRUE /\ r.end = p.end
    BY <1>4, ResponseType DEF Response, MakeHeader
  <2> HIDE DEF r
  <2>2. Range(toSend') = Range(toSend) \cup {r}
    BY <1>7, <2>1, AppendRange, TypeFacts DEF PlainAccept, r
  <2>3. p.magic /\ rState' = (IF p.eof THEN "eof" ELSE "run")
    BY <1>7 DEF PlainAccept
  <2> QED BY <1>2, <1>4, <1>5, <2>1, <2>2, <2>3 DEF Travelling
<1> QED BY <1>1, <1>3, <1>6, <1>7

LEMMA TravellingStep ==
  ASSUME BenignFaults, N < SeqSpace
  PROVE  TypeOK /\ LabelInv /\ Travelling /\ [PlainNext]_vars => Travelling'
<1> SUFFICES ASSUME TypeOK, LabelInv, Travelling, [PlainNext]_vars
             PROVE  Travelling'
  OBVIOUS
<1>1. CASE SendNextPacket \/ SendFinalPacket
  BY <1>1, TravellingSend
<1>2. CASE PlainRecvAck
  BY <1>2, TravellingRecvAck
<1>3. CASE PlainRecvPacket
  BY <1>3, TravellingRecvPacket
<1>4. CASE Drop
  BY <1>4 DEF Drop, CanFault, BenignFaults
<1>5. CASE Duplicate \/ Stray
  <2>1. UNCHANGED <<sState, taken, rState>>
    BY <1>5, NetworkStep DEF senderVars, receiverVars
  <2>2. Range(toRecv') \subseteq Range(toRecv) \cup Strangers /\ \A f \in Strangers : ~ f.magic
    BY <1>5, NetworkStep, StrangerType
  <2>3. Range(toRecv) \subseteq Range(toRecv') /\ Range(toSend) \subseteq Range(toSend')
    BY <1>5, NetworkKeeps
  <2> QED BY <2>1, <2>2, <2>3 DEF Travelling
<1>6. CASE RecvTimeout
  BY <1>6 DEF RecvTimeout, Travelling, senderVars, netVars
<1>7. CASE AckTimeout \/ Tick \/ Terminated \/ UNCHANGED vars
  <2>1. UNCHANGED <<taken, toRecv, toSend, sState, rState>>
    BY <1>7 DEF AckTimeout, Tick, Terminated, vars, senderVars, receiverVars, netVars
  <2> QED BY <2>1 DEF Travelling
<1> QED BY <1>1, <1>2, <1>3, <1>4, <1>5, <1>6, <1>7 DEF PlainNext

-----------------------------------------------------------------------------
(* The receiver spends a latency on each block's way to it and one on the  *)
(* acknowledgment's way back.  Each is paid for by a block read or by a    *)
(* fault; a datagram on its way to the receiver has not been spent yet.    *)

(* Credit, in datagrams, that the transfer has earned so far.              *)
Earned == 2 * blocks + faults - Len(toRecv)

(* A sender that waits has its block in flight, or the answer to it, and   *)
(* one that is done has its last datagram in flight, for age ticks so far. *)
Slack == IF sState = "send" THEN 0 ELSE IF sState = "wait" THEN age - Latency ELSE age + Latency

BudgetInv == rState = "run" => Spent \leq Earned * Latency + Slack

LEMMA LatencyMonotone ==
  ASSUME NEW a \in Int, NEW b \in Int
  PROVE  /\ a \leq b => a * Latency \leq b * Latency
         /\ a + 1 \leq b => a * Latency + Latency \leq b * Latency
         /\ a * Latency \in Int
<1>1. Latency \in Nat
  BY TransportAssumption
<1> QED BY <1>1

LEMMA AppendLength ==
  ASSUME NEW c \in Seq(Datagram), NEW e
  PROVE  Len(Append(c, e)) = Len(c) + 1
OBVIOUS

LEMMA BudgetFacts ==
  ASSUME TypeOK
  PROVE  /\ Earned \in Int /\ Spent \in Nat /\ Slack \in Int /\ age \in Nat /\ age \leq Latency
         /\ Len(toRecv) \in Nat /\ blocks \in Nat /\ faults \in Nat
         /\ Latency \in Nat /\ rTimer \in Nat
<1>1. Len(toRecv) \in Nat
  BY LenProperties DEF TypeOK
<1>2. blocks \in Nat /\ faults \in Nat /\ age \in Nat /\ age \leq Latency /\ Latency \in Nat
  BY TransportAssumption DEF TypeOK
<1>3. Spent \in Nat /\ rTimer \in Nat
  BY TransportAssumption DEF TypeOK, Spent
<1> QED BY <1>1, <1>2, <1>3 DEF Earned, Slack

LEMMA BudgetInit == Init => BudgetInv
<1>1. Len(<< >>) = 0
  OBVIOUS
<1> QED BY <1>1, TransportAssumption DEF Init, BudgetInv, Spent, Earned, Slack

(* A step that costs no time and earns what it takes from the slack, or    *)
(* takes what it gives to it, keeps within the budget.                     *)
LEMMA BudgetKept ==
  ASSUME TypeOK, TypeOK', BudgetInv, Spent' = Spent, rState = "run",
         \/ Earned \leq Earned' /\ Slack \leq Slack'
         \/ Earned + 1 \leq Earned' /\ Slack \leq Slack' + Latency
         \/ Earned \leq Earned' + 1 /\ Slack + Latency \leq Slack'
  PROVE  BudgetInv'
<1>1. /\ Earned \in Int /\ Earned' \in Int /\ Slack \in Int /\ Slack' \in Int /\ Latency \in Nat
      /\ Spent \in Nat
  <2>1. Len(toRecv') \in Nat /\ blocks' \in Nat /\ faults' \in Nat /\ age' \in Nat
    BY TransportAssumption, LenProperties DEF TypeOK
  <2>2. Earned' \in Int
    BY <2>1 DEF Earned
  <2>3. Slack' \in Int
    BY <2>1, TransportAssumption DEF Slack
  <2> QED BY <2>2, <2>3, BudgetFacts
<1>2. PICK e \in Int, f \in Int : e = Earned /\ f = Earned'
  BY <1>1
<1>3. PICK x \in Int, y \in Int : x = e * Latency /\ y = f * Latency
  BY <1>2, LatencyMonotone
<1>4. /\ e \leq f => x \leq y
      /\ e + 1 \leq f => x + Latency \leq y
      /\ e \leq f + 1 => x \leq y + Latency
  <2>1. (e \leq f => x \leq y) /\ (e + 1 \leq f => x + Latency \leq y)
    BY <1>2, <1>3, LatencyMonotone
  <2>2. e \leq f + 1 => x \leq y + Latency
    <3>1. f + 1 \in Int
      BY <1>2
    <3>2. e \leq f + 1 => e * Latency \leq (f + 1) * Latency
      BY <1>2, <3>1, LatencyMonotone
    <3>3. (f + 1) * Latency = f * Latency + Latency
      BY <1>1, <1>2
    <3> QED BY <1>3, <3>2, <3>3
  <2> QED BY <2>1, <2>2
<1>5. PICK s \in Int, t \in Int : s = Slack /\ t = Slack'
  BY <1>1
<1>6. Spent \leq x + s
  BY <1>2, <1>3, <1>5 DEF BudgetInv
<1>7. \/ e \leq f /\ s \leq t
      \/ e + 1 \leq f /\ s \leq t + Latency
      \/ e \leq f + 1 /\ s + Latency \leq t
  BY <1>2, <1>5
<1>8. Spent \leq y + t
  <2>1. PICK l \in Nat, p \in Nat : l = Latency /\ p = Spent
    BY <1>1
  <2>2. p \leq x + s
    BY <1>6, <2>1
  <2>3. CASE e \leq f /\ s \leq t
    <3>1. x \leq y
      BY <1>4, <2>3
    <3> QED BY <2>1, <2>2, <2>3, <3>1
  <2>4. CASE e + 1 \leq f /\ s \leq t + Latency
    <3>1. x + l \leq y /\ s \leq t + l
      BY <1>4, <2>1, <2>4
    <3> QED BY <2>1, <2>2, <3>1
  <2>5. CASE e \leq f + 1 /\ s + Latency \leq t
    <3>1. x \leq y + l /\ s + l \leq t
      BY <1>4, <2>1, <2>5
    <3> QED BY <2>1, <2>2, <3>1
  <2> QED BY <1>7, <2>3, <2>4, <2>5
<1>9. Spent' \leq Earned' * Latency + Slack'
  BY <1>2, <1>3, <1>5, <1>8
<1> QED BY <1>9 DEF BudgetInv

LEMMA BudgetRecvPacket ==
  ASSUME BenignFaults, TypeOK, TypeOK', BudgetInv, PlainRecvPacket
  PROVE  BudgetInv'
<1>1. PICK i \in Deliverable(toRecv) :
        /\ PlainAccept(toRecv[i]) \/ PlainIgnore(toRecv[i])
        /\ toRecv' = RemoveAt(toRecv, i)
  BY DEF PlainRecvPacket, PlainFails, CanFault, BenignFaults
<1>2. rState = "run" /\ UNCHANGED <<sState, blocks, rTimer>>
  BY DEF PlainRecvPacket, senderVars
<1>3. Len(toRecv') = Len(toRecv) - 1
  BY <1>1, TakeFromChannel, RemoveAtProperties, TypeFacts
<1>4. faults' = faults /\ (age' = age \/ age' = 0)
  BY <1>1 DEF PlainAccept, PlainIgnore, PlainWrite, CanFault, BenignFaults
<1>5. Spent' = Spent
  BY <1>2 DEF Spent
<1>6. Earned' = Earned + 1
  BY SMTT(30), <1>2, <1>3, <1>4, BudgetFacts DEF Earned
<1>7. Slack \leq Slack' + Latency
  BY <1>2, <1>4, BudgetFacts DEF Slack
<1>8. Earned + 1 \leq Earned'
  BY <1>6, BudgetFacts
<1> QED BY <1>2, <1>5, <1>7, <1>8, BudgetKept

LEMMA BudgetTick ==
  ASSUME BenignFaults, TypeOK, TypeOK', Travelling, BudgetInv, Tick, rState = "run"
  PROVE  BudgetInv'
<1>1. sState \in {"wait", "done"}
  BY DEF Tick, BenignFaults, Travelling, TypeOK
<1>2. InFlight
  BY <1>1 DEF Travelling, InFlight, Range
<1>3. age < Latency /\ age' = age + 1
  BY <1>2 DEF Tick, BenignFaults
<1>4. UNCHANGED <<sState, blocks, toRecv, faults>> /\ (rTimer' = rTimer \/ rTimer' = rTimer - 1)
  BY DEF Tick
<1>5. Earned' = Earned
  BY <1>4 DEF Earned
<1>6. Slack' = Slack + 1
  BY SMTT(30), <1>1, <1>3, <1>4, BudgetFacts DEF Slack
<1>7. Spent' \leq Spent + 1 /\ Spent' \in Nat
  <2>1. ASSUME NEW p \in Nat, NEW t \in 0..p, NEW u \in 0..p, u = t \/ u = t - 1
        PROVE  p - u \leq (p - t) + 1 /\ p - u \in Nat
    BY <2>1
  <2>2. Patience \in Nat /\ rTimer \in 0..Patience /\ rTimer' \in 0..Patience
    BY TransportAssumption DEF TypeOK
  <2>3. Patience - rTimer' \leq (Patience - rTimer) + 1 /\ Patience - rTimer' \in Nat
    BY <1>4, <2>1, <2>2
  <2> QED BY <2>3 DEF Spent
<1>8. PICK x \in Int : x = Earned * Latency
  BY BudgetFacts, LatencyMonotone
<1>9. Spent' \leq x + Slack'
  <2>1. Spent \leq x + Slack
    BY <1>8 DEF BudgetInv
  <2>2. PICK s \in Int, t \in Nat : s = Slack /\ t = Spent
    BY BudgetFacts
  <2>3. t \leq x + s /\ Slack' = s + 1 /\ Spent' \leq t + 1
    BY <1>6, <1>7, <2>1, <2>2
  <2> QED BY <1>7, <2>2, <2>3
<1> QED BY <1>5, <1>8, <1>9 DEF BudgetInv

LEMMA BudgetStep ==
  ASSUME BenignFaults
  PROVE  TypeOK /\ TypeOK' /\ Travelling /\ BudgetInv /\ [PlainNext]_vars => BudgetInv'
<1> SUFFICES ASSUME TypeOK, TypeOK', Travelling, BudgetInv, [PlainNext]_vars, rState = "run", rState' = "run"
             PROVE  BudgetInv'
  <2>1. ASSUME [PlainNext]_vars, rState' = "run"
        PROVE  rState = "run"
    <3>1. CASE PlainRecvPacket
      BY <3>1 DEF PlainRecvPacket
    <3>2. CASE SendNextPacket \/ SendFinalPacket \/ PlainRecvAck
      BY <2>1, <3>2 DEF SendNextPacket, SendFinalPacket, PlainRecvAck, receiverVars
    <3>3. CASE Drop \/ Duplicate \/ Stray \/ Tick
      BY <2>1, <3>3 DEF Drop, Duplicate, Stray, Tick, receiverVars
    <3>4. CASE AckTimeout \/ RecvTimeout \/ Terminated \/ UNCHANGED vars
      BY <2>1, <3>4 DEF AckTimeout, RecvTimeout, Terminated, vars, receiverVars
    <3> QED BY <2>1, <3>1, <3>2, <3>3, <3>4 DEF PlainNext
  <2> QED BY <2>1 DEF BudgetInv
<1>1. CASE SendNextPacket
  <2>1. /\ sState = "send" /\ sState' = "wait" /\ age' = 0 /\ UNCHANGED rTimer
        /\ faults' = faults /\ blocks' = blocks + 1
    BY <1>1 DEF SendNextPacket, receiverVars, SysCall, CanFault, BenignFaults
  <2>2. Len(toRecv') = Len(toRecv) + 1
    <3>1. PICK n \in 1..BlockMax :
            /\ taken + n \leq N
            /\ toRecv' = Append(toRecv, MakeHeader(sequence, n, FALSE, FALSE, taken + n))
      BY <1>1 DEF SendNextPacket, SysCall, CanFault, BenignFaults
    <3>2. toRecv \in Seq(Datagram)
      BY TypeFacts
    <3> QED BY <3>1, <3>2, AppendLength
  <2>3. Spent' = Spent
    BY <2>1 DEF Spent
  <2>4. Earned + 1 \leq Earned'
    <3>1. blocks \in Nat /\ faults \in Nat /\ Len(toRecv) \in Nat
      BY BudgetFacts
    <3> QED BY <2>1, <2>2, <3>1 DEF Earned
  <2>5. Slack \leq Slack' + Latency
    BY <2>1, BudgetFacts DEF Slack
  <2> QED BY <2>3, <2>4, <2>5, BudgetKept
<1>2. CASE SendFinalPacket
  <2>1. /\ sState = "send" /\ sState' = "done" /\ age' = 0 /\ UNCHANGED <<rTimer, blocks>>
        /\ faults' = faults
        /\ toRecv' = Append(toRecv, MakeHeader(sequence + 1, 0, TRUE, FALSE, N))
    BY <1>2 DEF SendFinalPacket, receiverVars, SysCall, CanFault, BenignFaults
  <2>2. Len(toRecv') = Len(toRecv) + 1
    <3>1. toRecv \in Seq(Datagram)
      BY TypeFacts
    <3> QED BY <2>1, <3>1, AppendLength
  <2>3. Spent' = Spent
    BY <2>1 DEF Spent
  <2>4. Earned \leq Earned' + 1
    BY SMTT(30), <2>1, <2>2, BudgetFacts DEF Earned
  <2>5. Slack + Latency \leq Slack'
    BY <2>1, BudgetFacts DEF Slack
  <2> QED BY <2>3, <2>4, <2>5, BudgetKept
<1>3. CASE PlainRecvAck
  <2>1. /\ sState = "wait" /\ sState' \in {"send", "wait"}
        /\ UNCHANGED <<rTimer, blocks, toRecv, age, faults>>
    BY <1>3 DEF PlainRecvAck, receiverVars, SysCall, CanFault, BenignFaults
  <2>2. Spent' = Spent /\ Earned' = Earned
    BY <2>1 DEF Spent, Earned
  <2>3. Slack \leq Slack'
    BY <2>1, BudgetFacts DEF Slack
  <2>4. Earned \leq Earned'
    BY <2>2, BudgetFacts
  <2> QED BY <2>2, <2>3, <2>4, BudgetKept
<1>4. CASE PlainRecvPacket
  BY <1>4, BudgetRecvPacket
<1>5. CASE Drop
  BY <1>5 DEF Drop, CanFault, BenignFaults
<1>6. CASE Duplicate \/ Stray
  <2>1. UNCHANGED <<sState, rTimer, blocks>>
    BY <1>6, NetworkStep DEF senderVars, receiverVars
  <2>2. age' = age
    BY <1>6 DEF Duplicate, Stray
  <2>3. Len(toRecv') - Len(toRecv) \leq faults' - faults
    BY <1>6, NetworkKeeps
  <2>4. Len(toRecv') \in Nat /\ faults' \in Nat
    BY TransportAssumption, LenProperties DEF TypeOK
  <2>5. Spent' = Spent /\ Slack' = Slack
    BY <2>1, <2>2 DEF Spent, Slack
  <2>6. Earned \leq Earned'
    BY SMTT(30), <2>1, <2>3, <2>4, BudgetFacts DEF Earned
  <2>7. Slack \leq Slack'
    BY <2>5, BudgetFacts
  <2> QED BY <2>5, <2>6, <2>7, BudgetKept
<1>7. CASE Tick
  BY <1>7, BudgetTick
<1>8. CASE RecvTimeout
  BY <1>8 DEF RecvTimeout
<1>9. CASE AckTimeout \/ Terminated \/ UNCHANGED vars
  <2>1. UNCHANGED <<rTimer, blocks, faults, toRecv, sState, rState, age>>
    BY <1>9 DEF AckTimeout, Terminated, vars, senderVars, receiverVars, netVars
  <2> QED BY <2>1 DEF BudgetInv, Spent, Earned, Slack
<1> QED BY <1>1, <1>2, <1>3, <1>4, <1>5, <1>6, <1>7, <1>8, <1>9 DEF PlainNext

(* On a network that at most duplicates, reorders and brings in datagrams  *)
(* to be ignored, a transfer below the sequence space costs the receiver   *)
(* two latencies of its patience for each block, one for the end and one   *)
(* for each fault, and no more: the 30 seconds bound the transfer, not the *)
(* silence (3600recv.c:69-82).                                             *)
THEOREM WaitIsBounded ==
  ASSUME BenignFaults, N < SeqSpace
  PROVE  Spec => []WaitBudget
<1>1. TypeOK /\ Travelling /\ BudgetInv => WaitBudget
  <2> SUFFICES ASSUME TypeOK, Travelling, BudgetInv, rState = "run"
               PROVE  Patience - rTimer \leq (2 * blocks + 1 + faults) * Latency
    BY DEF WaitBudget
  <2>1. PICK e \in Int, b \in Int : e = Earned /\ b = 2 * blocks + 1 + faults
    BY BudgetFacts
  <2>2. e + 1 \leq b /\ (sState = "done" => e + 2 \leq b)
    <3>1. sState = "done" => Len(toRecv) \geq 1
      <4>1. sState = "done" => Len(toRecv) # 0
        BY TypeFacts, LenProperties DEF Travelling, Range
      <4> QED BY <4>1, BudgetFacts
    <3> QED BY SMTT(30), <2>1, <3>1, BudgetFacts DEF Earned
  <2>3. PICK x \in Int, y \in Int : x = e * Latency /\ y = b * Latency
    BY <2>1, LatencyMonotone
  <2>4. x + Latency \leq y /\ (sState = "done" => x + Latency + Latency \leq y)
    <3>1. x + Latency \leq y
      BY <2>1, <2>2, <2>3, LatencyMonotone
    <3>2. ASSUME sState = "done"
          PROVE  x + Latency + Latency \leq y
      <4>1. e + 1 \in Int /\ (e + 1) + 1 \leq b
        BY <2>1, <2>2, <3>2
      <4>2. (e + 1) * Latency + Latency \leq b * Latency
        BY <2>1, <4>1, LatencyMonotone
      <4>3. (e + 1) * Latency = e * Latency + Latency
        BY <2>1, BudgetFacts
      <4> QED BY <2>3, <4>2, <4>3
    <3> QED BY <3>1, <3>2
  <2>5. Spent \leq x + Slack
    BY <2>1, <2>3 DEF BudgetInv
  <2>6. Slack \leq Latency + Latency /\ (sState # "done" => Slack \leq Latency)
    BY BudgetFacts DEF Slack, Travelling, TypeOK
  <2>7. Spent \leq y
    <3>1. PICK l \in Nat, p \in Nat, s \in Int : l = Latency /\ p = Spent /\ s = Slack
      BY BudgetFacts
    <3>2. p \leq x + s
      BY <2>5, <3>1
    <3>3. CASE sState = "done"
      <4>1. s \leq l + l /\ x + l + l \leq y
        BY <2>4, <2>6, <3>1, <3>3
      <4> QED BY <2>3, <3>1, <3>2, <4>1
    <3>4. CASE sState # "done"
      <4>1. s \leq l /\ x + l \leq y
        BY <2>4, <2>6, <3>1, <3>4
      <4> QED BY <2>3, <3>1, <3>2, <4>1
    <3> QED BY <3>3, <3>4
  <2> QED BY <2>1, <2>3, <2>7 DEF Spent
<1> DEFINE I == TypeOK /\ LabelInv /\ Travelling /\ BudgetInv
<1>2. Init => I
  BY TypeInit, LabelInit, TravellingInit, BudgetInit
<1>3. I /\ (~ Reread)' /\ [Next]_vars => I'
  BY PlainStep, TypeStep, LabelStep, TravellingStep, BudgetStep
<1>4. I => WaitBudget
  BY <1>1
<1>5. Spec => []~ Reread
  BY NeverReread DEF BenignFaults
<1> HIDE DEF I
<1> QED BY <1>2, <1>3, <1>4, <1>5, PTL DEF Spec
=============================================================================
