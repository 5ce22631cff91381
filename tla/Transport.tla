----------------------------- MODULE Transport -----------------------------
(***************************************************************************)
(* project4: 3600send reads its standard input in blocks and sends each in *)
(* a UDP datagram, waiting for an acknowledgment before the next; 3600recv *)
(* writes every datagram's payload and acknowledges it.                    *)
(*                                                                         *)
(* Byte i of the input is the number i.  The network is the one the test   *)
(* script drives (netsim --drop --duplicate --reorder --delay): Faults     *)
(* says which of its faults, and which failures of system calls, may       *)
(* happen, MaxFaults how many of the counted ones.                         *)
(*                                                                         *)
(* Neither program looks at how much recvfrom() received, and its buffer   *)
(* outlives the datagram: one that is shorter than a header shows the      *)
(* header before it once more, with the byte orders of its sequence and    *)
(* its length changed a second time.                                       *)
(***************************************************************************)
EXTENDS Naturals, FiniteSets, Sequences, SequencesExt

CONSTANTS
  N,          \* number of bytes on the sender's standard input
  BlockMax,   \* DATA_SIZE: the most bytes one read() takes
  SeqSpace,   \* 2^32: the header's sequence is an unsigned int
  LenSpace,   \* 2^16: the header's length is an unsigned short
  SwapSequence, \* ntohl() and htonl() on a little-endian machine
  SwapLength, \* ntohs() and htons() on a little-endian machine
  Patience,   \* the 30 seconds both programs put in t, in ticks
  Latency,    \* ticks a datagram may travel when "delay" is not in Faults
  Faults,     \* the faults that may happen
  MaxFaults   \* bound on the number of counted faults

FaultKinds ==
  {"drop",       \* a datagram in flight is lost
   "duplicate",  \* a datagram in flight is delivered twice
   "reorder",    \* any datagram in flight may be delivered next
   "delay",      \* a datagram may travel for any time
   "stall",      \* the sender's read() may block for any time
   "stray",      \* a datagram of another program reaches a socket: it
                 \* has no header of this protocol
   "empty",      \* an empty datagram of another program reaches a socket
   "syscall",    \* sendto() or recvfrom() fails, or read() does
   "shortwrite"} \* write() takes only some of the bytes, or none

Sequences32 == 0..(SeqSpace - 1)

Lengths == 0..(LenSpace - 1)

ASSUME TransportAssumption ==
  /\ N \in Nat
  /\ BlockMax \in Nat \ {0}
  /\ SeqSpace \in Nat \ {0}
  /\ LenSpace \in Nat /\ BlockMax < LenSpace
  /\ SwapSequence \in [Sequences32 -> Sequences32]
  /\ SwapLength \in [Lengths -> Lengths]
  /\ Patience \in Nat
  /\ Latency \in Nat
  /\ Faults \subseteq FaultKinds
  /\ MaxFaults \in Nat

VARIABLES
  sState,     \* sender: "send" (at the outer while), "wait" (in select),
              \* "done" (exit 0), "failed" (exit 1 or killed)
  sequence,   \* sender: the global sequence
  taken,      \* bytes read from standard input
  sTimer,     \* sender: what is left in t
  sBuf,       \* sender: the header its buffer shows
  blocks,     \* history: blocks read from standard input
  rState,     \* receiver: "run", "eof" (exit 0), "timeout", "failed" (exit 1)
  rTimer,     \* receiver: what is left in t
  rBuf,       \* receiver: the header and the data its buffer shows
  out,        \* bytes written to the receiver's standard output
  toRecv,     \* datagrams on their way to the receiver
  toSend,     \* datagrams on their way to the sender
  age,        \* ticks since a program last sent: with one datagram in
              \* flight, the time it has travelled
  faults      \* counted faults so far

senderVars   == <<sState, sequence, taken, sTimer, sBuf, blocks>>
receiverVars == <<rState, rTimer, rBuf, out>>
netVars      == <<toRecv, toSend, age, faults>>
vars         == <<senderVars, receiverVars, netVars>>

-----------------------------------------------------------------------------
(* Datagrams.  end is history: how much of the input had been read when    *)
(* the datagram, or the one it answers, was sent.  A data datagram carries *)
(* the bytes end - len + 1 .. end; one that is short carries no header.    *)

Datagram ==
  {p \in [magic : BOOLEAN, ack : BOOLEAN, eof : BOOLEAN, seq : Sequences32,
          len : 0..BlockMax, end : 0..N, short : BOOLEAN] :
     p.len \leq p.end /\ (p.short => ~ p.magic)}

(* Mutant: the sequence is kept in a wider integer.                        *)
MakeHeaderWide(seq, len, eof, ack, end) ==
  [magic |-> TRUE, ack |-> ack, eof |-> eof, seq |-> seq, len |-> len, end |-> end,
   short |-> FALSE]

(* make_header(): htonl keeps the low 32 bits, htons(length) is exact since *)
(* a block is far below 2^16.                                              *)
MakeHeader(seq, len, eof, ack, end) ==
  [magic |-> TRUE, ack |-> ack, eof |-> eof,
   seq |-> seq % SeqSpace, len |-> len, end |-> end, short |-> FALSE]

(* A datagram some other program sends to the port, with two bytes or more *)
(* and not the magic in them, or with none at all.                         *)
Foreign(short) ==
  [magic |-> FALSE, ack |-> FALSE, eof |-> FALSE, seq |-> 0, len |-> 0, end |-> 0,
   short |-> short]

(* A receive buffer.  data[i] is the byte i places behind the header: a    *)
(* byte of the input, or 0 for one that was never received.  reread is     *)
(* history: a header of this protocol was looked at a second time.         *)
Buffer ==
  [magic : BOOLEAN, ack : BOOLEAN, eof : BOOLEAN, seq : Sequences32, len : Lengths,
   data : [1..(LenSpace - 1) -> 0..N], reread : BOOLEAN]

(* Memory that has not been received into does not show the magic.         *)
NoHeader ==
  [magic |-> FALSE, ack |-> FALSE, eof |-> FALSE, seq |-> 0, len |-> 0,
   data |-> [i \in 1..(LenSpace - 1) |-> 0], reread |-> FALSE]

(* recvfrom() into buf, then get_header(), which changes the byte order of *)
(* the sequence and the length in place.                                   *)
Received(buf, p) ==
  IF p.short
  THEN [buf EXCEPT !.seq = SwapSequence[@], !.len = SwapLength[@], !.reread = @ \/ buf.magic]
  ELSE [magic |-> p.magic, ack |-> p.ack, eof |-> p.eof, seq |-> p.seq, len |-> p.len,
        data |-> [i \in 1..(LenSpace - 1) |->
                    IF i \leq p.len THEN p.end - p.len + i ELSE buf.data[i]],
        reread |-> buf.reread]

(* get_data(): as much data as the header in the buffer says.              *)
Payload(h) == [i \in 1..h.len |-> h.data[i]]

(* What recvfrom() may return next: the oldest datagram, or any of them.   *)
Deliverable(channel) ==
  {i \in DOMAIN channel : i = 1 \/ "reorder" \in Faults}

CanFault(kind) == kind \in Faults /\ faults < MaxFaults

(* The outcomes of a system call that reports an error, counting failures. *)
SysCall(ok) ==
  \/ ok = TRUE /\ UNCHANGED faults
  \/ ok = FALSE /\ CanFault("syscall") /\ faults' = faults + 1

-----------------------------------------------------------------------------
Init ==
  /\ sState = "send"
  /\ sequence = 0
  /\ taken = 0
  /\ sTimer = Patience
  /\ sBuf = NoHeader
  /\ blocks = 0
  /\ rState = "run"
  /\ rTimer = Patience
  /\ rBuf = NoHeader
  /\ out = << >>
  /\ toRecv = << >>
  /\ toSend = << >>
  /\ age = 0
  /\ faults = 0

-----------------------------------------------------------------------------
(* The sender.                                                             *)

(* send_next_packet(): read() takes some of what is left, sendto() sends   *)
(* it.  A read() that returns -1 makes memcpy() run away with a huge size; *)
(* a sendto() that does exits with 1.                                      *)
SendNextPacket ==
  /\ sState = "send"
  /\ taken < N
  /\ \E n \in 1..BlockMax, ok \in BOOLEAN :
       /\ taken + n \leq N
       /\ SysCall(ok)
       /\ taken' = taken + n
       /\ blocks' = blocks + 1
       /\ sState' = IF ok THEN "wait" ELSE "failed"
       /\ toRecv' = IF ok THEN Append(toRecv, MakeHeader(sequence, n, FALSE, FALSE, taken + n))
                          ELSE toRecv
       /\ age' = 0
  /\ UNCHANGED <<sequence, sTimer, sBuf, receiverVars, toSend>>

(* read() returned 0: send_final_packet(), then exit, waiting for nothing. *)
SendFinalPacket ==
  /\ sState = "send"
  /\ taken = N
  /\ \E ok \in BOOLEAN :
       /\ SysCall(ok)
       /\ sState' = IF ok THEN "done" ELSE "failed"
       /\ toRecv' = IF ok THEN Append(toRecv, MakeHeader(sequence + 1, 0, TRUE, FALSE, N))
                          ELSE toRecv
       /\ age' = 0
  /\ UNCHANGED <<sequence, taken, sTimer, sBuf, blocks, receiverVars, toSend>>

(* Mutants: every block is taken to be a full one; the sequences are       *)
(* compared as signed integers; the sequence is not looked at.             *)
AcceptableFullBlock(h) == h.magic /\ h.seq \geq sequence + BlockMax /\ h.ack

AcceptableSigned(h) ==
  LET biased(n) == (n + SeqSpace \div 2) % SeqSpace
  IN  h.magic /\ biased(h.seq) \geq biased(sequence) /\ h.ack

AcceptableAnyAck(h) == h.magic /\ h.ack

(* The test the sender applies to the header it is shown: an unsigned      *)
(* comparison.                                                             *)
Acceptable(h) == h.magic /\ h.seq \geq sequence /\ h.ack

(* select() found a datagram: accept it as the awaited acknowledgment, or  *)
(* log it as corrupted and wait on.                                        *)
RecvAck ==
  /\ sState = "wait"
  /\ \E i \in Deliverable(toSend), ok \in BOOLEAN :
       LET h == Received(sBuf, toSend[i])
       IN  /\ SysCall(ok)
           /\ toSend' = RemoveAt(toSend, i)
           /\ sBuf' = IF ok THEN h ELSE sBuf
           /\ IF ok /\ Acceptable(h)
              THEN sState' = "send" /\ sequence' = h.seq
              ELSE sState' = (IF ok THEN "wait" ELSE "failed") /\ UNCHANGED sequence
  /\ UNCHANGED <<taken, sTimer, blocks, receiverVars, toRecv, age>>

(* Mutants: on a timeout the block is given up, or sent again (though the  *)
(* receiver has no way to tell).                                           *)
AckTimeoutGivesUp ==
  /\ sState = "wait"
  /\ sTimer = 0
  /\ sState' = "send"
  /\ UNCHANGED <<sequence, taken, sTimer, sBuf, blocks, receiverVars, netVars>>

AckTimeoutResends ==
  /\ sState = "wait"
  /\ sTimer = 0
  /\ Len(toRecv) < 2
  /\ toRecv' = Append(toRecv, MakeHeader(sequence, taken - sequence, FALSE, FALSE, taken))
  /\ age' = 0
  /\ UNCHANGED <<senderVars, receiverVars, toSend, faults>>

(* select() returned 0: t has run out.  The sender logs it and calls       *)
(* select() again, with the same exhausted t.                              *)
AckTimeout ==
  /\ sState = "wait"
  /\ sTimer = 0
  /\ UNCHANGED vars

-----------------------------------------------------------------------------
(* The receiver.                                                           *)

(* What write(1, data, length), whose result is ignored, leaves in out.    *)
WriteData(h) ==
  \/ out' = out \o Payload(h) /\ UNCHANGED faults
  \/ /\ CanFault("shortwrite")
     /\ faults' = faults + 1
     /\ \E n \in 0..h.len : n < h.len /\ out' = out \o SubSeq(Payload(h), 1, n)

(* Mutant: every block is taken to be a full one.                          *)
ResponseFullBlock(p) == MakeHeader(p.seq + BlockMax, 0, p.eof, TRUE, p.end)

(* The acknowledgment of p: the next byte's sequence, eof copied.          *)
Response(p) == MakeHeader(p.seq + p.len, 0, p.eof, TRUE, p.end)

(* The response to p goes where p came from: for an empty datagram that is *)
(* the other program.                                                      *)
Respond(p) ==
  IF p.short THEN UNCHANGED <<toSend, age>>
             ELSE toSend' = Append(toSend, Response(p)) /\ age' = 0

(* Mutant: the receiver writes only the sequence it expects.               *)
AcceptPacketExpected(h, p) ==
  /\ h.magic
  /\ IF h.seq = Len(out) THEN WriteData(h) ELSE UNCHANGED <<out, faults>>
  /\ Respond(p)
  /\ rState' = IF h.eof THEN "eof" ELSE "run"

(* A header with the right magic has its data written and is acknowledged, *)
(* whatever its sequence and whatever ack says; on eof the receiver exits  *)
(* with 0.                                                                 *)
AcceptPacket(h, p) ==
  /\ h.magic
  /\ WriteData(h)
  /\ Respond(p)
  /\ rState' = IF h.eof THEN "eof" ELSE "run"

(* Any other is logged as corrupted and dropped.                           *)
IgnorePacket(h) ==
  /\ ~ h.magic
  /\ UNCHANGED <<rState, out, toSend, age, faults>>

(* recvfrom() fails, or sendto() does after the data was written.          *)
RecvFails(h) ==
  /\ CanFault("syscall")
  /\ faults' = faults + 1
  /\ rState' = "failed"
  /\ \/ UNCHANGED out
     \/ h.magic /\ out' = out \o Payload(h)
  /\ UNCHANGED <<toSend, age>>

RecvPacket ==
  /\ rState = "run"
  /\ \E i \in Deliverable(toRecv) :
       LET p == toRecv[i]
           h == Received(rBuf, p)
       IN  /\ AcceptPacket(h, p) \/ IgnorePacket(h) \/ RecvFails(h)
           /\ rBuf' = h
           /\ toRecv' = RemoveAt(toRecv, i)
  /\ UNCHANGED <<senderVars, rTimer>>

(* Mutant: the receiver, like the sender, only logs the timeout.           *)
RecvTimeoutLogged ==
  /\ rState = "run"
  /\ rTimer = 0
  /\ UNCHANGED vars

(* select() returned 0: the receiver gives up.                             *)
RecvTimeout ==
  /\ rState = "run"
  /\ rTimer = 0
  /\ rState' = "timeout"
  /\ UNCHANGED <<senderVars, rTimer, rBuf, out, netVars>>

-----------------------------------------------------------------------------
(* The network and the clock.                                              *)

Drop ==
  /\ CanFault("drop")
  /\ faults' = faults + 1
  /\ \/ \E i \in DOMAIN toRecv : toRecv' = RemoveAt(toRecv, i) /\ UNCHANGED toSend
     \/ \E i \in DOMAIN toSend : toSend' = RemoveAt(toSend, i) /\ UNCHANGED toRecv
  /\ UNCHANGED <<senderVars, receiverVars, age>>

(* The copy travels right behind the original.                             *)
Duplicate ==
  /\ CanFault("duplicate")
  /\ faults' = faults + 1
  /\ \/ \E i \in DOMAIN toRecv : toRecv' = InsertAt(toRecv, i, toRecv[i]) /\ UNCHANGED toSend
     \/ \E i \in DOMAIN toSend : toSend' = InsertAt(toSend, i, toSend[i]) /\ UNCHANGED toRecv
  /\ UNCHANGED <<senderVars, receiverVars, age>>

Stray ==
  /\ \E short \in BOOLEAN :
       /\ CanFault(IF short THEN "empty" ELSE "stray")
       /\ \/ toRecv' = Append(toRecv, Foreign(short)) /\ UNCHANGED toSend
          \/ toSend' = Append(toSend, Foreign(short)) /\ UNCHANGED toRecv
  /\ faults' = faults + 1
  /\ UNCHANGED <<senderVars, receiverVars, age>>

(* A datagram is travelling to a program that still reads its socket.      *)
InFlight ==
  \/ rState = "run" /\ toRecv # << >>
  \/ sState = "wait" /\ toSend # << >>

(* Time passes.  t is set once, before the loops, and select() leaves in   *)
(* it the time it did not wait: the patience of each program is a total.   *)
(* Programs take no time, except that the sender's read() may stall.       *)
Tick ==
  /\ InFlight => "delay" \in Faults \/ age < Latency
  /\ sState = "send" => "stall" \in Faults
  /\ \/ rState = "run" /\ rTimer > 0
     \/ sState = "wait" /\ sTimer > 0
  /\ rTimer' = IF rState = "run" /\ rTimer > 0 THEN rTimer - 1 ELSE rTimer
  /\ sTimer' = IF sState = "wait" /\ sTimer > 0 THEN sTimer - 1 ELSE sTimer
  /\ age' = IF age < Latency THEN age + 1 ELSE age
  /\ UNCHANGED <<sState, sequence, taken, sBuf, blocks, rState, rBuf, out, toRecv, toSend, faults>>

-----------------------------------------------------------------------------
(* Both programs have exited.                                              *)
Terminated ==
  /\ sState \in {"done", "failed"}
  /\ rState # "run"
  /\ UNCHANGED vars

Next ==
  \/ SendNextPacket
  \/ SendFinalPacket
  \/ RecvAck
  \/ AckTimeout
  \/ RecvPacket
  \/ RecvTimeout
  \/ Drop
  \/ Duplicate
  \/ Stray
  \/ Tick
  \/ Terminated

Spec == Init /\ [][Next]_vars

(* The operating system runs both programs, a datagram that is not dropped *)
(* arrives, and time passes.  Nothing is assumed of the faults.            *)
Fairness ==
  /\ WF_vars(SendNextPacket)
  /\ WF_vars(SendFinalPacket)
  /\ WF_vars(RecvAck)
  /\ WF_vars(RecvPacket)
  /\ WF_vars(RecvTimeout)
  /\ WF_vars(Tick)

FairSpec == Spec /\ Fairness

-----------------------------------------------------------------------------
(* Correctness.                                                            *)

TypeOK ==
  /\ sState \in {"send", "wait", "done", "failed"}
  /\ sequence \in Sequences32
  /\ taken \in 0..N
  /\ sTimer \in 0..Patience
  /\ sBuf \in Buffer
  /\ blocks \in 0..taken
  /\ rState \in {"run", "eof", "timeout", "failed"}
  /\ rTimer \in 0..Patience
  /\ rBuf \in Buffer
  /\ out \in Seq(0..N)
  /\ toRecv \in Seq(Datagram)
  /\ toSend \in Seq(Datagram)
  /\ age \in 0..Latency
  /\ faults \in 0..MaxFaults

(* A program has acted on the remains of an earlier datagram.  Most of     *)
(* what follows is true only until then: an empty datagram of any program  *)
(* makes the receiver write old data again and the sender take an old      *)
(* acknowledgment for a much later one (3600recv.c:84-95, 3600send.c:      *)
(* 151-160).                                                               *)
Reread == sBuf.reread \/ rBuf.reread

(* What the sender takes to be acknowledged was written, byte for byte     *)
(* (3600send.c:158-160 against 3600recv.c:95-100), on a network that       *)
(* duplicates but neither loses nor reorders, or the other way round.      *)
AckedWritten ==
  ~ Reread => \A b \in 1..sequence : \E i \in DOMAIN out : out[i] = b

(* The acknowledgment of the outstanding block is never mistaken for a     *)
(* corrupted one, so losing datagrams is the only way to stop a sender:    *)
(* true until 2^32 bytes have been read (3600send.c:158) or, once an old   *)
(* acknowledgment was taken for a later one, until sequence is within a    *)
(* block of 2^32.                                                          *)
FreshAckAccepted ==
  (sState = "wait" /\ (IF Reread THEN sequence + BlockMax ELSE taken) < SeqSpace) =>
    \A p \in Range(toSend) : (p.ack /\ p.end = taken) => Acceptable(p)

(* A new block is read only when everything read before has been written:  *)
(* no two blocks are in flight at once (3600send.c:139-142).  Needs a      *)
(* network that does not duplicate.                                        *)
ReadsOnlyAfterWritten == [][(taken' # taken /\ ~ Reread) => Len(out) = taken]_vars

(* Without duplication and without empty datagrams the two programs are a  *)
(* byte pipe: output once and in order, success reported by either only    *)
(* for a full copy, whatever is lost, delayed or ignored for want of the   *)
(* magic, and whenever either program fails.                               *)
Reader == CASE rState = "run" -> "open"
            [] rState = "eof" -> "closed"
            [] OTHER -> "broken"

Writer == CASE sState \in {"send", "wait"} -> "open"
            [] sState = "done" -> "closed"
            [] OTHER -> "broken"

Pipe == INSTANCE BytePipe WITH reader <- Reader, writer <- Writer

ImplementsPipe == Pipe!PipeSpec

(* On a network that duplicates but keeps the order, blocks may be written *)
(* again but never ahead of what precedes them, and the receiver reports   *)
(* success only when every byte is there (3600recv.c:94-110).              *)
NoGaps ==
  ~ Reread =>
    /\ \A i \in DOMAIN out : out[i] = 1 \/ \E j \in 1..(i - 1) : out[j] = out[i] - 1
    /\ rState = "eof" => \A b \in 1..N : \E i \in DOMAIN out : out[i] = b

(* Without duplication nothing is written twice or out of order, even if   *)
(* write() falls short and the receiver acknowledges all the same          *)
(* (3600recv.c:95), as long as no buffer is looked at a second time.       *)
NothingTwice == ~ Reread => \A i, j \in DOMAIN out : i < j => out[i] < out[j]

(* The 30 seconds are spent on the whole transfer: each block read may     *)
(* cost the receiver two latencies of its patience and nothing gives them  *)
(* back (3600recv.c:69-82).  On a network that at most duplicates it       *)
(* spends no more than that, one latency for the end of the transfer and   *)
(* one for each duplicate.                                                 *)
WaitBudget ==
  rState = "run" => Patience - rTimer \leq (2 * blocks + 1 + faults) * Latency

(* 4 GiB are the most a transfer can carry: the sender never reports       *)
(* success for more (3600send.c:27, 158), unless an empty datagram makes   *)
(* it take an old acknowledgment for a later one.                          *)
TransferLimit == (N \geq SeqSpace /\ ~ Reread) => sState # "done"

(* Both programs exit with success and every byte has been written.        *)
Completes ==
  <>(sState = "done" /\ rState = "eof" /\ \A b \in 1..N : \E i \in DOMAIN out : out[i] = b)

(* The receiver stops whatever happens, by eof, timeout or failure: it     *)
(* never waits for a sender that is gone (3600recv.c:69-82, 114-116).      *)
ReceiverExits == <>(rState # "run")

(* What the project's test script asks of a transfer the receiver reports  *)
(* as complete: "Data match: Yes".                                         *)
DataMatches == rState = "eof" => out = [i \in 1..N |-> i]
=============================================================================
