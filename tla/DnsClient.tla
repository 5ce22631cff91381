----------------------------- MODULE DnsClient -----------------------------
(***************************************************************************)
(* project3: 3600dns sends one query over UDP, waits for one datagram and  *)
(* prints what it says.  Packets are sequences of bytes, because the walk  *)
(* of the parser over them is what can go wrong; the server and the        *)
(* network are external.                                                   *)
(***************************************************************************)
EXTENDS Naturals, Sequences, SequencesExt

CONSTANTS
  Queries,    \* the names to ask for, as sequences of labels, which are
              \* sequences of characters
  Replies,    \* what a server may say, see IsReply
  Strangers,  \* what datagrams from elsewhere say
  MaxStrays   \* bound on the datagrams from elsewhere

Byte == 0..255

DOT == 46

HEADER_ID == 1337

Types == [A |-> 1, CNAME |-> 5]

MAX_ARG_LEN == 39

(* name holds MAX_ARG_LEN characters.                                      *)
IsName(labels) ==
  /\ labels \in Seq(Seq(Byte \ {0, DOT}))
  /\ labels # << >>
  /\ \A i \in DOMAIN labels : Len(labels[i]) \in 1..MAX_ARG_LEN

(* The fields as wide as the protocol has them.  An answer has its data as *)
(* bytes and, when they are a name, that name as labels.                   *)
Word == 0..(256 * 256 - 1)

Answer == [type : Word, class : Word, rdata : Seq(Byte), alias : Seq(Seq(Byte))]

IsReply(reply) ==
  /\ reply \in [id : Word, aa : {0, 1}, tc : {0, 1}, ra : {0, 1}, rcode : 0..15,
                answers : Seq(Answer)]
  /\ Len(reply.answers) \in Word
  /\ \A i \in DOMAIN reply.answers : Len(reply.answers[i].rdata) \in Word

ASSUME DnsAssumption ==
  /\ MaxStrays \in Nat
  /\ \A q \in Queries : IsName(q)
  /\ \A r \in Replies \cup Strangers : IsReply(r)

VARIABLES
  pc,         \* where main() is
  query,      \* argv[2]
  requests,   \* the requests on their way to the server
  replies,    \* the datagrams on their way to the client, with what they say
  strays,     \* how many of them came from elsewhere
  heard,      \* history: what the datagram received says
  asked,      \* history: the name that datagram asks for
  buffer,     \* pckt_buffer: the datagram, and zeroes behind it
  pos,        \* pckt_len
  answercnt,  \* answers still to be parsed
  out,        \* the lines printed
  complaint   \* what the message on stderr is about

clientVars == <<pc, heard, asked, buffer, pos, answercnt, out, complaint>>
vars == <<clientVars, query, requests, replies, strays>>

-----------------------------------------------------------------------------
(* Packets.                                                                *)

(* Mutant: the low byte is not cut off.                                    *)
U16Wide(n) == <<n \div 256, n>>

U16(n) == <<n \div 256, n % 256>>

At(packet, i) == IF i < Len(packet) THEN packet[i + 1] ELSE 0

U16At(packet, i) == 256 * At(packet, i) + At(packet, i + 1)

HeaderSize == 12
QuestionSize == 4
AnswerSize == 12   \* sizeof(answer): the ten bytes of the record, padded

Bit(byte, weight) == (byte \div weight) % 2

Header(id, flags, rcodes, ancount) ==
  U16(id) \o <<flags, rcodes>> \o U16(1) \o U16(ancount) \o U16(0) \o U16(0)

(* nameToDNS(): every label behind its length.                             *)
NameToDNS(labels) == FlattenSeq([i \in DOMAIN labels |-> <<Len(labels[i])>> \o labels[i]])

(* The same name as the user writes it.                                    *)
Text(labels) ==
  Tail(FlattenSeq([i \in DOMAIN labels |-> <<DOT>> \o labels[i]]))

Request(labels) ==
  Header(HEADER_ID, 1, 0, 0) \o NameToDNS(labels) \o <<0>> \o U16(1) \o U16(1)

(* DNSToName(): the walk begins behind the first length and ends at a zero *)
(* byte.  Lengths up to 9 become dots; a compression pointer continues the *)
(* walk behind the place that the two bytes at offset name.                *)
Pointer(packet, offset) == U16At(packet, offset) % 16384

IsPointer(byte) == byte \div 64 = 3

Character(byte) == IF byte \leq 9 THEN DOT ELSE byte

NextCell(packet, offset) ==
  [c \in Nat |-> (IF IsPointer(At(packet, c)) THEN Pointer(packet, offset) ELSE c) + 1]

(* The cells of the walk, one after the other.                             *)
Walk(packet, offset) ==
  LET cell[k \in Nat] ==
        IF k = 0 THEN offset + 1 ELSE NextCell(packet, offset)[cell[k - 1]]
  IN  cell

(* A walk that has not ended after as many cells as the packet has is      *)
(* going round and never ends.                                             *)
EndsAfter(packet, offset, k) ==
  /\ At(packet, Walk(packet, offset)[k]) = 0
  /\ \A j \in 0..(k - 1) : At(packet, Walk(packet, offset)[j]) # 0

NameEnds(packet, offset) == \E k \in 0..Len(packet) : EndsAfter(packet, offset, k)

NameLength(packet, offset) == CHOOSE k \in 0..Len(packet) : EndsAfter(packet, offset, k)

DNSToName(packet, offset) ==
  [k \in 1..NameLength(packet, offset) |-> Character(At(packet, Walk(packet, offset)[k - 1]))]

DNSToIP(packet, offset) == [i \in 1..4 |-> At(packet, offset + i - 1)]

-----------------------------------------------------------------------------
(* The server and the network.                                             *)

Question(packet) == SubSeq(packet, HeaderSize + 1, Len(packet))

(* The name of an answer is a pointer to the name in the question.         *)
Record(answer) ==
  <<192, HeaderSize>> \o U16(answer.type) \o U16(answer.class) \o U16(0) \o U16(60)
    \o U16(Len(answer.rdata)) \o answer.rdata

Packet(reply, request) ==
  Header(reply.id, 128 + 4 * reply.aa + 2 * reply.tc + 1, 128 * reply.ra + reply.rcode,
         Len(reply.answers))
    \o Question(request) \o FlattenSeq([i \in DOMAIN reply.answers |-> Record(reply.answers[i])])

Reply ==
  \E request \in requests, reply \in Replies :
    /\ requests' = requests \ {request}
    /\ replies' = replies \cup
                  {[says |-> reply, asks |-> query, packet |-> Packet(reply, request)]}
    /\ UNCHANGED <<clientVars, query, strays>>

LoseRequest ==
  \E request \in requests :
    /\ requests' = requests \ {request}
    /\ UNCHANGED <<clientVars, query, replies, strays>>

LoseReply ==
  \E reply \in replies :
    /\ replies' = replies \ {reply}
    /\ UNCHANGED <<clientVars, query, requests, strays>>

(* A datagram of somebody else's that reaches the socket: an answer to any *)
(* question, this one or another, with this client's id or another.        *)
Stray ==
  /\ pc = "wait"
  /\ strays < MaxStrays
  /\ strays' = strays + 1
  /\ \E says \in Strangers, labels \in Queries :
       replies' = replies \cup
         {[says |-> says, asks |-> labels, packet |-> Packet(says, Request(labels))]}
  /\ UNCHANGED <<clientVars, query, requests>>

-----------------------------------------------------------------------------
(* The client.                                                             *)

Printed(kind, value, auth) == Append(out, [kind |-> kind, value |-> value, auth |-> auth])

Return == pc' = "done"

(* A message on stderr, and the end.                                       *)
Fail(about) == Return /\ complaint' = about

Send ==
  /\ pc = "send"
  /\ requests' = requests \cup {Request(query)}
  /\ buffer' = << >>
  /\ pc' = "wait"
  /\ UNCHANGED <<query, replies, strays, heard, asked, pos, answercnt, out, complaint>>

SendFails ==
  /\ pc = "send"
  /\ Fail("sending")
  /\ UNCHANGED <<query, requests, replies, strays, heard, asked, buffer, pos, answercnt, out>>

(* select() and recvfrom().                                                *)
Receive ==
  /\ pc = "wait"
  /\ \E reply \in replies :
       /\ replies' = replies \ {reply}
       /\ buffer' = reply.packet
       /\ heard' = <<reply.says>>
       /\ asked' = reply.asks
  /\ pc' = "header"
  /\ UNCHANGED <<query, requests, strays, pos, answercnt, out, complaint>>

(* in_len is not initialised: a value recvfrom() takes for negative makes  *)
(* it fail with the datagram taken.                                        *)
ReceiveFails ==
  /\ pc = "wait"
  /\ \E reply \in replies : replies' = replies \ {reply}
  /\ Fail("receiving")
  /\ UNCHANGED <<query, requests, strays, heard, asked, buffer, pos, answercnt, out>>

(* Mutant: after the silence select() is called again.                     *)
TimeoutTriesAgain ==
  /\ pc = "wait"
  /\ replies = {}
  /\ UNCHANGED vars

(* Five seconds without a datagram.                                        *)
Timeout ==
  /\ pc = "wait"
  /\ replies = {}
  /\ out' = Printed("NORESPONSE", << >>, "")
  /\ Return
  /\ UNCHANGED <<query, requests, replies, strays, heard, asked, buffer, pos, answercnt, complaint>>

(* Mutant: the id is not compared.                                         *)
CompromisedButId ==
  \/ Bit(At(buffer, 2), 128) # 1
  \/ Bit(At(buffer, 2), 2) # 0
  \/ Bit(At(buffer, 3), 128) # 1

(* The fields of the header as the bit fields lay them out.                *)
Compromised ==
  \/ U16At(buffer, 0) # HEADER_ID
  \/ Bit(At(buffer, 2), 128) # 1    \* qr
  \/ Bit(At(buffer, 2), 2) # 0      \* tc
  \/ Bit(At(buffer, 3), 128) # 1    \* ra
  \/ Bit(At(buffer, 2), 1) # 1      \* rd

NotFound == At(buffer, 3) % 16 = 3

Auth == IF Bit(At(buffer, 2), 4) = 1 THEN "auth" ELSE "nonauth"

ParseHeader ==
  /\ pc = "header"
  /\ IF Compromised THEN Fail("header") /\ UNCHANGED <<pos, answercnt, out>>
     ELSE /\ UNCHANGED complaint
          /\ IF NotFound
             THEN Return /\ out' = Printed("NOTFOUND", << >>, "") /\ UNCHANGED <<pos, answercnt>>
             ELSE /\ answercnt' = U16At(buffer, 6)
                  /\ pos' = HeaderSize
                  /\ pc' = "question"
                  /\ UNCHANGED out
  /\ UNCHANGED <<query, requests, replies, strays, heard, asked, buffer>>

(* The length that is added is that of the text, two bytes less than the   *)
(* name takes in the packet: what is compared as the class is the type.    *)
ParseQuestion ==
  /\ pc = "question"
  /\ NameEnds(buffer, pos)
  /\ LET qname == DNSToName(buffer, pos)
         at == pos + Len(qname)
     IN  IF qname # Text(query) THEN Fail("name") /\ UNCHANGED pos
         ELSE IF U16At(buffer, at + 2) # 1 THEN Fail("question") /\ UNCHANGED pos
         ELSE pc' = "answers" /\ pos' = at + QuestionSize /\ UNCHANGED complaint
  /\ UNCHANGED <<query, requests, replies, strays, heard, asked, buffer, answercnt, out>>

(* Mutant: the padding of the structure is skipped as well.                *)
RdataAtPadded(at) == at + AnswerSize

RdataAt(at) == at + AnswerSize - 2

(* One turn of the loop over the answers.  The walk over a name that never *)
(* ends holds the client up for good, here and at the question.            *)
ParseAnswer ==
  /\ pc = "answers"
  /\ answercnt > 0
  /\ NameEnds(buffer, pos)
  /\ LET at == pos + Len(DNSToName(buffer, pos))
         type == U16At(buffer, at)
         rdata == RdataAt(at)
     IN  IF U16At(buffer, at + 2) # 1
         THEN Fail("class") /\ UNCHANGED <<pos, answercnt, out>>
         ELSE /\ answercnt' = answercnt - 1
              /\ CASE type = Types.A ->
                        /\ out' = Printed("IP", DNSToIP(buffer, rdata), Auth)
                        /\ pos' = rdata + U16At(buffer, at + 8)
                   [] type = Types.CNAME ->
                        /\ NameEnds(buffer, rdata)
                        /\ out' = Printed("CNAME", DNSToName(buffer, rdata), Auth)
                        /\ pos' = rdata + Len(DNSToName(buffer, rdata))
                   [] OTHER ->
                        /\ out' = Printed("", << >>, Auth)
                        /\ pos' = rdata
              /\ UNCHANGED <<pc, complaint>>
  /\ UNCHANGED <<query, requests, replies, strays, heard, asked, buffer>>

ParseEnd ==
  /\ pc = "answers"
  /\ answercnt = 0
  /\ Return
  /\ UNCHANGED <<query, requests, replies, strays, heard, asked, buffer, pos, answercnt, out,
                 complaint>>

Done ==
  /\ pc = "done"
  /\ UNCHANGED vars

-----------------------------------------------------------------------------
Init ==
  /\ pc = "send"
  /\ query \in Queries
  /\ requests = {}
  /\ replies = {}
  /\ strays = 0
  /\ heard = << >>
  /\ asked = query
  /\ buffer = << >>
  /\ pos = 0
  /\ answercnt = 0
  /\ out = << >>
  /\ complaint = ""

Client ==
  \/ Send \/ SendFails \/ Receive \/ ReceiveFails \/ Timeout
  \/ ParseHeader \/ ParseQuestion \/ ParseAnswer \/ ParseEnd

Next == Client \/ Reply \/ LoseRequest \/ LoseReply \/ Stray \/ Done

Spec == Init /\ [][Next]_vars

(* select() returns after five seconds at the latest.                      *)
FairSpec == Spec /\ WF_vars(Client)

-----------------------------------------------------------------------------
(* Correctness.                                                            *)

TypeOK ==
  /\ pc \in {"send", "wait", "header", "question", "answers", "done"}
  /\ query \in Queries
  /\ requests \subseteq {Request(query)}
  /\ strays \in 0..MaxStrays
  /\ Len(heard) \leq 1
  /\ asked \in Queries
  /\ \A i \in DOMAIN buffer : buffer[i] \in Byte
  /\ pos \in Nat
  /\ answercnt \in Nat
  /\ \A i \in DOMAIN out : out[i].kind \in {"IP", "CNAME", "NOTFOUND", "NORESPONSE", ""}

(* The lines a reply asks for: one for each answer, or NOTFOUND.           *)
AnswerLine(reply, answer) ==
  [kind |-> IF answer.type = Types.A THEN "IP" ELSE "CNAME",
   value |-> IF answer.type = Types.A THEN answer.rdata
             ELSE Text(answer.alias),
   auth |-> IF reply.aa = 1 THEN "auth" ELSE "nonauth"]

Expected(reply) ==
  IF reply.rcode = 3 THEN <<[kind |-> "NOTFOUND", value |-> << >>, auth |-> ""]>>
  ELSE [i \in DOMAIN reply.answers |-> AnswerLine(reply, reply.answers[i])]

NoResponse == [kind |-> "NORESPONSE", value |-> << >>, auth |-> ""]

(* Whether a reply can be used at all: another id, truncated, or from a    *)
(* server that does not recurse.                                           *)
Usable(reply) == reply.id = HEADER_ID /\ reply.tc = 0 /\ reply.ra = 1

(* The length of a label is not taken for a character.                     *)
Legible(labels) == \A i \in 2..Len(labels) : Len(labels[i]) \leq 9

LegibleAnswers(reply) ==
  \A i \in DOMAIN reply.answers :
    reply.answers[i].type = Types.CNAME => Legible(reply.answers[i].alias)

(* Of a usable reply to its own question the client prints exactly what it *)
(* says: the line of its answer, or NOTFOUND.  Of any other datagram it    *)
(* prints no answer, and complains, on stderr; so it does when it has      *)
(* heard none and does not print NORESPONSE (3600dns.c:278-454).           *)
(*                                                                         *)
(* Needs labels of at most nine characters, the first one excepted, and a  *)
(* reply of at most one answer: from the second on the walk is off its     *)
(* way.  Nothing is said of a reply with the client's id that says of      *)
(* another name that it does not exist, which is printed as NOTFOUND.      *)
PrintsTheReply ==
  pc = "done" =>
    IF heard = << >> THEN out = <<NoResponse>> \/ (out = << >> /\ complaint # "")
    ELSE LET reply == heard[1]
             ours == Text(asked) = Text(query)
         IN  /\ ~ Usable(reply) \/ (~ ours /\ reply.rcode # 3)
                  => out = << >> /\ complaint # ""
             /\ (/\ Usable(reply) /\ ours /\ Len(reply.answers) \leq 1
                 /\ Legible(query) /\ LegibleAnswers(reply))
                  => out = Expected(reply) /\ complaint = ""


(* Whatever else the reply holds, an address that is printed is one the    *)
(* reply gives (3600dns.c:397-454).                                        *)
AddressesAreReal ==
  \A i \in DOMAIN out :
    out[i].kind = "IP" =>
      \E j \in DOMAIN heard[1].answers :
        /\ heard[1].answers[j].type = Types.A
        /\ heard[1].answers[j].rdata = out[i].value

(* The client ends, answer or no answer (3600dns.c:302-317, 397).          *)
ClientEnds == <>(pc = "done")
=============================================================================
