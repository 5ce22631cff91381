---------------------------- MODULE MCDnsClient ----------------------------
(***************************************************************************)
(* Small names and replies for DnsClient.                                  *)
(***************************************************************************)
EXTENDS DnsClient

a == 97
b == 98

(* Labels of nine characters and of ten: a longer one is read well in      *)
(* front and nowhere else.                                                 *)
LabelOf(n) == [i \in 1..n |-> b]

SomeNames == {<<<<a>>>>, <<LabelOf(10)>>, <<<<a>>, LabelOf(9)>>, <<<<a>>, LabelOf(10)>>}

Address(x) == [type |-> Types.A, class |-> 1, rdata |-> x, alias |-> << >>]

(* The alias is written out in full, which is what a server may do.        *)
Alias(labels) ==
  [type |-> Types.CNAME, class |-> 1, rdata |-> NameToDNS(labels) \o <<0>>, alias |-> labels]

(* The alias ends with a pointer to the name asked for.                    *)
Compressed(label) ==
  [type |-> Types.CNAME, class |-> 1,
   rdata |-> <<Len(label)>> \o label \o <<192, HeaderSize>>, alias |-> <<label>>]

Mail == [type |-> 15, class |-> 1, rdata |-> <<0, 1>>, alias |-> << >>]

Addresses == {Address(<<1, 2, 3, 4>>), Address(<<192, 0, 0, 1>>), Address(<<0, 0, 0, 0>>)}

Aliases == {Alias(<<<<b, b>>>>), Alias(<<<<b, a>>, <<a, b>>>>)}

Saying(auths, answers) ==
  [id : {HEADER_ID}, aa : auths, tc : {0}, ra : {1}, rcode : {0}, answers : answers]

(* At most one answer, and every header.                                   *)
SingleReplies ==
  Saying({0, 1}, {<< >>} \cup {<<x>> : x \in Addresses \cup Aliases \cup {Alias(<<<<b>>, LabelOf(10)>>)}})
    \cup [id : {HEADER_ID}, aa : {0}, tc : {0, 1}, ra : {0, 1}, rcode : {0, 3},
          answers : {<< >>, <<Address(<<1, 2, 3, 4>>)>>}]

(* Two answers of any sort.                                                *)
Sorts == Addresses \cup Aliases \cup {Compressed(<<b, b>>), Compressed(<<b>>), Mail}

DoubleReplies == Saying({0}, {<<x, y>> : x, y \in Sorts})

SomeReplies == SingleReplies \cup DoubleReplies

(* What others are told: that a name does not exist, or its address.       *)
ForeignReplies ==
  [id : {0, HEADER_ID}, aa : {0}, tc : {0}, ra : {1}, rcode : {0, 3},
   answers : {<<Address(<<9, 9, 9, 9>>)>>}]

TwoAddresses == Saying({0, 1}, {<<Address(<<1, 2, 3, 4>>), Address(<<5, 6, 7, 8>>)>>})
=============================================================================
