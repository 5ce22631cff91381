---------------------------- MODULE MCTransport ----------------------------
(***************************************************************************)
(* Byte orders for Transport on a machine with bytes of one bit: three of  *)
(* them in a sequence, two in a length.                                    *)
(***************************************************************************)
EXTENDS Transport

OneBitSequence ==
  [s \in Sequences32 |-> 4 * (s % 2) + 2 * ((s \div 2) % 2) + (s \div 4)]

OneBitLength == [l \in Lengths |-> 2 * (l % 2) + (l \div 2)]
=============================================================================
