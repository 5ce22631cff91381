------------------------------ MODULE BytePipe ------------------------------
(***************************************************************************)
(* What project4 promises a user who runs "3600recv > copy" and            *)
(* "3600send host:port < original": a byte pipe.  Bytes come out once and  *)
(* in order, and each end reports success (exit 0) only when everything    *)
(* has come out.  Byte i of the input is represented by the number i.      *)
(***************************************************************************)
EXTENDS Naturals, Sequences

CONSTANT N          \* number of bytes on the sender's standard input

VARIABLES
  out,              \* bytes written to the receiver's standard output
  reader,           \* receiving end: "open", "closed" (exit 0) or "broken"
  writer            \* sending end: "open", "closed" (exit 0) or "broken"

pipeVars == <<out, reader, writer>>

Input(n) == [i \in 1..n |-> i]

PipeInit ==
  /\ out = << >>
  /\ reader = "open"
  /\ writer = "open"

(* More of the input comes out; the receiving end may die right after.     *)
Deliver ==
  /\ reader = "open"
  /\ \E n \in (Len(out) + 1)..N : out' = Input(n)
  /\ reader' \in {"open", "broken"}
  /\ UNCHANGED writer

(* The receiving end stops, with success only on a full copy.              *)
CloseReader ==
  /\ reader = "open"
  /\ \/ reader' = "broken"
     \/ reader' = "closed" /\ out = Input(N)
  /\ UNCHANGED <<out, writer>>

(* The sending end stops, with success only once everything came out.      *)
CloseWriter ==
  /\ writer = "open"
  /\ \/ writer' = "broken"
     \/ writer' = "closed" /\ out = Input(N)
  /\ UNCHANGED <<out, reader>>

PipeNext == Deliver \/ CloseReader \/ CloseWriter

PipeSpec == PipeInit /\ [][PipeNext]_pipeVars
=============================================================================
