----------------------------- MODULE ShellProofs -----------------------------
(***************************************************************************)
(* Of any input, from a file or a pipe: the shell leaves no child behind   *)
(* and, where no child moves the offset of the input back, runs no line    *)
(* twice, the lines in order and each to where it asks; all of them, if no *)
(* program reads any of the input.                                         *)
(***************************************************************************)
EXTENDS Shell, InductionLemmas, SequenceTheorems, TLAPS

-----------------------------------------------------------------------------
(* The ends of the lines.                                                  *)
LEMMA SizeIsLargest ==
  ASSUME IsScript(script)
  PROVE  /\ Ends \subseteq Nat
         /\ Size \in Ends
         /\ \A f \in Ends : f \leq Size
         /\ \A p \in DOMAIN script : p < Size
         /\ \A f \in Ends : f \in DOMAIN script \cup {Size}
  <1>1. Ends \subseteq Nat
    BY DEF Ends, IsScript
  <1>2. PICK last \in DOMAIN script : \A p \in DOMAIN script : p \leq last
    BY LargestNatural DEF IsScript
  <1>3. last + script[last].len \in Ends
    BY DEF Ends
  <1>7. \A f \in Ends : f \leq last + script[last].len
    <2> TAKE f \in Ends
    <2>1. PICK p \in DOMAIN script : f = p + script[p].len
      BY DEF Ends
    <2>2. CASE p = last
      BY <2>1, <2>2, <1>1
    <2>3. CASE last > p
      <3>1. last \geq f
        BY <2>1, <2>3 DEF IsScript
      <3> QED BY <3>1, <1>1 DEF IsScript
    <2> QED BY <2>2, <2>3, <1>2 DEF IsScript
  <1>4. Size \in Ends /\ \A f \in Ends : f \leq Size
    BY <1>3, <1>7 DEF Size
  <1>5. \A p \in DOMAIN script : p < Size
    <2> TAKE p \in DOMAIN script
    <2>1. p + script[p].len \in Ends
      BY DEF Ends
    <2>2. p + script[p].len \leq Size
      BY <2>1, <1>4
    <2> QED BY <2>2, <1>1, <1>4 DEF IsScript
  <1>6. ASSUME NEW f \in Ends PROVE f \in DOMAIN script \cup {Size}
    <2>1. PICK p \in DOMAIN script : f = p + script[p].len
      BY DEF Ends
    <2>2. PICK q \in DOMAIN script : Size = q + script[q].len
      BY <1>4 DEF Ends
    <2>3. CASE q > p
      BY <2>1, <2>3 DEF IsScript
    <2>4. CASE q < p
      <3>1. p \geq q + script[q].len
        BY <2>4 DEF IsScript
      <3> QED BY <3>1, <2>2, <1>5 DEF IsScript
    <2>5. CASE q = p
      BY <2>1, <2>2, <2>5
    <2> QED BY <2>3, <2>4, <2>5 DEF IsScript
  <1> QED BY <1>1, <1>4, <1>5, <1>6

LEMMA NextLineIsNext ==
  ASSUME IsScript(script), NEW p \in Nat, p < Size
  PROVE  /\ NextLine(p) \in Ends
         /\ NextLine(p) > p
         /\ \A f \in Ends : f > p => NextLine(p) \leq f
  <1> DEFINE Later == {f \in Ends : f > p}
  <1>1. Later \in SUBSET Nat /\ Later # {}
    BY SizeIsLargest
  <1>2. \E e \in Later : \A f \in Later : e \leq f
    <2> HIDE DEF Later
    <2> QED BY <1>1, LeastNatural
  <1> QED BY <1>2 DEF NextLine

(* No line begins within another.                                          *)
LEMMA NoneBetween ==
  ASSUME IsScript(script), NEW p \in DOMAIN script, NEW q \in DOMAIN script, q > p
  PROVE  q \geq NextLine(p)
  <1>1. p \in Nat /\ p < Size
    BY SizeIsLargest DEF IsScript
  <1>2. p + script[p].len \in Ends /\ p + script[p].len > p
    BY <1>1 DEF Ends, IsScript
  <1>3. NextLine(p) \leq p + script[p].len
    BY <1>1, <1>2, NextLineIsNext
  <1>4. q \geq p + script[p].len
    BY DEF IsScript
  <1>5. NextLine(p) \in Nat
    BY <1>1, NextLineIsNext, SizeIsLargest
  <1> QED BY <1>3, <1>4, <1>5, <1>1 DEF IsScript

-----------------------------------------------------------------------------
(* The invariant.  The lines taken: all in front of rd.                    *)
Taken == {p \in DOMAIN script : p < rd}

(* The line in hand has yet to run.                                        *)
Pending == pc = "fork" \/ (pc = "wait" /\ child = "forked")

InHand == pc \in {"fork", "wait"}

ChildInv == child \in {"none", "forked", "running", "zombie"} /\ (pc # "wait" => child = "none")

TypeInv ==
  /\ IsScript(script)
  /\ inOff \in 0..Size /\ bufEnd \in 0..Size /\ rd \in 0..bufEnd /\ cur \in Nat
  /\ pc \in {"prompt", "fork", "wait", "exited"}
  /\ ran \in Seq([at : Nat, out : Openable \cup {"out", "closed"}])
  /\ out1 \in Openable \cup {"out", "closed"}
  /\ saved \in Openable \cup {"out", "nothing"}

(* Where nothing moves the offset back, reading goes on behind all that    *)
(* has been read; a program runs only for a whole line of its own.         *)
OrderInv ==
  /\ bufEnd \leq inOff
  /\ cur \leq rd /\ (InHand => cur < rd)
  /\ \A i \in DOMAIN ran : ran[i].at < rd /\ (Pending => ran[i].at < cur)
  /\ InHand =>
       /\ job.file # NoFile \/ job.kind = "run" => cur \in DOMAIN script /\ job.file = script[cur].file
  /\ EachLineOnce

(* Descriptor 1 is where it should be while every file could be opened.    *)
CanOpen(p) == script[p].file \in Openable \cup {NoFile}

OutInv ==
  (\A p \in DOMAIN script : p \leq cur => CanOpen(p)) =>
    /\ pc = "prompt" => out1 = "out"
    /\ InHand => IF job.file = NoFile THEN out1 = "out" ELSE out1 = job.file /\ saved = "out"

(* Where no program has read any of the input either, the lines are taken  *)
(* one after the other.                                                    *)
ReadInv ==
  /\ inOff = bufEnd
  /\ rd \in DOMAIN script \cup {Size}
  /\ InHand =>
       /\ cur \in Taken /\ \A p \in Taken : p \leq cur
       /\ job.kind = script[cur].kind /\ job.file = script[cur].file

(* What has run is what should have, of the lines taken.                   *)
RanInv ==
  /\ unforked \subseteq Taken
  /\ Pending => cur \notin unforked
  /\ \A i \in DOMAIN ran : ran[i].at \in Taken /\ (Pending => ran[i].at # cur)
  /\ {ran[i].at : i \in DOMAIN ran} =
       {p \in Taken : script[p].kind = "run" /\ ~ (Pending /\ p = cur)} \ unforked

ExitInv ==
  /\ \A q \in Taken : script[q].kind = "exit" => pc = "exited" /\ q = cur
  /\ pc = "exited" =>
       \/ rd = Size /\ \A q \in Taken : script[q].kind # "exit"
       \/ cur \in Taken /\ script[cur].kind = "exit" /\ \A p \in Taken : p \leq cur

SafeInv == OffsetIsSafe => OrderInv /\ OutInv /\ OutputWhereAsked

ExactInv == OffsetIsSafe /\ ~ taken => ReadInv /\ RanInv /\ ExitInv

Inv == ChildInv /\ TypeInv /\ SafeInv /\ ExactInv

-----------------------------------------------------------------------------
(* The initial states.                                                     *)
LEMMA FreshInv ==
  ASSUME IsScript(script), inOff = 0, rd = 0, bufEnd = 0, pc = "prompt", cur = 0, child = "none",
         out1 = "out", saved = "nothing", ran = << >>, unforked = {}
  PROVE  Inv
  <1>1. ChildInv
    BY DEF ChildInv
  <1>2. TypeInv
    <2>1. Size \in Nat
      BY SizeIsLargest
    <2> QED BY <2>1 DEF TypeInv
  <1>3. Taken = {}
    BY DEF Taken, IsScript
  <1>4. OrderInv /\ OutInv /\ OutputWhereAsked
    BY DEF OrderInv, OutInv, OutputWhereAsked, InHand, EachLineOnce
  <1>5. ReadInv
    BY DEF ReadInv, InHand, IsScript
  <1>6. RanInv
    BY <1>3 DEF RanInv, Pending
  <1>7. ExitInv
    BY <1>3 DEF ExitInv
  <1> QED BY <1>1, <1>2, <1>4, <1>5, <1>6, <1>7 DEF Inv, SafeInv, ExactInv

LEMMA InitInv == Init => Inv
  <1>1. Init => IsScript(script)
    BY ShellAssumption DEF Init
  <1> QED BY <1>1, FreshInv DEF Init

(* The script does not change, nor what depends on it alone; input once    *)
(* taken stays so.                                                         *)
LEMMA SameScript ==
  ASSUME UNCHANGED inputVars, taken' = taken \/ taken' = TRUE
  PROVE  /\ script' = script /\ seekable' = seekable
         /\ Size' = Size
         /\ OffsetIsSafe' => OffsetIsSafe
         /\ ~ taken' => ~ taken
         /\ IsScript(script)' = IsScript(script)
  BY DEF inputVars, Size, Ends, OffsetIsSafe, Missing

(* Where a line ends, and that reading never goes back.                    *)
LEMMA LineEndIsLater ==
  ASSUME TypeInv, ReadsAt < Size
  PROVE  /\ ReadsAt \in Nat /\ LineEnd \in 0..Size
         /\ ~ Torn => LineEnd = NextLine(ReadsAt)
         /\ bufEnd \leq inOff => ReadsAt \geq rd /\ LineEnd > ReadsAt
  <1>1. IsScript(script) /\ Size \in Nat
    BY SizeIsLargest DEF TypeInv
  <1>2. inOff \in 0..Size /\ bufEnd \in 0..Size /\ rd \in 0..bufEnd
    BY DEF TypeInv
  <1>3. \A p \in Nat : p < Size => NextLine(p) \in 0..Size /\ NextLine(p) > p
    <2> TAKE p \in Nat
    <2> HAVE p < Size
    <2>1. NextLine(p) \in Ends /\ NextLine(p) > p
      BY <1>1, NextLineIsNext
    <2> QED BY <2>1, <1>1, SizeIsLargest
  <1>4. ReadsAt \in Nat
    BY <1>1, <1>2 DEF ReadsAt
  <1>5. CASE ~ Torn
    <2>1. LineEnd = NextLine(ReadsAt)
      BY <1>5 DEF LineEnd, AfterLine
    <2>2. bufEnd \leq inOff => ReadsAt \geq rd
      BY <1>1, <1>2 DEF ReadsAt, Unread
    <2> QED BY <1>3, <1>4, <2>1, <2>2
  <1>6. CASE Torn
    <2>1. Unread > 0 /\ ReadsAt = rd /\ rd < bufEnd
      BY <1>1, <1>2, <1>6 DEF Torn, ReadsAt, Unread
    <2>2. CASE inOff = Size
      <3>1. LineEnd = Size
        BY <1>6, <2>2 DEF LineEnd
      <3> QED BY <1>1, <1>2, <1>4, <1>6, <2>1, <3>1
    <2>3. CASE inOff # Size
      <3>1. LineEnd = NextLine(inOff)
        BY <1>6, <2>3 DEF LineEnd, AfterLine
      <3>2. NextLine(inOff) \in 0..Size /\ NextLine(inOff) > inOff
        BY <1>1, <1>2, <1>3, <2>3
      <3> QED BY <1>1, <1>2, <1>4, <1>6, <2>1, <3>1, <3>2
    <2> QED BY <2>2, <2>3
  <1> QED BY <1>5, <1>6

(* The next line is the first that has not been taken, and it is whole.    *)
LEMMA ReadsNext ==
  ASSUME TypeInv, ReadInv, ReadsAt < Size
  PROVE  ReadsAt = rd /\ rd \in DOMAIN script /\ ~ Torn
  <1>1. Size \in Nat
    BY SizeIsLargest DEF TypeInv
  <1>2. ReadsAt = rd
    BY <1>1 DEF ReadsAt, Unread, ReadInv, TypeInv
  <1>3. ~ Torn
    BY DEF Torn, ReadInv
  <1> QED BY <1>1, <1>2, <1>3 DEF ReadInv, TypeInv

LEMMA ReadLineInv ==
  ASSUME Inv, ReadLine
  PROVE  Inv'
  <1> DEFINE p == ReadsAt
             asked == IF Torn THEN [kind |-> "missing", file |-> NoFile] ELSE JobAt(p)
  <1> USE ShellAssumption
  <1>1. /\ pc = "prompt" /\ p < Size
        /\ rd' = LineEnd /\ cur' = p /\ job' = asked
        /\ UNCHANGED <<inputVars, child, ran, taken, unforked>>
        /\ \/ LineEnd \leq bufEnd /\ ~ Torn /\ UNCHANGED <<inOff, bufEnd>>
           \/ \E e \in LineEnd..Size : inOff' = e /\ bufEnd' = e
    BY DEF ReadLine, Take, history
  <1>2. Begin(asked)
    BY DEF ReadLine, Take
  <1>3. TypeInv /\ IsScript(script)
    BY DEF Inv, TypeInv
  <1>4. /\ script' = script /\ Size' = Size /\ (OffsetIsSafe' => OffsetIsSafe)
        /\ (~ taken' => ~ taken) /\ IsScript(script)'
    BY <1>1, <1>3, SameScript
  <1>5. Size \in Nat
    BY <1>3, SizeIsLargest
  <1>6. p \in Nat /\ LineEnd \in 0..Size
    BY <1>1, <1>3, LineEndIsLater
  <1>7. /\ bufEnd \in 0..Size /\ inOff \in 0..Size /\ rd \in 0..bufEnd
        /\ bufEnd' \in 0..Size /\ inOff' \in 0..Size /\ rd' \in 0..bufEnd'
        /\ (bufEnd \leq inOff => bufEnd' \leq inOff')
        /\ (bufEnd = inOff => bufEnd' = inOff')
    BY <1>1, <1>3, <1>5, <1>6 DEF TypeInv
  <1>8. ChildInv'
    BY <1>1, <1>2 DEF Inv, ChildInv, Begin
  <1>9. TypeInv'
    <2>1. out1' \in Openable \cup {"out", "closed"} /\ saved' \in Openable \cup {"out", "nothing"}
      BY <1>2, <1>3 DEF Begin, TypeInv, Reopened, SaveStdout
    <2> QED BY <2>1, <1>1, <1>2, <1>3, <1>4, <1>6, <1>7 DEF Begin, TypeInv
  <1>10. /\ asked.kind = "exit" => pc' = "exited"
         /\ asked.kind # "exit" => pc' = "fork"
    BY <1>2 DEF Begin
  <1>11. ASSUME OffsetIsSafe PROVE (OrderInv /\ OutInv /\ OutputWhereAsked)'
    <2>1. OrderInv /\ OutInv /\ OutputWhereAsked
      BY <1>11 DEF Inv, SafeInv
    <2>2. p \geq rd /\ rd' > p
      BY <1>1, <1>3, <2>1, LineEndIsLater DEF OrderInv
    <2>3. asked.file # NoFile \/ asked.kind = "run" => p \in DOMAIN script /\ asked.file = script[p].file
      BY DEF JobAt, LineAt
    <2>4. \A i \in DOMAIN ran : ran[i].at \in Nat
      <3>1. PICK R : R = [at : Nat, out : Openable \cup {"out", "closed"}]
        OBVIOUS
      <3>2. ran \in Seq(R) /\ \A r \in R : r.at \in Nat
        BY <1>3, <3>1 DEF TypeInv
      <3>3. \A i \in DOMAIN ran : ran[i] \in R
        BY <3>2, ElementOfSeq, LenProperties
      <3> QED BY <3>2, <3>3
    <2>5. OrderInv'
      <3>1. \A i \in DOMAIN ran : ran[i].at < p /\ ran[i].at < rd'
        BY <1>6, <1>7, <2>1, <2>2, <2>4 DEF OrderInv
      <3>2. EachLineOnce'
        BY <1>1, <2>1 DEF EachLineOnce, OrderInv
      <3> HIDE DEF p, asked
      <3> QED BY <3>1, <3>2, <1>1, <1>4, <1>6, <1>7, <2>1, <2>2, <2>3 DEF OrderInv
    <2>6. OutInv'
      <3> SUFFICES ASSUME \A q \in DOMAIN script : q \leq p => CanOpen(q)
                   PROVE  /\ pc' = "prompt" => out1' = "out"
                          /\ InHand' =>
                               IF job'.file = NoFile THEN out1' = "out"
                               ELSE out1' = job'.file /\ saved' = "out"
        BY <1>1, <1>4 DEF OutInv, CanOpen
      <3>1. \A q \in DOMAIN script : q \leq cur => CanOpen(q)
        <4>1. cur \leq p /\ cur \in Nat
          BY <1>3, <1>6, <1>7, <2>1, <2>2 DEF OrderInv, TypeInv
        <4> QED BY <4>1, <1>3, <1>6 DEF IsScript
      <3>2. out1 = "out"
        BY <3>1, <2>1, <1>1 DEF OutInv
      <3>3. asked.file \in Openable \cup {NoFile}
        BY <2>3, <1>6 DEF CanOpen
      <3> HIDE DEF p, asked
      <3> QED BY <3>2, <3>3, <1>1, <1>2, <1>10 DEF Begin, Reopened, SaveStdout, InHand
    <2>7. OutputWhereAsked'
      BY <2>1, <1>1, <1>4, <1>11 DEF OutputWhereAsked
    <2> QED BY <2>5, <2>6, <2>7
  <1>12. ASSUME OffsetIsSafe, ~ taken PROVE (ReadInv /\ RanInv /\ ExitInv)'
    <2>1. ReadInv /\ RanInv /\ ExitInv
      BY <1>12 DEF Inv, ExactInv
    <2>2. p = rd /\ p \in DOMAIN script /\ ~ Torn
      BY <1>1, <1>3, <2>1, ReadsNext
    <2>3. rd' = NextLine(p)
      BY <1>1, <1>3, <2>2, LineEndIsLater
    <2>4. NextLine(p) \in Ends /\ NextLine(p) > p /\ NextLine(p) \in DOMAIN script \cup {Size}
      BY <1>1, <1>3, <1>6, NextLineIsNext, SizeIsLargest
    <2>5. Taken' = Taken \cup {p} /\ \A q \in Taken : q < p
      <3>1. \A q \in DOMAIN script : q < NextLine(p) <=> q < p \/ q = p
        BY <1>3, <1>6, <2>2, <2>4, SizeIsLargest, NoneBetween DEF IsScript
      <3> QED BY <3>1, <1>4, <2>2, <2>3 DEF Taken
    <2> DEFINE line == script[p]
    <2>6. job'.kind = line.kind /\ job'.file = line.file /\ asked.kind = line.kind
      BY <1>1, <2>2 DEF JobAt, LineAt
    <2>7. /\ line.kind = "exit" => pc' = "exited"
          /\ line.kind # "exit" => pc' = "fork"
      BY <1>10, <2>6
    <2>8. \A q \in Taken' : q \leq p
      BY <2>5, <1>6, <1>3 DEF Taken, IsScript
    <2>9. ReadInv'
      BY <1>1, <1>4, <1>7, <2>1, <2>3, <2>4, <2>5, <2>6, <2>8 DEF ReadInv
    <2>10. RanInv'
      <3>1. ~ Pending /\ p \notin Taken
        BY <1>1, <2>5, <1>6 DEF Pending
      <3>2. (Pending' <=> line.kind # "exit") /\ (pc' = "exited" \/ Pending')
        BY <2>7, <1>1 DEF Pending
      <3>3. \A i \in DOMAIN ran : ran[i].at \in Taken /\ ran[i].at # p
        BY <2>1, <3>1 DEF RanInv
      <3>4. unforked \subseteq Taken /\ p \notin unforked
        BY <2>1, <3>1 DEF RanInv
      <3>5. {ran[i].at : i \in DOMAIN ran} = {q \in Taken : script[q].kind = "run"} \ unforked
        BY <2>1, <3>1 DEF RanInv
      <3>6. {q \in Taken' : script[q].kind = "run" /\ ~ (Pending' /\ q = p)}
              = {q \in Taken : script[q].kind = "run"}
        BY <3>1, <3>2, <2>5
      <3> HIDE DEF p
      <3>7. {ran'[i].at : i \in DOMAIN ran'} =
              {q \in Taken' : script'[q].kind = "run" /\ ~ (Pending' /\ q = cur')} \ unforked'
        BY <3>5, <3>6, <1>1, <1>4
      <3> QED BY <3>3, <3>4, <3>7, <1>1, <2>5 DEF RanInv
    <2>11. ExitInv'
      <3>1. \A q \in Taken : script[q].kind # "exit"
        BY <1>1, <2>1 DEF ExitInv
      <3> QED BY <3>1, <1>1, <1>4, <2>5, <2>7, <2>8 DEF ExitInv
    <2> QED BY <2>9, <2>10, <2>11
  <1> QED BY <1>4, <1>8, <1>9, <1>11, <1>12 DEF Inv, SafeInv, ExactInv

(* A step that takes no line keeps what has been taken.                    *)
LEMMA SameTaken ==
  ASSUME Inv, UNCHANGED <<inputVars, rd, taken>>
  PROVE  /\ script' = script /\ Size' = Size /\ (OffsetIsSafe' => OffsetIsSafe)
         /\ IsScript(script)' /\ Taken' = Taken
  BY SameScript DEF Inv, TypeInv, Taken

(* At the end of the input every line has been taken.                      *)
LEMMA ReadEofInv ==
  ASSUME Inv, ReadEof
  PROVE  Inv'
  <1>1. /\ pc = "prompt" /\ Unread = 0 /\ inOff = Size /\ pc' = "exited"
        /\ UNCHANGED <<inputVars, inOff, rd, bufEnd, cur, job, out1, saved, unforked, child, ran, taken>>
    BY DEF ReadEof, bufferVars, outputVars, history
  <1>2. /\ script' = script /\ Size' = Size /\ (OffsetIsSafe' => OffsetIsSafe)
        /\ IsScript(script)' /\ Taken' = Taken
    BY <1>1, SameTaken
  <1>3. ChildInv' /\ TypeInv'
    BY <1>1, <1>2 DEF Inv, ChildInv, TypeInv
  <1>4. ASSUME OffsetIsSafe PROVE (OrderInv /\ OutInv /\ OutputWhereAsked)'
    BY <1>1, <1>2, <1>4 DEF Inv, SafeInv, OrderInv, OutInv, OutputWhereAsked, EachLineOnce, InHand,
       Pending
  <1>5. ASSUME OffsetIsSafe, ~ taken PROVE (ReadInv /\ RanInv /\ ExitInv)'
    <2>1. ReadInv /\ RanInv /\ ExitInv
      BY <1>5 DEF Inv, ExactInv
    <2>2. rd = Size
      <3>1. TypeInv /\ Size \in Nat
        BY SizeIsLargest DEF Inv, TypeInv
      <3> QED BY <3>1, <1>1, <2>1 DEF Unread, ReadInv, TypeInv
    <2>3. ReadInv'
      BY <1>1, <1>2, <2>1 DEF ReadInv, InHand
    <2>4. RanInv'
      BY <1>1, <1>2, <2>1 DEF RanInv, Pending
    <2>5. ExitInv'
      BY <1>1, <1>2, <2>1, <2>2 DEF ExitInv
    <2> QED BY <2>3, <2>4, <2>5
  <1> QED BY <1>1, <1>2, <1>3, <1>4, <1>5 DEF Inv, SafeInv, ExactInv

(* The line in hand goes to a child, or is refused.                        *)
LEMMA ForkInv ==
  ASSUME Inv, Fork \/ ForkFails
  PROVE  Inv'
  <1>1. /\ pc = "fork" /\ pc' = "wait"
        /\ UNCHANGED <<inputVars, inOff, rd, bufEnd, cur, job, out1, saved, ran, taken>>
        /\ \/ child' = "forked" /\ unforked' = unforked
           \/ child' = child /\ unforked' = unforked \cup {cur}
    BY DEF Fork, ForkFails, bufferVars, outputVars, history
  <1>2. /\ script' = script /\ Size' = Size /\ (OffsetIsSafe' => OffsetIsSafe)
        /\ IsScript(script)' /\ Taken' = Taken
    BY <1>1, SameTaken
  <1>3. ChildInv' /\ TypeInv'
    BY <1>1, <1>2 DEF Inv, ChildInv, TypeInv
  <1>4. child = "none" /\ Pending
    BY <1>1 DEF Inv, ChildInv, Pending
  <1>5. ASSUME OffsetIsSafe PROVE (OrderInv /\ OutInv /\ OutputWhereAsked)'
    <2>1. OrderInv /\ OutInv /\ OutputWhereAsked
      BY <1>5 DEF Inv, SafeInv
    <2>2. OrderInv'
      BY <1>1, <1>2, <1>4, <2>1 DEF OrderInv, EachLineOnce, InHand, Pending
    <2>3. OutInv'
      BY <1>1, <1>2, <2>1 DEF OutInv, CanOpen, InHand
    <2>4. OutputWhereAsked'
      BY <1>1, <1>2, <1>5, <2>1 DEF OutputWhereAsked
    <2> QED BY <2>2, <2>3, <2>4
  <1>6. ASSUME OffsetIsSafe, ~ taken PROVE (ReadInv /\ RanInv /\ ExitInv)'
    <2>1. ReadInv /\ RanInv /\ ExitInv
      BY <1>6 DEF Inv, ExactInv
    <2>2. ReadInv'
      BY <1>1, <1>2, <2>1 DEF ReadInv, InHand
    <2>3. RanInv'
      <3>1. CASE child' = "forked" /\ unforked' = unforked
        <4>1. Pending'
          BY <1>1, <3>1 DEF Pending
        <4> QED BY <4>1, <1>1, <1>2, <1>4, <2>1, <3>1 DEF RanInv
      <3>2. CASE child' = child /\ unforked' = unforked \cup {cur}
        <4>1. ~ Pending'
          BY <1>1, <1>4, <3>2 DEF Pending
        <4>2. cur \in Taken
          BY <1>1, <2>1 DEF ReadInv, InHand
        <4>3. {p \in Taken : script[p].kind = "run" /\ ~ (Pending /\ p = cur)} \ unforked
                = {p \in Taken' : script'[p].kind = "run" /\ ~ (Pending' /\ p = cur')} \ unforked'
          BY <1>1, <1>2, <1>4, <3>2, <4>1
        <4> QED BY <4>1, <4>2, <4>3, <1>1, <1>2, <2>1, <3>2 DEF RanInv
      <3> QED BY <3>1, <3>2, <1>1
    <2>4. ExitInv'
      BY <1>1, <1>2, <2>1 DEF ExitInv
    <2> QED BY <2>2, <2>3, <2>4
  <1> QED BY <1>1, <1>2, <1>3, <1>5, <1>6 DEF Inv, SafeInv, ExactInv

(* With the child gone the shell is where it was before the line.          *)
LEMMA WaitInv ==
  ASSUME Inv, Wait
  PROVE  Inv'
  <1> USE ShellAssumption
  <1>1. /\ pc = "wait" /\ child \in {"none", "zombie"} /\ child' = "none" /\ pc' = "prompt"
        /\ UNCHANGED <<inputVars, inOff, rd, bufEnd, cur, job, unforked, ran, taken>>
        /\ IF job.file = NoFile THEN UNCHANGED <<out1, saved>>
           ELSE out1' = Restored /\ saved' = "nothing"
    BY DEF Wait, AfterWait, Reapable, bufferVars, outputVars, history
  <1>2. /\ script' = script /\ Size' = Size /\ (OffsetIsSafe' => OffsetIsSafe)
        /\ IsScript(script)' /\ Taken' = Taken
    BY <1>1, SameTaken
  <1>3. ChildInv' /\ TypeInv'
    BY <1>1, <1>2 DEF Inv, ChildInv, TypeInv, Restored
  <1>4. ~ Pending /\ ~ Pending' /\ InHand /\ ~ InHand'
    BY <1>1 DEF Pending, InHand
  <1>5. ASSUME OffsetIsSafe PROVE (OrderInv /\ OutInv /\ OutputWhereAsked)'
    <2>1. OrderInv /\ OutInv /\ OutputWhereAsked
      BY <1>5 DEF Inv, SafeInv
    <2>2. OrderInv'
      BY <1>1, <1>2, <1>4, <2>1 DEF OrderInv, EachLineOnce
    <2>3. OutputWhereAsked'
      BY <1>1, <1>2, <1>5, <2>1 DEF OutputWhereAsked
    <2>4. OutInv'
      <3> SUFFICES ASSUME \A q \in DOMAIN script : q \leq cur => CanOpen(q)
                   PROVE  out1' = "out"
        BY <1>1, <1>2, <1>4 DEF OutInv, CanOpen
      <3>1. IF job.file = NoFile THEN out1 = "out" ELSE out1 = job.file /\ saved = "out"
        BY <1>4, <2>1 DEF OutInv
      <3>2. job.file \in Openable \cup {NoFile}
        <4>1. CASE job.file # NoFile
          <5>1. cur \in DOMAIN script /\ job.file = script[cur].file
            BY <4>1, <1>4, <2>1 DEF OrderInv
          <5>2. cur \leq cur
            BY DEF Inv, TypeInv
          <5> QED BY <5>1, <5>2 DEF CanOpen
        <4> QED BY <4>1
      <3> QED BY <3>1, <3>2, <1>1 DEF Restored
    <2> QED BY <2>2, <2>3, <2>4
  <1>6. ASSUME OffsetIsSafe, ~ taken PROVE (ReadInv /\ RanInv /\ ExitInv)'
    <2>1. ReadInv /\ RanInv /\ ExitInv
      BY <1>6 DEF Inv, ExactInv
    <2>2. ReadInv' /\ ExitInv'
      BY <1>1, <1>2, <1>4, <2>1 DEF ReadInv, ExitInv
    <2>3. RanInv'
      BY <1>1, <1>2, <1>4, <2>1 DEF RanInv
    <2> QED BY <2>2, <2>3
  <1> QED BY <1>1, <1>2, <1>3, <1>5, <1>6 DEF Inv, SafeInv, ExactInv

(* The program of the line in hand is the last to have run.                *)
LEMMA ExecInv ==
  ASSUME Inv, Exec
  PROVE  Inv'
  <1> DEFINE new == [at |-> cur, out |-> out1]
  <1>1. /\ child = "forked" /\ job.kind = "run" /\ child' = "running"
        /\ ran' = Append(ran, new)
        /\ UNCHANGED <<inputVars, inOff, rd, bufEnd, pc, cur, job, out1, saved, unforked, taken>>
    BY DEF Exec, shellVars, bufferVars, outputVars
  <1>2. /\ script' = script /\ Size' = Size /\ (OffsetIsSafe' => OffsetIsSafe)
        /\ IsScript(script)' /\ Taken' = Taken
    BY <1>1, SameTaken
  <1>3. pc = "wait" /\ Pending /\ ~ Pending' /\ InHand /\ InHand'
    BY <1>1 DEF Inv, ChildInv, Pending, InHand
  <1>4. TypeInv
    BY DEF Inv
  <1>5. new \in [at : Nat, out : Openable \cup {"out", "closed"}]
    BY <1>4 DEF TypeInv
  <1>6. /\ DOMAIN ran = 1..Len(ran) /\ Len(ran) \in Nat
        /\ DOMAIN ran' = 1..(Len(ran) + 1)
        /\ \A i \in DOMAIN ran : ran'[i] = ran[i]
        /\ ran'[Len(ran) + 1] = new
    <2> HIDE DEF new
    <2> QED BY <1>1, <1>4, <1>5, AppendProperties DEF TypeInv
  <1>7. ChildInv' /\ TypeInv'
    <2>1. ran' \in Seq([at : Nat, out : Openable \cup {"out", "closed"}])
      <3> HIDE DEF new
      <3> QED BY <1>1, <1>4, <1>5, AppendProperties DEF TypeInv
    <2> QED BY <2>1, <1>1, <1>2, <1>3 DEF Inv, ChildInv, TypeInv
  <1>8. ASSUME OffsetIsSafe PROVE (OrderInv /\ OutInv /\ OutputWhereAsked)'
    <2>1. OrderInv /\ OutInv /\ OutputWhereAsked
      BY <1>8 DEF Inv, SafeInv
    <2>2. /\ cur \in DOMAIN script /\ script[cur].file = job.file
          /\ cur < rd /\ \A i \in DOMAIN ran : ran[i].at < cur /\ ran[i].at < rd
      BY <1>1, <1>3, <2>1 DEF OrderInv
    <2>3. EachLineOnce'
      <3> SUFFICES ASSUME NEW i \in DOMAIN ran', NEW j \in DOMAIN ran', i < j
                   PROVE  ran'[i].at < ran'[j].at
        BY DEF EachLineOnce
      <3>1. i \in DOMAIN ran
        BY <1>6
      <3>2. CASE j \in DOMAIN ran
        BY <3>1, <3>2, <1>6, <2>1 DEF OrderInv, EachLineOnce
      <3>3. CASE j = Len(ran) + 1
        BY <3>1, <3>3, <1>6, <2>2
      <3> QED BY <3>2, <3>3, <1>6
    <2>4. OrderInv'
      <3>1. \A i \in DOMAIN ran' : ran'[i].at < rd
        BY <1>6, <2>2
      <3> QED BY <3>1, <2>3, <1>1, <1>2, <1>3, <2>1 DEF OrderInv
    <2>5. OutInv'
      BY <1>1, <1>2, <1>3, <2>1 DEF OutInv, CanOpen
    <2>6. OutputWhereAsked'
      <3> SUFFICES ASSUME NEW i \in DOMAIN ran',
                          \A p \in DOMAIN script : p \leq ran'[i].at => CanOpen(p)
                   PROVE  LET asked == script[ran'[i].at].file
                          IN  ran'[i].out = IF asked = NoFile THEN "out" ELSE asked
        BY <1>2 DEF OutputWhereAsked, CanOpen
      <3>1. CASE i \in DOMAIN ran
        BY <3>1, <1>6, <1>8, <2>1 DEF OutputWhereAsked, CanOpen
      <3>2. CASE i = Len(ran) + 1
        <4>1. ran'[i].at = cur /\ ran'[i].out = out1
          BY <3>2, <1>6
        <4>2. \A p \in DOMAIN script : p \leq cur => CanOpen(p)
          BY <4>1
        <4>3. IF job.file = NoFile THEN out1 = "out" ELSE out1 = job.file
          BY <4>2, <1>3, <2>1 DEF OutInv
        <4> QED BY <4>1, <4>3, <2>2
      <3> QED BY <3>1, <3>2, <1>6
    <2> QED BY <2>4, <2>5, <2>6
  <1>9. ASSUME OffsetIsSafe, ~ taken PROVE (ReadInv /\ RanInv /\ ExitInv)'
    <2>1. ReadInv /\ RanInv /\ ExitInv
      BY <1>9 DEF Inv, ExactInv
    <2>2. cur \in Taken /\ script[cur].kind = "run"
      BY <1>1, <1>3, <2>1 DEF ReadInv
    <2>3. {ran'[i].at : i \in DOMAIN ran'} = {ran[i].at : i \in DOMAIN ran} \cup {cur}
      <3>1. ASSUME NEW x \in {ran'[i].at : i \in DOMAIN ran'}
            PROVE  x \in {ran[i].at : i \in DOMAIN ran} \cup {cur}
        BY <1>6
      <3>2. ASSUME NEW x \in {ran[i].at : i \in DOMAIN ran} \cup {cur}
            PROVE  x \in {ran'[i].at : i \in DOMAIN ran'}
        <4>1. CASE x = cur
          <5>1. Len(ran) + 1 \in DOMAIN ran' /\ ran'[Len(ran) + 1].at = cur
            BY <1>6
          <5> QED BY <5>1, <4>1
        <4>2. CASE x \in {ran[i].at : i \in DOMAIN ran}
          BY <4>2, <1>6
        <4> QED BY <4>1, <4>2
      <3> QED BY <3>1, <3>2
    <2>4. RanInv'
      <3>1. /\ unforked \subseteq Taken /\ cur \notin unforked
            /\ {ran[i].at : i \in DOMAIN ran} =
                 {p \in Taken : script[p].kind = "run" /\ p # cur} \ unforked
        BY <1>3, <2>1 DEF RanInv
      <3>2. {ran'[i].at : i \in DOMAIN ran'} = {p \in Taken : script[p].kind = "run"} \ unforked
        BY <3>1, <2>2, <2>3
      <3>3. \A i \in DOMAIN ran' : ran'[i].at \in Taken
        BY <3>2
      <3> QED BY <3>1, <3>2, <3>3, <1>1, <1>2, <1>3 DEF RanInv
    <2>5. ReadInv' /\ ExitInv'
      BY <1>1, <1>2, <1>3, <2>1 DEF ReadInv, ExitInv
    <2> QED BY <2>4, <2>5
  <1> QED BY <1>1, <1>2, <1>7, <1>8, <1>9 DEF Inv, SafeInv, ExactInv

(* A child that ends, or is killed, takes nothing with it but its program, *)
(* as long as it does not give back what was read ahead.                   *)
LEMMA ChildEndsInv ==
  ASSUME Inv, ExecFails \/ ExecBlank \/ Finish \/ Interrupt
  PROVE  Inv'
  <1>1. /\ UNCHANGED <<inputVars, rd, bufEnd, pc, cur, job, out1, saved, ran, unforked, taken>>
        /\ \/ child = "forked" /\ job.kind # "run" /\ child' = "zombie"
           \/ child = "running" /\ child' = "zombie"
           \/ child' = child
        /\ \/ inOff' = inOff
           \/ child = "forked" /\ job.kind = "missing" /\ GivesBack /\ inOff' = inOff - Unread
    BY DEF ExecFails, ExecBlank, Finish, Interrupt, shellVars, bufferVars, outputVars, history
  <1>2. TypeInv /\ IsScript(script) /\ ChildInv
    BY DEF Inv, TypeInv
  <1>3. /\ script' = script /\ Size' = Size /\ (OffsetIsSafe' => OffsetIsSafe)
        /\ IsScript(script)' /\ Taken' = Taken
    <2>1. script' = script /\ Size' = Size /\ (OffsetIsSafe' => OffsetIsSafe) /\ IsScript(script)'
      BY <1>1, <1>2, SameScript
    <2> QED BY <2>1, <1>1 DEF Taken
  <1>4. inOff' \in 0..Size
    <2>1. Size \in Nat
      BY <1>2, SizeIsLargest
    <2> QED BY <2>1, <1>1, <1>2 DEF TypeInv, GivesBack, Unread
  <1>5. ChildInv'
    BY <1>1, <1>2 DEF ChildInv
  <1>6. TypeInv'
    BY <1>1, <1>2, <1>3, <1>4 DEF TypeInv
  <1>7. ASSUME OffsetIsSafe PROVE inOff' = inOff
    <2> SUFFICES ASSUME child = "forked", job.kind = "missing", GivesBack PROVE FALSE
      BY <1>1
    <2>1. Missing = {} /\ ~ taken
      BY <1>7 DEF OffsetIsSafe, GivesBack
    <2>2. ReadInv /\ InHand
      BY <1>2, <1>7, <2>1 DEF Inv, ExactInv, ChildInv, InHand
    <2>3. cur \in DOMAIN script /\ script[cur].kind = "missing"
      BY <2>2 DEF ReadInv, Taken
    <2> QED BY <2>1, <2>3 DEF Missing
  <1>8. ASSUME OffsetIsSafe PROVE (OrderInv /\ OutInv /\ OutputWhereAsked)'
    <2>1. OrderInv /\ OutInv /\ OutputWhereAsked
      BY <1>8 DEF Inv, SafeInv
    <2>2. InHand' <=> InHand
      BY <1>1 DEF InHand
    <2>3. Pending' => Pending
      BY <1>1, <1>2 DEF Pending, ChildInv
    <2>4. OrderInv'
      BY <1>1, <1>3, <1>7, <1>8, <2>1, <2>2, <2>3 DEF OrderInv, EachLineOnce
    <2>5. OutInv'
      BY <1>1, <1>3, <2>1, <2>2 DEF OutInv, CanOpen
    <2>6. OutputWhereAsked'
      BY <1>1, <1>3, <1>8, <2>1 DEF OutputWhereAsked
    <2> QED BY <2>4, <2>5, <2>6
  <1>9. ASSUME OffsetIsSafe, ~ taken PROVE (ReadInv /\ RanInv /\ ExitInv)'
    <2>1. ReadInv /\ RanInv /\ ExitInv
      BY <1>9 DEF Inv, ExactInv
    <2>2. RanInv'
      <3>1. CASE Pending' <=> Pending
        BY <3>1, <1>1, <1>3, <2>1 DEF RanInv
      <3>2. CASE ~ (Pending' <=> Pending)
        <4>1. Pending /\ ~ Pending' /\ job.kind # "run"
          BY <1>1, <1>2, <3>2 DEF Pending, ChildInv
        <4>2. script[cur].kind # "run"
          BY <4>1, <2>1 DEF Pending, ReadInv, InHand
        <4>3. {p \in Taken : script[p].kind = "run" /\ ~ (Pending /\ p = cur)}
                = {p \in Taken : script[p].kind = "run"}
          BY <4>2
        <4> QED BY <4>1, <4>3, <1>1, <1>3, <2>1 DEF RanInv
      <3> QED BY <3>1, <3>2
    <2>3. ReadInv'
      BY <1>1, <1>3, <1>7, <1>9, <2>1 DEF ReadInv, InHand
    <2>4. ExitInv'
      BY <1>1, <1>3, <2>1 DEF ExitInv
    <2> QED BY <2>2, <2>3, <2>4
  <1> QED BY <1>1, <1>3, <1>5, <1>6, <1>8, <1>9 DEF Inv, SafeInv, ExactInv

(* What a program reads is skipped, and nothing else.                      *)
LEMMA TakesInputInv ==
  ASSUME Inv, NEW e, TakesInput(e)
  PROVE  Inv'
  <1>1. /\ child = "running" /\ e \in (inOff + 1)..Size /\ inOff' = e /\ taken' = TRUE
        /\ UNCHANGED <<inputVars, rd, bufEnd, pc, cur, job, out1, saved, ran, unforked, child>>
    BY DEF TakesInput, shellVars, bufferVars, outputVars
  <1>2. TypeInv /\ IsScript(script) /\ ChildInv
    BY DEF Inv, TypeInv
  <1>3. /\ script' = script /\ Size' = Size /\ (OffsetIsSafe' => OffsetIsSafe)
        /\ IsScript(script)'
    BY <1>1, <1>2, SameScript
  <1>4. inOff' \in 0..Size /\ inOff' \geq inOff
    <2>1. Size \in Nat
      BY <1>2, SizeIsLargest
    <2> QED BY <2>1, <1>1, <1>2 DEF TypeInv
  <1>5. ChildInv' /\ TypeInv'
    BY <1>1, <1>2, <1>3, <1>4 DEF ChildInv, TypeInv
  <1>6. ASSUME OffsetIsSafe PROVE (OrderInv /\ OutInv /\ OutputWhereAsked)'
    <2>1. OrderInv /\ OutInv /\ OutputWhereAsked
      BY <1>6 DEF Inv, SafeInv
    <2>2. (InHand' <=> InHand) /\ (Pending' <=> Pending)
      BY <1>1 DEF InHand, Pending
    <2>3. bufEnd' \leq inOff'
      BY <1>1, <1>2, <1>4, <2>1 DEF OrderInv, TypeInv
    <2>4. OrderInv'
      BY <1>1, <1>3, <2>1, <2>2, <2>3 DEF OrderInv, EachLineOnce
    <2>5. OutInv'
      BY <1>1, <1>3, <2>1, <2>2 DEF OutInv, CanOpen
    <2>6. OutputWhereAsked'
      BY <1>1, <1>3, <1>6, <2>1 DEF OutputWhereAsked
    <2> QED BY <2>4, <2>5, <2>6
  <1> QED BY <1>1, <1>3, <1>5, <1>6 DEF Inv, SafeInv, ExactInv

LEMMA SameInv ==
  ASSUME Inv, UNCHANGED vars
  PROVE  Inv'
  <1>1. UNCHANGED <<inputVars, inOff, rd, bufEnd, pc, cur, job, out1, saved, unforked, child, ran, taken>>
    BY DEF vars, shellVars, bufferVars, outputVars, history
  <1>2. /\ script' = script /\ Size' = Size /\ (OffsetIsSafe' => OffsetIsSafe)
        /\ IsScript(script)' /\ Taken' = Taken
    BY <1>1, SameTaken
  <1>3. ChildInv' /\ TypeInv'
    BY <1>1, <1>2 DEF Inv, ChildInv, TypeInv
  <1>4. (InHand' <=> InHand) /\ (Pending' <=> Pending)
    BY <1>1 DEF InHand, Pending
  <1>5. ASSUME OffsetIsSafe PROVE (OrderInv /\ OutInv /\ OutputWhereAsked)'
    BY <1>1, <1>2, <1>4, <1>5 DEF Inv, SafeInv, OrderInv, EachLineOnce, OutInv, CanOpen,
       OutputWhereAsked
  <1>6. ASSUME OffsetIsSafe, ~ taken PROVE (ReadInv /\ RanInv /\ ExitInv)'
    BY <1>1, <1>2, <1>4, <1>6 DEF Inv, ExactInv, ReadInv, RanInv, ExitInv
  <1> QED BY <1>1, <1>2, <1>3, <1>5, <1>6 DEF Inv, SafeInv, ExactInv

LEMMA NextInv == Inv /\ [Next]_vars => Inv'
  <1> SUFFICES ASSUME Inv, [Next]_vars PROVE Inv'
    OBVIOUS
  <1>1. CASE ReadLine
    BY <1>1, ReadLineInv
  <1>2. CASE ReadEof
    BY <1>2, ReadEofInv
  <1>3. CASE Fork \/ ForkFails
    BY <1>3, ForkInv
  <1>4. CASE Wait
    BY <1>4, WaitInv
  <1>5. CASE Exec
    BY <1>5, ExecInv
  <1>6. CASE ExecFails \/ ExecBlank \/ Finish \/ Interrupt
    BY <1>6, ChildEndsInv
  <1>7. CASE \E e \in 0..Size : TakesInput(e)
    BY <1>7, TakesInputInv
  <1>8. CASE Exited \/ UNCHANGED vars
    BY <1>8, SameInv DEF Exited
  <1> QED BY <1>1, <1>2, <1>3, <1>4, <1>5, <1>6, <1>7, <1>8 DEF Next, ShellStep, ChildStep

LEMMA AlwaysInv == Spec => []Inv
  BY InitInv, NextInv, PTL DEF Spec

-----------------------------------------------------------------------------
(* No line is read, and the shell does not leave, with a child still about *)
(* (3600sh.c:126, 156).                                                    *)
THEOREM NoChildIsLeft == Spec => []NoChildLeft
  <1>1. Inv => NoChildLeft
    BY DEF Inv, ChildInv, NoChildLeft
  <1> QED BY <1>1, AlwaysInv, PTL

(* Where no child moves the offset of the input back, no line is run twice *)
(* or out of order, however many fail, and whatever the programs read of   *)
(* it (3600sh.c:97, 119-122).                                              *)
THEOREM InOrder == Spec => []RunsInOrder
  <1>1. Inv => RunsInOrder
    BY DEF Inv, SafeInv, OrderInv, RunsInOrder
  <1> QED BY <1>1, AlwaysInv, PTL

(* And the output of each is where it asks, while every file so far could  *)
(* be opened (3600sh.c:133-162).                                           *)
THEOREM OutputIsWhereAsked == Spec => []OutputWhereAsked
  <1>1. Inv => OutputWhereAsked
    BY DEF Inv, SafeInv, OutputWhereAsked
  <1> QED BY <1>1, AlwaysInv, PTL

(* When the shell is gone, all that was taken is what should have run.     *)
LEMMA ExactOnExit == Inv => RunsExactlyTheScript
  <1> SUFFICES ASSUME Inv, OffsetIsSafe, ~ taken, pc = "exited"
               PROVE  {ran[i].at : i \in DOMAIN ran} = Wanted \ unforked
    BY DEF RunsExactlyTheScript
  <1>1. ReadInv /\ RanInv /\ ExitInv /\ IsScript(script)
    BY DEF Inv, ExactInv, TypeInv
  <1>2. {ran[i].at : i \in DOMAIN ran} = {p \in Taken : script[p].kind = "run"} \ unforked
    BY <1>1 DEF RanInv, Pending
  <1>3. CASE rd = Size /\ \A q \in Taken : script[q].kind # "exit"
    <2>1. Taken = DOMAIN script
      BY <1>1, <1>3, SizeIsLargest DEF Taken
    <2> QED BY <2>1, <1>2, <1>3 DEF Wanted
  <1>4. CASE cur \in Taken /\ script[cur].kind = "exit" /\ \A p \in Taken : p \leq cur
    <2>1. cur \in DOMAIN script /\ cur \in Nat
      BY <1>4, <1>1 DEF Taken, IsScript
    <2>2. \A p \in Taken : script[p].kind = "run" => p < cur
      BY <1>4, <2>1, <1>1 DEF Taken, IsScript
    <2>3. \A q \in DOMAIN script : script[q].kind = "exit" => q \geq cur
      <3> TAKE q \in DOMAIN script
      <3>1. CASE q \in Taken
        BY <3>1, <1>1, <2>1 DEF ExitInv
      <3>2. CASE q \notin Taken
        BY <3>2, <1>4, <2>1, <1>1, SizeIsLargest DEF Taken, ReadInv, IsScript
      <3> QED BY <3>1, <3>2
    <2>4. \A p \in DOMAIN script : p < cur => p \in Taken
      BY <1>4, <1>1, SizeIsLargest DEF Taken, ReadInv, IsScript
    <2>5. Wanted = {p \in Taken : script[p].kind = "run"}
      <3>1. ASSUME NEW p \in Wanted PROVE p \in Taken /\ script[p].kind = "run"
        BY <1>4, <2>1, <2>4 DEF Wanted
      <3>2. ASSUME NEW p \in Taken, script[p].kind = "run" PROVE p \in Wanted
        BY <3>2, <1>1, <2>1, <2>2, <2>3 DEF Wanted, Taken, IsScript
      <3> QED BY <3>1, <3>2 DEF Wanted
    <2> QED BY <2>5, <1>2
  <1> QED BY <1>1, <1>3, <1>4 DEF ExitInv

(* When the shell is gone, what has run is all that should have, but for   *)
(* what fork() refused, if no program has read any of the input            *)
(* (3600sh.c:33-61, 112-126).                                              *)
THEOREM ExactlyTheScript == Spec => []RunsExactlyTheScript
  BY ExactOnExit, AlwaysInv, PTL
=============================================================================
