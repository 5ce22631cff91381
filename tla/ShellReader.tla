---------------------------- MODULE ShellReader ----------------------------
(***************************************************************************)
(* project1: how 3600sh turns a line of its input into a job.  fgets()     *)
(* reads the line into the one buffer cmd, getword() cuts words out of cmd *)
(* in place, and main() looks for an output redirection among the words.   *)
(*                                                                         *)
(* cmd outlives the line: what the previous lines left in it is there      *)
(* behind the terminator of the current one.  A word may be the value of a *)
(* variable, whatever that is, and the name of an output file is appended  *)
(* to a block of memory that nobody has cleared.  ShellSession reads the   *)
(* lines and runs the jobs.                                                *)
(***************************************************************************)
EXTENDS Naturals, Sequences, FiniteSets, SequencesExt

CONSTANTS
  MaxLine,    \* MAXLINE: size of cmd
  Lines,      \* the lines the input may hold, as sequences of characters
  Env,        \* the environment: from names to values, empty ones included
  Remains     \* what the block of malloc() may hold before its first zero

NUL == "nul"
NL == "nl"
BLANK == " "
TAB == "tab"
BACKSLASH == "\\"

(* fgets() cuts longer lines; the last one may lack its newline.  getenv() *)
(* knows no variable without a name.                                       *)
ASSUME ReaderAssumption ==
  /\ MaxLine \in Nat \ {0}
  /\ \A l \in Lines : l \in Seq(STRING) /\ Len(l) \in 1..(MaxLine - 2)
  /\ DOMAIN Env \subseteq Seq(STRING) \ {<< >>}
  /\ \A v \in DOMAIN Env : Env[v] \in Seq(STRING)
  /\ << >> \in Remains /\ Remains \subseteq Seq(STRING)

VARIABLES
  cmd,        \* the buffer, cell by cell
  line,       \* the line last read
  argv,       \* the words found: childargv up to its null word
  job,        \* what main() makes of them
  clean       \* history: did every block begin with a zero?

vars == <<cmd, line, argv, job, clean>>

Cells == 0..(MaxLine - 1)

-----------------------------------------------------------------------------
(* getword(), from cell p on: leading blanks, tabs and backslashes are     *)
(* skipped, the word ends before a terminator, a newline, a blank or a #.  *)
FirstFrom(p, Found(_)) ==
  IF \E i \in Cells : i \geq p /\ Found(i)
  THEN CHOOSE i \in Cells : i \geq p /\ Found(i) /\ \A j \in p..(i - 1) : ~ Found(j)
  ELSE MaxLine

WordBegin(buf, p) == FirstFrom(p, LAMBDA i : buf[i] \notin {BLANK, TAB, BACKSLASH})

(* Mutants: a word does not stop at the terminator, or at a blank.         *)
WordEndPastNul(buf, p) == FirstFrom(WordBegin(buf, p), LAMBDA i : buf[i] \in {NL, BLANK, "#"})

WordEndPastBlank(buf, p) == FirstFrom(WordBegin(buf, p), LAMBDA i : buf[i] \in {NUL, NL, "#"})

WordEnd(buf, p) == FirstFrom(WordBegin(buf, p), LAMBDA i : buf[i] \in {NUL, NL, BLANK, "#"})

(* Mutant: getenv()'s null is not replaced by a word.                      *)
ExpandToNothing(word) ==
  IF word[1] # "$" THEN word
  ELSE IF Tail(word) \in DOMAIN Env THEN Env[Tail(word)] ELSE << >>

(* getenv(): the value may be empty, "exit" or ">", and stays one word.    *)
Expand(word) ==
  IF word[1] # "$" THEN word
  ELSE IF Tail(word) \in DOMAIN Env THEN Env[Tail(word)] ELSE <<"UNDEFINED">>

Word(buf, p) ==
  Expand([i \in 1..(WordEnd(buf, p) - WordBegin(buf, p)) |-> buf[WordBegin(buf, p) + i - 1]])

(* The loop goes on behind the cell that was cut off.                      *)
NextWord(buf, p) == WordEnd(buf, p) + 1

(* getargs()'s loop from cell p on: the words and the cells where each one *)
(* is cut off, until getword() finds an empty one.                         *)
Words(buf) ==
  LET from[p \in 0..(MaxLine + 1)] ==
        IF WordEnd(buf, p) = WordBegin(buf, p) THEN [words |-> << >>, cuts |-> {}]
        ELSE LET rest == from[NextWord(buf, p)]
             IN  [words |-> <<Word(buf, p)>> \o rest.words,
                  cuts |-> {WordEnd(buf, p)} \cup rest.cuts]
  IN  from[0]

(* fgets(cmd, MAXLINE, stdin): the line and a terminator, the rest stays.  *)
Fgets(buf, l) ==
  [i \in Cells |-> IF i < Len(l) THEN l[i + 1] ELSE IF i = Len(l) THEN NUL ELSE buf[i]]

-----------------------------------------------------------------------------
(* main()'s redirection.                                                   *)

Redirect == <<">">>

(* isChar(), findChar(): the place of the first >, counting from 0.        *)
RedirectAt(words) == (CHOOSE i \in DOMAIN words : words[i] = Redirect
                                /\ \A j \in 1..(i - 1) : words[j] # Redirect) - 1

(* argumentParser_after(): every later word, run together, is appended to  *)
(* what the block holds.                                                   *)
FileName(words, remains) == remains \o FlattenSeq(SubSeq(words, RedirectAt(words) + 2, Len(words)))

(* Mutant: one shift too few.                                              *)
ShiftsTooFew(pos) == pos

(* The loops move the words from the > on down one place, pos + 1 times;   *)
(* the null word at the end moves down with them.                          *)
Shifts(pos) == pos + 1

ShiftedArgs(words) ==
  LET pos == RedirectAt(words)
      keep == Len(words) - Shifts(pos)
  IN  [i \in 1..(IF keep > pos THEN keep ELSE pos) |->
         IF i \leq pos THEN words[i] ELSE words[i + Shifts(pos)]]

Job(words, remains) ==
  IF words # << >> /\ words[1] = <<"exit">> THEN [kind |-> "exit"]
  ELSE IF Len(words) > 2 /\ Redirect \in Range(words)
       THEN [kind |-> "redirect", args |-> ShiftedArgs(words), file |-> FileName(words, remains)]
       ELSE [kind |-> "run", args |-> words]

-----------------------------------------------------------------------------
Init ==
  /\ cmd = [i \in Cells |-> NUL]
  /\ line = << >>
  /\ argv = << >>
  /\ job = [kind |-> "none"]
  /\ clean = TRUE

(* The words of a line, cut out of the buffer.                             *)
CutOut(l) ==
  LET buf == Fgets(cmd, l)
      found == Words(buf)
  IN  /\ line' = l
      /\ argv' = found.words
      /\ cmd' = [i \in Cells |-> IF i \in found.cuts THEN NUL ELSE buf[i]]

(* Mutant: a line without a word leaves the job of the one before.         *)
ReadKeeps(l) ==
  /\ CutOut(l)
  /\ \E remains \in Remains :
       /\ job' = IF argv' = << >> THEN job ELSE Job(argv', remains)
       /\ clean' = (clean /\ (job'.kind = "redirect" => remains = << >>))

(* getargs() and main()'s choice, for a line of the input.                 *)
Read(l) ==
  /\ CutOut(l)
  /\ \E remains \in Remains :
       /\ job' = Job(argv', remains)
       /\ clean' = (clean /\ (job'.kind = "redirect" => remains = << >>))

-----------------------------------------------------------------------------
(* Correctness.                                                            *)

Chars == {NUL, NL, BLANK, TAB, BACKSLASH} \cup UNION {Range(l) : l \in Lines}

(* The name of variable v is in cmd, behind a $ in cell i.                 *)
Names(v, i) ==
  /\ i + Len(v) \in Cells
  /\ cmd[i] = "$"
  /\ \A k \in DOMAIN v : cmd[i + k] = v[k]

(* A word is empty only where an empty variable is named.                  *)
TypeOK ==
  /\ cmd \in [Cells -> Chars]
  /\ line \in Lines \cup {<< >>}
  /\ << >> \in Range(argv) =>
       \E v \in DOMAIN Env : Env[v] = << >> /\ \E i \in Cells : Names(v, i)
  /\ job.kind \in {"none", "run", "redirect", "exit"}
  /\ clean \in BOOLEAN

(* The words come from this line alone, whatever the lines before it left  *)
(* in cmd: getword() stops at the newline.  A last line without one runs   *)
(* on into what is behind it (3600sh.c:76, 101-104).                       *)
OnlyThisLine ==
  (line # << >> /\ Last(line) = NL) => argv = Words(Fgets([i \in Cells |-> NUL], line)).words

(* A line of plain characters and blanks gives its maximal runs of         *)
(* characters, in order (3600sh.c:66-87).                                  *)
Special == {NUL, NL, TAB, BACKSLASH, "#", "$"}

IsPlain(l, i) == i \in DOMAIN l /\ l[i] \notin {BLANK, NL}

RunStarts(l) == {i \in DOMAIN l : IsPlain(l, i) /\ ~ IsPlain(l, i - 1)}

RunEnd(l, i) ==
  CHOOSE j \in i..Len(l) : ~ IsPlain(l, j + 1) /\ \A k \in i..j : IsPlain(l, k)

Nth(S, n) == CHOOSE i \in S : Cardinality({j \in S : j \leq i}) = n

NthStart(l, n) == Nth(RunStarts(l), n)

PlainRuns(l) ==
  [n \in 1..Cardinality(RunStarts(l)) |-> SubSeq(l, NthStart(l, n), RunEnd(l, NthStart(l, n)))]

WordsAreRuns ==
  (line # << >> /\ Last(line) = NL /\ Range(Front(line)) \cap Special = {}) => argv = PlainRuns(line)
=============================================================================
