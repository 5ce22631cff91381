---------------------------- MODULE ShellSession ----------------------------
(***************************************************************************)
(* project1: the whole of 3600sh, from the characters of its input to the  *)
(* programs that run.  ShellReader makes a job of each line that fgets()   *)
(* yields, and Shell runs the jobs; here the second takes the jobs of the  *)
(* first.                                                                  *)
(***************************************************************************)
EXTENDS ShellReader

CONSTANTS
  Texts,            \* what stdin may hold: records of a sequence of lines and
                    \* of whether it is a file or a pipe
  Programs,         \* the words that are the name of a program
  Files,            \* the files that matter, by their names
  Openable, MaxInterrupts, MaxForkFailures   \* as in Shell

(* Only the last line may lack its newline, and only when no offset moves: *)
(* what fgets() then appends to it is not modelled.                        *)
ASSUME SessionAssumption ==
  /\ \A t \in Texts :
       /\ t.lines # << >>
       /\ t.lines \in Seq(Lines)
       /\ \A k \in 1..(Len(t.lines) - 1) : Last(t.lines[k]) = NL
  /\ MaxInterrupts \in Nat
  /\ MaxForkFailures \in Nat
  /\ Openable \cap {"none", "out", "closed", "nothing", "nameless"} = {}

VARIABLES
  text,       \* the input
  script, seekable, inOff, rd, bufEnd, pc, cur, child, out1, saved, ran, taken,
  unforked, interrupts,   \* as in Shell; script is what the lines ask for
                          \* one by one, in memory that is clean
  started     \* history: the words of the programs run, and their output

readerVars == <<cmd, line, argv, job, clean>>
runVars == <<script, seekable, inOff, rd, bufEnd, pc, cur, child, out1, saved, ran, taken, unforked,
             interrupts>>
sessionVars == <<readerVars, text, runVars, started>>

-----------------------------------------------------------------------------
(* The job of ShellReader, as Shell sees it.                               *)
Kind(words) ==
  IF words = << >> THEN "blank" ELSE IF words[1] \in Programs THEN "run" ELSE "missing"

(* freopen() opens no file without a name.                                 *)
FileOf(name) ==
  IF name = << >> THEN "nameless" ELSE IF name \in DOMAIN Files THEN Files[name] ELSE "other"

Task(j) ==
  [kind |-> IF j.kind = "none" THEN "blank" ELSE IF j.kind = "exit" THEN "exit" ELSE Kind(j.args),
   file |-> IF j.kind = "redirect" THEN FileOf(j.file) ELSE "none"]

Run == INSTANCE Shell WITH job <- Task(job), Inputs <- {}

Bytes == FlattenSeq(text)

(* What fgets() yields from offset p on.                                   *)
LineFrom(p) == SubSeq(Bytes, p + 1, Run!NextLine(p))

(* Where a line starts, or the input ends.                                 *)
Boundaries == DOMAIN script \cup {Run!Size}

(* The line read is the one that is run.  What read() gives ends here with *)
(* a line, as it does at a terminal; Shell has it end anywhere.            *)
TakeLine ==
  /\ pc = "prompt"
  /\ Run!ReadsAt < Run!Size
  /\ Read(LineFrom(Run!ReadsAt))
  /\ Run!Take(Task(job'))
  /\ bufEnd' \in Boundaries
  /\ UNCHANGED <<text, started>>

Exec ==
  /\ UNCHANGED <<readerVars, text>>
  /\ Run!Exec
  /\ started' = Append(started, [args |-> job.args, out |-> out1])

(* A program reads some of the lines that follow.                          *)
TakesLines ==
  /\ UNCHANGED <<readerVars, text, started>>
  /\ \E e \in Boundaries : Run!TakesInput(e)

(* The steps of Shell that do not look at the words.                       *)
RunStep ==
  /\ UNCHANGED <<readerVars, text, started>>
  /\ \/ Run!ReadEof \/ Run!Fork \/ Run!ForkFails \/ Run!Wait
     \/ Run!ExecFails \/ Run!ExecBlank \/ Run!Finish \/ Run!Interrupt \/ Run!Exited

-----------------------------------------------------------------------------
(* Each line by itself, in a buffer that has held nothing else.            *)
Alone(l) == Task(Job(Words(Fgets([x \in Cells |-> NUL], l)).words, << >>))

Offset(lines, k) == Len(FlattenSeq(SubSeq(lines, 1, k - 1)))

ScriptOf(lines) ==
  [p \in {Offset(lines, k) : k \in DOMAIN lines} |->
     LET l == lines[CHOOSE k \in DOMAIN lines : Offset(lines, k) = p]
     IN  [kind |-> Alone(l).kind, file |-> Alone(l).file, len |-> Len(l)]]

SessionInit ==
  /\ Init
  /\ \E t \in Texts : text = t.lines /\ script = ScriptOf(t.lines) /\ seekable = t.seekable
  /\ started = << >>
  /\ inOff = 0
  /\ rd = 0
  /\ bufEnd = 0
  /\ pc = "prompt"
  /\ cur = 0
  /\ child = "none"
  /\ out1 = "out"
  /\ saved = "nothing"
  /\ ran = << >>
  /\ taken = FALSE
  /\ unforked = {}
  /\ interrupts = 0

SessionNext == TakeLine \/ Exec \/ TakesLines \/ RunStep

Session == SessionInit /\ [][SessionNext]_sessionVars

-----------------------------------------------------------------------------
(* Correctness.                                                            *)

Terminated == Last(Bytes) = NL

(* Cutting words out of a buffer that is never cleared, and reading on     *)
(* where a child may have moved the offset to, the shell does what Shell   *)
(* says of the lines taken one by one: none of them depends on another     *)
(* (3600sh.c:33-61, 97-107).  That is so as long as the blocks of memory   *)
(* that the file names are put together in are clean; nothing in the code  *)
(* sees to it (3600sh.c:188-191).                                          *)
ImplementsShell == [][Terminated /\ clean' => [Run!Next]_(Run!vars)]_sessionVars

(* The commands of a text of plain words, by their runs of characters.     *)
Plain == \A k \in DOMAIN text : Last(text[k]) = NL /\ Range(Front(text[k])) \cap Special = {}

IsRedirect(words) == Len(words) > 2 /\ words[Len(words) - 1] = Redirect

Command(words) ==
  IF IsRedirect(words)
  THEN [args |-> SubSeq(words, 1, Len(words) - 2), out |-> FileOf(Last(words))]
  ELSE [args |-> words, out |-> "out"]

Tidy ==
  /\ Plain
  /\ \A k \in DOMAIN text :
       LET words == PlainRuns(text[k])
       IN  \A n \in DOMAIN words :
             words[n] = Redirect => n = Len(words) - 1 /\ FileOf(Last(words)) \in Openable

Leaves(words) == words # << >> /\ words[1] = <<"exit">>

CommandLines ==
  {k \in DOMAIN text :
     /\ Kind(PlainRuns(text[k])) = "run"
     /\ \A j \in 1..k : ~ Leaves(PlainRuns(text[j]))}

Commands ==
  [n \in 1..Cardinality(CommandLines) |-> Command(PlainRuns(text[Nth(CommandLines, n)]))]

(* From end to end: of a text of plain words, with "> file" at most at the *)
(* end of a line, every command in front of an exit has run once, in       *)
(* order, with exactly its own words and its output where it asked, unless *)
(* a program has read some of the lines itself, or malloc() has given a    *)
(* block that was not clean for a name (3600sh.c:33-61, 66-107, 110-165,   *)
(* 188-191).                                                               *)
RunsTheText ==
  (Tidy /\ Run!OffsetIsSafe /\ ~ taken /\ clean /\ unforked = {} /\ pc = "exited")
    => started = Commands
=============================================================================
