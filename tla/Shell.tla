------------------------------- MODULE Shell -------------------------------
(***************************************************************************)
(* project1: 3600sh runs the lines of its input one after the other, each  *)
(* in a child of its own, with the output redirected when the line asks    *)
(* for it.  How a line becomes a job is module ShellReader's business; here *)
(* a line is the job it stands for; ShellSession puts the two together.    *)
(*                                                                         *)
(* The shell and its child share the open file behind stdin and its        *)
(* offset.  The child is a copy of the shell with a copy of what stdio has *)
(* read ahead, and a child that leaves through exit() gives it back by     *)
(* moving the shared offset backwards, where the file can seek.  A program *)
(* that runs may read its stdin, and takes what the shell has not read.    *)
(***************************************************************************)
EXTENDS Naturals, Sequences, FiniteSets, SequencesExt

CONSTANTS
  Inputs,           \* what stdin may be: records of a script, a function from
                    \* the offsets where a line starts to the line, and of
                    \* whether it is a file or a pipe
  Openable,         \* the files freopen() can open for writing
  MaxInterrupts,    \* bound on the interrupts from the keyboard
  MaxForkFailures   \* bound on the forks that fail

(* run: a program; missing: no such program; blank: no word; exit: leave.  *)
Kinds == {"run", "missing", "blank", "exit"}

NoFile == "none"

(* A script: lines that follow one another from offset 0 on.               *)
IsScript(s) ==
  /\ 0 \in DOMAIN s
  /\ DOMAIN s \subseteq Nat
  /\ IsFiniteSet(DOMAIN s)
  /\ \A p \in DOMAIN s : s[p].kind \in Kinds /\ s[p].len \in Nat \ {0}
  /\ \A p, q \in DOMAIN s : q > p => q \geq p + s[p].len /\ p + s[p].len \in DOMAIN s

ASSUME ShellAssumption ==
  /\ MaxInterrupts \in Nat
  /\ MaxForkFailures \in Nat
  /\ Openable \cap {NoFile, "out", "closed", "nothing"} = {}
  /\ \A input \in Inputs : IsScript(input.script) /\ input.seekable \in BOOLEAN

VARIABLES
  script,     \* the input
  seekable,   \* is stdin a file, or a pipe?
  inOff,      \* the offset of stdin, shared with the child
  rd, bufEnd, \* stdio's buffer: the next byte in it and the byte behind it
  pc,         \* where main() is
  cur,        \* offset of the line in hand
  job,        \* what that line asks for: a kind and an output file
  child,      \* the child: none, forked, running, zombie
  out1,       \* what file descriptor 1 is: the terminal or file it was
              \* ("out"), a file, or "closed"; stdout is open unless closed
  saved,      \* the duplicate myOut() keeps of it
  ran,        \* history: the programs run, and where their output went
  taken,      \* history: has a program read any of the input?
  unforked,   \* history: the lines whose fork failed
  interrupts  \* number of interrupts so far

bufferVars == <<rd, bufEnd>>
outputVars == <<out1, saved>>
shellVars == <<bufferVars, pc, cur, job, outputVars, unforked>>
inputVars == <<script, seekable>>
history == <<ran, taken>>
vars == <<inputVars, inOff, shellVars, child, history, interrupts>>

Ends == {p + script[p].len : p \in DOMAIN script}

Size == CHOOSE e \in Ends : \A f \in Ends : f \leq e

NextLine(p) == CHOOSE e \in Ends : e > p /\ \A f \in Ends : f > p => e \leq f

(* Reading may resume in the middle of a line: what is left of it is taken *)
(* to be the name of no program, or no word at all.                        *)
LineAt(p) ==
  IF p \in DOMAIN script THEN script[p]
  ELSE [kind |-> IF p + 1 = NextLine(p) THEN "blank" ELSE "missing",
        file |-> NoFile, len |-> NextLine(p) - p]

JobAt(p) == [kind |-> LineAt(p).kind, file |-> LineAt(p).file]

Missing == {p \in DOMAIN script : script[p].kind = "missing"}

Unread == bufEnd - rd

(* Where fgets() goes on: in the buffer, or at the shared offset.          *)
ReadsAt == IF Unread > 0 THEN rd ELSE inOff

(* The buffer ends in the middle of the next line, and a child has moved   *)
(* the offset at which that line would go on.                              *)
Torn == Unread > 0 /\ NextLine(rd) > bufEnd /\ inOff # bufEnd

-----------------------------------------------------------------------------
(* The shell.                                                              *)

(* The head of myOut(): stdout is duplicated and reopened as the file.     *)
SaveStdout == IF out1 = "closed" THEN "nothing" ELSE out1

Reopened(file) == IF file \in Openable THEN file ELSE "closed"

Begin(j) ==
  IF j.kind = "exit"
  THEN /\ pc' = "exited"
       /\ UNCHANGED <<out1, saved>>
  ELSE /\ pc' = "fork"
       /\ IF j.file = NoFile THEN UNCHANGED <<out1, saved>>
          ELSE /\ saved' = SaveStdout
               /\ out1' = Reopened(j.file)

(* Mutant: reading goes on at the line after next.                         *)
SkippedLine(p) == IF NextLine(p) = Size THEN Size ELSE NextLine(NextLine(p))

AfterLine(p) == NextLine(p)

(* The end of the line that fgets() yields; the two parts of a torn line   *)
(* come from different places.                                             *)
LineEnd ==
  IF ~ Torn THEN AfterLine(ReadsAt)
  ELSE IF inOff = Size THEN Size ELSE AfterLine(inOff)

(* fgets(): a line that is not all in the buffer is read from the shared   *)
(* offset, with as much of what follows as read() gives: a block of a      *)
(* file, what is in the pipe.  The line asks for job j.                    *)
Take(j) ==
  /\ pc = "prompt"
  /\ ReadsAt < Size
  /\ rd' = LineEnd
  /\ IF Unread > 0 /\ LineEnd \leq bufEnd /\ ~ Torn THEN UNCHANGED <<inOff, bufEnd>>
     ELSE \E e \in LineEnd..Size : inOff' = e /\ bufEnd' = e
  /\ cur' = ReadsAt
  /\ job' = j
  /\ Begin(j)
  /\ UNCHANGED <<inputVars, child, history, unforked, interrupts>>

(* The parts of a torn line are taken to be the name of no program.        *)
ReadLine == Take(IF Torn THEN [kind |-> "missing", file |-> NoFile] ELSE JobAt(ReadsAt))

ReadEof ==
  /\ pc = "prompt"
  /\ Unread = 0
  /\ inOff = Size
  /\ pc' = "exited"
  /\ UNCHANGED <<inputVars, inOff, bufferVars, cur, job, outputVars, unforked, child, history,
                 interrupts>>

(* fork() in execute() and myOut().                                        *)
Fork ==
  /\ pc = "fork"
  /\ pc' = "wait"
  /\ child' = "forked"
  /\ UNCHANGED <<inputVars, inOff, bufferVars, cur, job, outputVars, unforked, history, interrupts>>

(* A failure is reported and goes on to waitpid(-1), which has no child to *)
(* wait for.                                                               *)
ForkFails ==
  /\ pc = "fork"
  /\ Cardinality(unforked) < MaxForkFailures
  /\ pc' = "wait"
  /\ unforked' = unforked \cup {cur}
  /\ UNCHANGED <<inputVars, inOff, bufferVars, cur, job, outputVars, child, history, interrupts>>

(* Mutants: stdout is not restored; the shell does not wait.               *)
NotRestored == out1

(* dup2(fd, fileno(stdout)) fails when there is no duplicate, and when     *)
(* stdout is closed.                                                       *)
Restored == IF saved = "nothing" \/ out1 = "closed" THEN out1 ELSE saved

ReapableAlways == TRUE

Reapable == child \in {"none", "zombie"}

(* Mutant: a waitpid() that fails is tried again.                          *)
AfterWaitRetries == IF child = "none" THEN "wait" ELSE "prompt"

AfterWait == "prompt"

(* waitpid() and the tail of execute() or myOut().                         *)
Wait ==
  /\ pc = "wait"
  /\ Reapable
  /\ child' = IF child = "zombie" THEN "none" ELSE child
  /\ pc' = AfterWait
  /\ IF job.file = NoFile THEN UNCHANGED outputVars
     ELSE /\ out1' = Restored
          /\ saved' = "nothing"
  /\ UNCHANGED <<inputVars, inOff, bufferVars, cur, job, unforked, history, interrupts>>

-----------------------------------------------------------------------------
(* The child.                                                              *)

Exec ==
  /\ child = "forked"
  /\ job.kind = "run"
  /\ child' = "running"
  /\ ran' = Append(ran, [at |-> cur, out |-> out1])
  /\ UNCHANGED <<inputVars, inOff, shellVars, taken, interrupts>>

(* exit() after a failed execvp() gives back what stdio has read ahead.    *)
GivesBack == seekable /\ inOff \geq Unread

ExecFails ==
  /\ child = "forked"
  /\ job.kind = "missing"
  /\ child' = "zombie"
  /\ inOff' = IF GivesBack THEN inOff - Unread ELSE inOff
  /\ UNCHANGED <<inputVars, shellVars, history, interrupts>>

(* Mutant: the child of a blank line leaves through exit(0).               *)
ExecBlankExits ==
  /\ child = "forked"
  /\ job.kind = "blank"
  /\ child' = "zombie"
  /\ inOff' = IF GivesBack THEN inOff - Unread ELSE inOff
  /\ UNCHANGED <<inputVars, shellVars, history, interrupts>>

(* execvp(NULL, ...): the child dies of a segmentation fault, silently.    *)
ExecBlank ==
  /\ child = "forked"
  /\ job.kind = "blank"
  /\ child' = "zombie"
  /\ UNCHANGED <<inputVars, inOff, shellVars, history, interrupts>>

(* A program reads some of its stdin, up to offset e.  Bound: not of a     *)
(* file with a missing program, which the shell might then read for ever.  *)
TakesInput(e) ==
  /\ child = "running"
  /\ seekable => Missing = {}
  /\ e \in (inOff + 1)..Size
  /\ inOff' = e
  /\ taken' = TRUE
  /\ UNCHANGED <<inputVars, shellVars, child, ran, interrupts>>

Finish ==
  /\ child = "running"
  /\ child' = "zombie"
  /\ UNCHANGED <<inputVars, inOff, shellVars, history, interrupts>>

(* SIGINT reaches the shell and the child.  The handler only prints, and a *)
(* child keeps it until exec() puts the default action, to die, back.      *)
Interrupt ==
  /\ pc # "exited"
  /\ interrupts < MaxInterrupts
  /\ interrupts' = interrupts + 1
  /\ child' = IF child = "running" THEN "zombie" ELSE child
  /\ UNCHANGED <<inputVars, inOff, shellVars, history>>

Exited ==
  /\ pc = "exited"
  /\ UNCHANGED vars

-----------------------------------------------------------------------------
Init ==
  /\ \E input \in Inputs : script = input.script /\ seekable = input.seekable
  /\ inOff = 0
  /\ rd = 0
  /\ bufEnd = 0
  /\ pc = "prompt"
  /\ cur = 0
  /\ job = [kind |-> "blank", file |-> NoFile]
  /\ child = "none"
  /\ out1 = "out"
  /\ saved = "nothing"
  /\ ran = << >>
  /\ taken = FALSE
  /\ unforked = {}
  /\ interrupts = 0

ShellStep == ReadLine \/ ReadEof \/ Fork \/ ForkFails \/ Wait
ChildStep == Exec \/ ExecFails \/ ExecBlank \/ Finish \/ \E e \in 0..Size : TakesInput(e)

Next == ShellStep \/ ChildStep \/ Interrupt \/ Exited

Spec == Init /\ [][Next]_vars

(* Both processes are scheduled, and the programs run do end.              *)
FairSpec == Spec /\ WF_vars(ShellStep) /\ WF_vars(ChildStep)

-----------------------------------------------------------------------------
(* Correctness.                                                            *)

TypeOK ==
  /\ 0 \in DOMAIN script
  /\ seekable \in BOOLEAN
  /\ inOff \in 0..Size
  /\ bufEnd \in 0..Size
  /\ rd \in 0..bufEnd
  /\ pc \in {"prompt", "fork", "wait", "exited"}
  /\ cur \in 0..(Size - 1)
  /\ job.kind \in Kinds
  /\ child \in {"none", "forked", "running", "zombie"}
  /\ out1 \in Openable \cup {"out", "closed"}
  /\ saved \in Openable \cup {"out", "nothing"}
  /\ \A i \in DOMAIN ran : ran[i].at \in DOMAIN script
  /\ taken \in BOOLEAN
  /\ unforked \subseteq 0..(Size - 1)
  /\ interrupts \in 0..MaxInterrupts

(* Every line is run at most once, and in the order of the input.          *)
EachLineOnce == \A i, j \in DOMAIN ran : i < j => ran[i].at < ran[j].at

(* A missing program moves the offset of a file back over what the shell   *)
(* has read ahead, and so does the rest of a line of which another program *)
(* took a part, the name of no program.  That of a pipe never moves back.  *)
OffsetIsSafe == seekable => Missing = {} /\ ~ taken

(* Whatever else the children do, blank lines, failing forks and programs  *)
(* that read the pipe included, to the input they share with the shell, no *)
(* line is run twice or out of order (3600sh.c:97, 119-122).               *)
RunsInOrder == OffsetIsSafe => EachLineOnce

(* The programs of the lines before an exit, and no others, have run when  *)
(* the shell is gone, but for those fork() refused: no failing or          *)
(* interrupted line takes another one with it, unless a program has read   *)
(* some of the input itself (3600sh.c:33-61, 97, 112-126).                 *)
Wanted ==
  {p \in DOMAIN script :
     /\ script[p].kind = "run"
     /\ \A q \in DOMAIN script : script[q].kind = "exit" => q > p}

RunsExactlyTheScript ==
  (OffsetIsSafe /\ ~ taken /\ pc = "exited") => {ran[i].at : i \in DOMAIN ran} = Wanted \ unforked

(* The output of every line goes where the line asks, after any number of  *)
(* redirections, failures and interrupts, up to the first line whose file  *)
(* cannot be opened: that one closes stdout for good (3600sh.c:133-162).   *)
OutputWhereAsked ==
  \A i \in DOMAIN ran :
    (OffsetIsSafe /\ \A p \in DOMAIN script : p \leq ran[i].at => script[p].file \in Openable \cup {NoFile})
      => LET asked == script[ran[i].at].file
         IN  ran[i].out = IF asked = NoFile THEN "out" ELSE asked

(* The shell never reads a line, or leaves, with a child still about: no   *)
(* two of its children share the terminal (3600sh.c:126, 156).             *)
NoChildLeft == pc \in {"prompt", "exited"} => child = "none"

(* The shell gets to the end of its input, also when one missing program   *)
(* makes it read some of a file again; two can make it read the file for   *)
(* ever (3600sh.c:33, 97-99, 121).                                         *)
ShellExits == (seekable => Cardinality(Missing) \leq 1) => <>(pc = "exited")
=============================================================================
