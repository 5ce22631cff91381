------------------------------ MODULE MCShell ------------------------------
(***************************************************************************)
(* Small inputs for Shell: every script of up to three lines, from a       *)
(* choice of lines whose lengths differ.                                   *)
(***************************************************************************)
EXTENDS Shell

Line(kind, file, len) == [kind |-> kind, file |-> file, len |-> len]

Offset(lines, i) == FoldLeft(LAMBDA sum, l : sum + l.len, 0, SubSeq(lines, 1, i - 1))

(* A script from its lines.                                                *)
Script(lines) ==
  [p \in {Offset(lines, i) : i \in DOMAIN lines} |->
     lines[CHOOSE i \in DOMAIN lines : Offset(lines, i) = p]]

ScriptsOf(choice) == {Script(lines) : lines \in UNION {[1..n -> choice] : n \in 1..3}}

(* Every kind of line, with output files that can and cannot be opened.    *)
Choice ==
  {Line("run", NoFile, 2), Line("run", "f", 3), Line("run", "g", 4), Line("run", "bad", 3),
   Line("missing", NoFile, 2), Line("missing", "f", 3), Line("blank", NoFile, 1),
   Line("exit", NoFile, 2)}

(* A file has at most one missing program: with two, ran grows for ever.   *)
AllInputs ==
  {input \in [script : ScriptsOf(Choice), seekable : BOOLEAN] :
     input.seekable =>
       Cardinality({p \in DOMAIN input.script : input.script[p].kind = "missing"}) \leq 1}

(* A missing program in front of another line, as in "uname-a", "ls".      *)
MissingInput ==
  [script : {Script(<<Line("run", NoFile, 4), Line("missing", NoFile, 8), Line("run", NoFile, 3)>>)},
   seekable : {TRUE}]
=============================================================================
