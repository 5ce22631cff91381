--------------------------- MODULE MCShellSession ---------------------------
(***************************************************************************)
(* Small inputs for ShellSession.  "ls" and "exit" are single characters:  *)
(* only where a word begins and ends matters.                              *)
(***************************************************************************)
EXTENDS ShellSession

(* The last two lack their newline.                                        *)
SampleLines ==
  {<<"ls", NL>>,
   <<NL>>,
   <<BLANK, "ls", "l", BLANK, BLANK, "a", NL>>,
   <<"ls", BLANK, ">", BLANK, "f", NL>>,
   <<"ls", BLANK, "a", BLANK, ">", BLANK, "f", NL>>,
   <<"ls", BLANK, ">", BLANK, "f", BLANK, "g", NL>>,
   <<"ls", BLANK, ">", BLANK, "b", NL>>,
   <<">", BLANK, "f", BLANK, "ls", NL>>,
   <<"ls", BLANK, ">", NL>>,
   <<"a", ">", "b", BLANK, "b", NL>>,
   <<"ls", "#", "a", NL>>,
   <<"ls", BLANK, "#", "a", NL>>,
   <<TAB, "ls", TAB, "a", NL>>,
   <<BACKSLASH, BLANK, "a", BACKSLASH, "b", NL>>,
   <<"ls", BLANK, "$", "u", NL>>,
   <<"$", "e", BLANK, "$", "x", NL>>,
   <<"$", "x", BLANK, "a", NL>>,
   <<"ls", BLANK, "$", "g", BLANK, "f", NL>>,
   <<"ls", BLANK, ">", BLANK, "$", "e", NL>>,
   <<BLANK, "a", BLANK, NL>>,
   <<"a", "b", "c", "d", "e", "f", "g", NL>>,
   <<"a", "$", "#", TAB, "b", NL>>,
   <<"exit", BLANK, "a", NL>>,
   <<"exit", NL>>,
   <<"ls">>,
   <<"ls", BLANK, ">", BLANK, "f">>}

Whole == {l \in SampleLines : Last(l) = NL}

(* Every two lines, and every three of some.                               *)
Some ==
  {<<"ls", NL>>, <<BLANK, "ls", "l", BLANK, BLANK, "a", NL>>, <<NL>>, <<"a", NL>>,
   <<"ls", BLANK, "a", BLANK, ">", BLANK, "f", NL>>, <<"exit", NL>>}

LineSeqs ==
  {<<l>> : l \in SampleLines} \cup {<<k, l>> : k \in Whole, l \in SampleLines}
    \cup {<<j, k, l>> : j \in Some \cap Whole, k \in Some \cap Whole, l \in Some \cap SampleLines}

(* An empty variable, one that is "exit", one that is ">"; u is undefined. *)
Variables == {<<"e">>, <<"x">>, <<"g">>}
Environment ==
  [v \in Variables |-> IF v = <<"e">> THEN << >> ELSE IF v = <<"x">> THEN <<"exit">> ELSE Redirect]

(* Clean memory, and memory that is not.                                   *)
Heap == {<< >>, <<"old">>}

FileNames == {<<"f">>, <<"b">>}
FileMap == [name \in FileNames |-> IF name = <<"f">> THEN "f" ELSE "bad"]

ProgramNames == {<<"ls">>, <<"ls", "l">>, <<"b">>}

MissingIn(lines) == {k \in DOMAIN lines : Alone(lines[k]).kind = "missing"}

(* A file has at most one missing program, as in MCShell, and a last line  *)
(* without a newline only when it has none.                                *)
AllTexts ==
  {t \in [lines : LineSeqs, seekable : BOOLEAN] :
     t.seekable =>
       Cardinality(MissingIn(t.lines)) \leq IF Last(Last(t.lines)) = NL THEN 1 ELSE 0}
=============================================================================
