-------------------------------- MODULE MCDriver -------------------------------
(***************************************************************************)
(* Command lines: each program of MCAssembler in a file of its own, and a  *)
(* few with several files, which may share names of labels and of outputs. *)
(***************************************************************************)
EXTENDS Driver, MCAssembler

CONSTANT MCBatches

MCBases == {"a", "b"}

Arg(base, text) == [base |-> base, hasExtension |-> TRUE, text |-> text]

(* The file ps.as after one that gives its labels another meaning, under   *)
(* the same base name or another.                                          *)
OtherPrograms ==
    { <<l>> : l \in { L("K", ".db", <<Num(1)>>), L("LOOP", "stop", <<>>),
                      L(NULL, ".extern", <<Name("Next")>>),
                      L(NULL, ".entry", <<Name("val1")>>),
                      L(NULL, "call", <<Name("K")>>) } }

LinkPrograms == TestPrograms \cup OtherPrograms

LinkBatches == {<<Arg("b", p), Arg(b, ps)>> : b \in MCBases, p \in OtherPrograms}

(* Programs that are assembled with each of the files, with the object     *)
(* file alone, that either pass rejects, and that end the process.         *)
FaultPrograms ==
    { << L(NULL, ".extern", <<Name("B")>>), L(NULL, ".entry", <<Name("A")>>),
         L("A", "call", <<Name("B")>>) >>,
      << L(NULL, "stop", <<>>) >>,
      << L(NULL, ".entry", <<Num(5)>>) >>,
      << L(NULL, "call", <<Name("B")>>) >>,
      << L(NULL, ".entry", <<>>) >> }

FaultArguments ==
    {Arg(b, p) : b \in MCBases, p \in FaultPrograms \cup {NULL}}
        \cup {[base |-> "a", hasExtension |-> FALSE, text |-> NULL]}

FaultBatches == {<<x, y>> : x, y \in FaultArguments}

MCCommandLines == {<<>>} \cup {<<Arg("a", s)>> : s \in MCSources} \cup MCBatches
===============================================================================
