----------------------------- MODULE MCFirstPass -----------------------------
(***************************************************************************)
(* All programs of up to MaxLines lines taken from a small set of lines    *)
(* that has each kind of line the first pass tells apart, over two labels. *)
(***************************************************************************)
EXTENDS FirstPass, SequencesExt

CONSTANT MaxLines

MCNames == {"A", "B", "add", "Long", "1x"}
MCWords == {"A", "B", "add", "Long"}
MCNameLen == [w \in MCWords |-> CASE w = "Long" -> 33 [] w = "add" -> 3 [] OTHER -> 1]

L(label, head, params) == [label |-> label, head |-> head, params |-> params, error |-> GOOD]
Num(n)  == [kind |-> "num", val |-> n]
Name(n) == [kind |-> "name", val |-> n]
Str(s)  == [kind |-> "str", val |-> s]
Empty   == [kind |-> "empty", val |-> NULL]

MCLines ==
    { L(NULL, NULL, <<>>),                                \* comment or empty
      L("A", NULL, <<>>),                                 \* a label alone
      [L("A", ".asciz", <<>>) EXCEPT !.error = "ASCIIZ_MISSING_PARENTHESIS"],
      L(NULL, ".asciz", <<>>),
      L("A", ".asciz", <<Str(<<97, 98>>)>>),
      L(NULL, ".asciz", <<Str(<<9>>)>>),
      L("B", ".db", <<Num(6), Num(-9)>>),
      L("A", ".dh", <<Num(-2)>>),
      L("B", ".dw", <<Num(2147483647)>>),
      L("A", ".db", <<Num(128)>>),
      L("Long", ".db", <<>>),
      L(NULL, ".entry", <<>>),
      L("B", ".entry", <<Name("A")>>),
      L(NULL, ".entry", <<Name("1x"), Name("A")>>),
      L(NULL, ".extern", <<>>),
      L(NULL, ".extern", <<Name("A"), Empty>>),
      L(NULL, ".extern", <<Name("A"), Name("B")>>),
      L(NULL, ".extern", <<Name("Long")>>),
      L(NULL, "stop", <<>>),
      L("A", "stop", <<>>),
      L("B", "other", <<>>),
      L("add", "la", <<Name("A")>>),
      L("A", ".other", <<>>) }

MCSources == SeqOf(MCLines, MaxLines)
===============================================================================
