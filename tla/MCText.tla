-------------------------------- MODULE MCText --------------------------------
(***************************************************************************)
(* Files for the line reader: every short text over an alphabet that has   *)
(* each character the code treats in its own way, beginnings of lines with *)
(* every short end, and lines around the limit of LINE_LENGTH characters.  *)
(***************************************************************************)
EXTENDS LineReader, MCCharacters

CONSTANTS
    MaxText,    \* the bound on the length of the short texts
    MaxEnd      \* the bound on the length of the ends

(* Any text may be a name; which of them are words does not matter here.   *)
MCNames == STRING
MCWords == {}
MCNameLen == <<>>

Chars(s) == {s[i] : i \in DOMAIN s}

ShortTexts == SeqOf(Chars(CodesOf("a.1 \t\r,\":;\n")), MaxText)

LineBeginnings ==
    { ".asciz", ".asciz ", "a:\t.asciz \"", "a:.asciz \"b,c\"", "add $1", ".dw -2,", "a: b" }

LineEnds == SeqOf(Chars(CodesOf("a ,\"\n")), MaxEnd)

Times(n, s) == FlattenSeq([i \in 1..n |-> s])

(* Lines of one character less than fit, as many, one more, and more than  *)
(* twice as many, alone, with a newline, and with a short line behind      *)
(* them; lines that are cut within a word or a string; and the line with   *)
(* the most data.                                                          *)
LongTexts ==
    {CodesOf(Times(n, "x") \o end) :
        n \in {LINE_LENGTH - 1, LINE_LENGTH, LINE_LENGTH + 1, 2 * LINE_LENGTH + 1}, end \in {" ", "\n", "\nstop"}}
        \cup {CodesOf(t) : t \in {Times(LINE_LENGTH - 6, " ") \o "jmp abc\nb:",
                                  ".asciz \"" \o Times(LINE_LENGTH - 8, "b") \o "\"",
                                  ".asciz \"" \o Times(LINE_LENGTH - 9, "b") \o "\" \n",
                                  ".dw " \o Times(LINE_LENGTH, "1,")}}

MCFiles ==
    ShortTexts \cup LongTexts
        \cup {CodesOf(b) \o e : b \in LineBeginnings, e \in LineEnds}
===============================================================================
