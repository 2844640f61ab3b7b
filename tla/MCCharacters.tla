----------------------------- MODULE MCCharacters -----------------------------
(***************************************************************************)
(* Source text written as strings: a string is the sequence of its         *)
(* characters, the modules take the sequence of their codes.               *)
(***************************************************************************)
EXTENDS Integers, Sequences, SequencesExt

Lower == "abcdefghijklmnopqrstuvwxyz{|}~"

Upper == " !\"#$%&'()*+,-./0123456789:;<=>?@ABCDEFGHIJKLMNOPQRSTUVWXYZ[\\]^_"

(* All but the back quote, which no string of a module can hold.           *)
Character ==
    [c \in {9, 10, 13} \cup 32..95 \cup 97..126 |->
        CASE c = 9 -> "\t" [] c = 10 -> "\n" [] c = 13 -> "\r"
          [] c \in 32..95 -> SubSeq(Upper, c - 31, c - 31)
          [] c \in 97..126 -> SubSeq(Lower, c - 96, c - 96)]

CodesOf(s) ==
    [i \in 1..Len(s) |->
        CHOOSE c \in DOMAIN Character : Character[c] = SubSeq(s, i, i)]

(* Names and mnemonics are strings in the models.                          *)
StringOf(codes) ==
    IF codes = <<>> THEN "" ELSE FlattenSeq([i \in DOMAIN codes |-> Character[codes[i]]])
===============================================================================
