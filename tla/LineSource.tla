------------------------------ MODULE LineSource ------------------------------
(***************************************************************************)
(* What the passes take the source file for: the sequence of its lines,    *)
(* handed over one by one, once for the first pass and, if that succeeds,  *)
(* the same lines again for the second.                                    *)
(***************************************************************************)
EXTENDS Integers, Sequences

CONSTANTS
    NULL,
    TextsOf(_)  \* the texts of the lines of a file

VARIABLES
    file,
    next,      \* the number of the line to hand over next
    handed,    \* the line handed over last, NULL before the first
    pass

vars == <<file, next, handed, pass>>

Init == next = 1 /\ handed = NULL /\ pass = 1

Take ==
    /\ next <= Len(TextsOf(file))
    /\ handed' = TextsOf(file)[next]
    /\ next' = next + 1
    /\ UNCHANGED <<file, pass>>

(* Not before the first pass has seen every line.                          *)
Again ==
    /\ pass = 1
    /\ next > Len(TextsOf(file))
    /\ pass' = 2
    /\ next' = 1
    /\ UNCHANGED <<file, handed>>

Spec == Init /\ [][Take \/ Again]_vars
===============================================================================
