--------------------------------- MODULE Batch ---------------------------------
(***************************************************************************)
(* What the assembler promises for a command line: the arguments are       *)
(* handled one after the other, and each leaves of the output files of its *)
(* base name either those that were there, or none, or a complete set of   *)
(* its own; files of other base names it does not touch.                   *)
(***************************************************************************)
EXTENDS Integers, Sequences

CONSTANTS Bases, Extensions

VARIABLES
    argv,    \* the arguments, each with its base name
    arg,     \* the next one to handle
    files,   \* base name -> extension -> <<header, rows>>, <<>> if there is none
    ended    \* the process is over

vars == <<argv, arg, files, ended>>

Nothing == [e \in Extensions |-> <<>>]

(* An object file with a header, and no table file without rows.           *)
Complete(outputs) ==
    /\ outputs["ob"] # <<>> /\ outputs["ob"][1] # <<>>
    /\ \A e \in {"ent", "ext"} : outputs[e] = <<>> \/ outputs[e][2] # <<>>

Init == arg = 1 /\ ended = FALSE

Handle ==
    /\ ~ended
    /\ arg <= Len(argv)
    /\ LET base == argv[arg].base
       IN  /\ files'[base] \in {files[base], Nothing} \/ Complete(files'[base])
           /\ \A b \in Bases \ {base} : files'[b] = files[b]
    /\ arg' = arg + 1
    /\ UNCHANGED <<argv, ended>>

(* A process that dies leaves what it found.                               *)
Die ==
    /\ ~ended
    /\ arg <= Len(argv)
    /\ ended' = TRUE
    /\ UNCHANGED <<argv, arg, files>>

Finish ==
    /\ ~ended
    /\ arg > Len(argv)
    /\ ended' = TRUE
    /\ UNCHANGED <<argv, arg, files>>

Spec == Init /\ [][Handle \/ Die \/ Finish]_vars
===============================================================================
