--------------------------------- MODULE Driver --------------------------------
(***************************************************************************)
(* The whole program: main (main.c) calls assemblePath (assembler.c) for   *)
(* each argument, and that calls assembleFile.  Each call starts with its  *)
(* own local variables; what one call leaves for the next are the files.   *)
(***************************************************************************)
EXTENDS Assembler

CONSTANTS
    Bases,          \* the file names up to their first ".as"
    CommandLines    \* sequences of arguments

(* An argument is a file name: whether ".as" occurs in it, what stands     *)
(* before the first one, and the program in the file, NULL if no file of   *)
(* that name can be opened.                                                *)
Argument == [base : Bases, hasExtension : BOOLEAN, text : {NULL} \cup Sources]

ASSUME CommandLinesAssumption == CommandLines \subseteq Seq(Argument)

VARIABLES
    argv,
    arg,      \* main's i
    store,    \* the output files by base name, as of the last call's end
    inCall,   \* assembleFile is running
    status    \* "running", or what main returned

mainVars == <<argv, arg, store, inCall, status>>

driverVars == <<mainVars, vars>>

(* The local variables of assembleFile and of what it calls.               *)
Locals(program) ==
    /\ src' = program
    /\ pos' = 1
    /\ symbolTable' = <<>>
    /\ ic' = FIRST_MEMORY_ADDRESS
    /\ dc' = 0
    /\ dataImage' = <<>>
    /\ error' = GOOD
    /\ hasErrors' = FALSE
    /\ pc' = "firstPass"
    /\ codeIc' = FIRST_MEMORY_ADDRESS
    /\ ec' = GOOD
    /\ externalTable' = <<>>
    /\ failed' = FALSE

(* What the last call left has become what an earlier run left.            *)
Aged(file) == IF file.state = "new" THEN File("stale", file.header, file.rows) ELSE file

(* At first no call is active; the values of its variables do not matter.  *)
DriverInit ==
    /\ argv \in CommandLines
    /\ arg = 1
    /\ \E f \in {Absent, Stale} : store = [b \in Bases |-> [e \in Extensions |-> f]]
    /\ inCall = FALSE
    /\ status = "running"
    /\ src = <<>> /\ pos = 1 /\ symbolTable = <<>> /\ dataImage = <<>> /\ dc = 0
    /\ ic = FIRST_MEMORY_ADDRESS /\ error = GOOD /\ hasErrors = FALSE
    /\ pc = "firstPass" /\ codeIc = FIRST_MEMORY_ADDRESS /\ ec = GOOD
    /\ externalTable = <<>> /\ failed = FALSE
    /\ disk = [e \in Extensions |-> Absent]

InMain == status = "running" /\ ~inCall

NoArguments ==
    /\ InMain
    /\ argv = <<>>
    /\ status' = "EXIT_FAILURE"
    /\ UNCHANGED <<argv, arg, store, inCall, vars>>

AtArgument == InMain /\ arg <= Len(argv)

NextArgument == arg' = arg + 1 /\ UNCHANGED <<argv, store, inCall, status, vars>>

(* assemblePath: a message, and on to the next argument.                   *)
RejectName ==
    /\ AtArgument
    /\ ~argv[arg].hasExtension
    /\ NextArgument

CannotOpen ==
    /\ AtArgument
    /\ argv[arg].hasExtension
    /\ argv[arg].text = NULL \/ "fopen" \in Faults
    /\ NextArgument

StartFile ==
    /\ AtArgument
    /\ argv[arg].hasExtension
    /\ argv[arg].text # NULL
    /\ inCall' = TRUE
    /\ Locals(argv[arg].text)
    /\ disk' = [e \in Extensions |-> Aged(store[argv[arg].base][e])]
    /\ UNCHANGED <<argv, arg, store, status>>

assembleFile == inCall /\ Step /\ UNCHANGED mainVars

(* Variant with a bug: the output files are named after the first file.    *)
CloseFile_FirstName ==
    /\ inCall
    /\ pc = "done"
    /\ store' = [store EXCEPT ![argv[1].base] = disk]
    /\ inCall' = FALSE
    /\ arg' = arg + 1
    /\ UNCHANGED <<argv, status, vars>>

CloseFile ==
    /\ inCall
    /\ pc = "done"
    /\ store' = [store EXCEPT ![argv[arg].base] = disk]
    /\ inCall' = FALSE
    /\ arg' = arg + 1
    /\ UNCHANGED <<argv, status, vars>>

(* Whatever became of the files.                                           *)
Return ==
    /\ InMain
    /\ argv # <<>>
    /\ arg > Len(argv)
    /\ status' = "EXIT_SUCCESS"
    /\ UNCHANGED <<argv, arg, store, inCall, vars>>

Run ==
    \/ NoArguments \/ RejectName \/ CannotOpen \/ StartFile \/ assembleFile
    \/ CloseFile \/ Return

Dead == inCall /\ pc = "crashed"

Ended == (status # "running" \/ Dead) /\ UNCHANGED driverVars

DriverSpec ==
    DriverInit /\ [][Run \/ Ended]_driverVars /\ WF_driverVars(Run)
-------------------------------------------------------------------------------
(* The outputs of a base name, whoever wrote them.                         *)
Contents(file) ==
    IF file.state = "absent" THEN <<>> ELSE <<file.header, file.rows>>

(* While a call runs its files change one by one; a process that dies in   *)
(* it leaves them as they are then.                                        *)
Left(b) == IF Dead /\ b = argv[arg].base THEN disk ELSE store[b]

B == INSTANCE Batch WITH
        files <- [b \in Bases |-> [e \in Extensions |-> Contents(Left(b)[e])]],
        ended <- (status # "running" \/ Dead)

(* Each argument has its turn, whatever became of those before it; it      *)
(* leaves the files of its base name as they were, removes them all, or    *)
(* replaces them all; no other files change, and none when the process     *)
(* dies.                                                                   *)
ImplementsBatch == B!Spec

(* The program ends: main returns or the process dies.                     *)
DriverTermination == <>(status # "running" \/ Dead)
===============================================================================
