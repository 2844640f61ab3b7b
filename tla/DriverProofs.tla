------------------------------ MODULE DriverProofs ------------------------------
(***************************************************************************)
(* Proofs about the whole program, for every command line, every file and  *)
(* every choice of failing calls: each argument leaves its output files    *)
(* complete, removed or as they were, and touches no others; and what is   *)
(* proved of one call of assembleFile holds in each, whatever was          *)
(* assembled before.                                                       *)
(***************************************************************************)
EXTENDS Driver, ContentProofs

base == argv[arg].base

(* What assembleFile finds when it is called for a base name.              *)
Found(b) == [e \in Extensions |-> Aged(store[b][e])]

(* The invariant: the store holds files, and a call that is active works   *)
(* on an argument and is where OutputInv says it is.                       *)
DriverInv ==
    /\ argv \in Seq(Argument)
    /\ arg \in Nat \ {0}
    /\ store = [b \in Bases |-> store[b]]
    /\ \A b \in Bases : IsDisk(store[b])
    /\ inCall \in BOOLEAN
    /\ inCall => /\ status = "running"
                 /\ arg <= Len(argv)
                 /\ OutputInv(Found(base))

-------------------------------------------------------------------------------
(* The arguments that are left are arguments.                              *)
LEMMA CurrentArgument ==
    ASSUME argv \in Seq(Argument), arg \in Nat \ {0}, arg <= Len(argv)
    PROVE  argv[arg] \in Argument /\ base \in Bases
<1>1. arg \in 1..Len(argv)
  OBVIOUS
<1>2. argv[arg] \in Argument
  BY <1>1
<1> QED BY <1>2 DEF base, Argument

(* A file of an earlier call is one no call has written yet, with the same *)
(* contents.                                                               *)
LEMMA AgedFile ==
    ASSUME NEW f, IsFile(f)
    PROVE  /\ IsFile(Aged(f)) /\ Aged(f).state # "new"
           /\ Contents(Aged(f)) = Contents(f)
<1>1. CASE f.state = "new"
  BY <1>1 DEF Aged, Contents, IsFile, File
<1>2. CASE f.state # "new"
  BY <1>2 DEF Aged, Contents, IsFile, File
<1> QED BY <1>1, <1>2

(* So a call finds no new file, and the contents that are in the store.    *)
LEMMA FoundFiles ==
    ASSUME NEW b \in Bases, IsDisk(store[b])
    PROVE  /\ IsDisk(Found(b))
           /\ \A e \in Extensions : Found(b)[e].state # "new"
           /\ \A e \in Extensions : Contents(Found(b)[e]) = Contents(store[b][e])
<1>1. ASSUME NEW e \in Extensions
      PROVE  /\ IsFile(Aged(store[b][e])) /\ Aged(store[b][e]).state # "new"
             /\ Contents(Aged(store[b][e])) = Contents(store[b][e])
  BY AgedFile DEF IsDisk
<1> QED BY <1>1 DEF Found, IsDisk

(* assembleFile has no step after its end.                                 *)
LEMMA StepIsNotOver == ASSUME Step PROVE pc # "done" /\ pc # "crashed"
BY DEF Step, FirstPassStep, Pass1, SkipLine, DirectiveLine, EntryLine, ExternLine,
       InstructionLine, CrashLine, EndFirstPass, AtUsableLine, AtLine,
       FirstPassFailed, OpenObject, writeObjFileHeader, SecondPassSkip,
       SecondPassLine, SecondPassEnd, appendDataImageToFile, generateEntriesFile,
       generateExternalsFile, removeOutputFiles

-------------------------------------------------------------------------------
(* Each step of the program keeps the invariant.                           *)

(* The steps of main and assemblePath around a call.                       *)
LEMMA MainKeepsInv ==
    ASSUME DriverInv, NoArguments \/ RejectName \/ CannotOpen \/ Return
    PROVE  DriverInv'
<1>1. ~inCall /\ inCall' = inCall /\ argv' = argv /\ store' = store
      /\ arg' \in {arg, arg + 1}
  BY DEF NoArguments, RejectName, CannotOpen, Return, AtArgument, InMain, NextArgument
<1>2. inCall' \in BOOLEAN /\ ~inCall'
  BY <1>1, Zenon DEF DriverInv
<1> QED BY <1>1, <1>2 DEF DriverInv

(* A call starts with files that are not its own.                          *)
LEMMA StartFileKeepsInv == ASSUME DriverInv, StartFile PROVE DriverInv'
<1>1. /\ arg <= Len(argv) /\ inCall' = TRUE /\ status' = "running"
      /\ argv' = argv /\ arg' = arg /\ store' = store
      /\ pc' = "firstPass" /\ failed' = FALSE /\ disk' = Found(base)
  BY DEF StartFile, AtArgument, InMain, Locals, Found, base
<1>2. IsDisk(disk')
  BY <1>1, CurrentArgument, FoundFiles DEF DriverInv
<1>3. Found(base)' = Found(base)
  BY <1>1 DEF Found, base
<1>4. OutputInv(Found(base))'
  BY <1>1, <1>2, <1>3 DEF OutputInv, BeforeOutput
<1> QED BY <1>1, <1>4 DEF DriverInv

(* While a call runs, the store does not change.                           *)
LEMMA CallKeepsInv == ASSUME DriverInv, assembleFile PROVE DriverInv'
<1>1. /\ inCall /\ Step /\ OutputInv(Found(base))
      /\ argv' = argv /\ arg' = arg /\ store' = store
      /\ inCall' = inCall /\ status' = status
  BY DEF assembleFile, mainVars, DriverInv
<1>2. PICK old : old = Found(base)
  OBVIOUS
<1>3. OutputInv(old)'
  BY <1>1, <1>2, StepKeepsOutput
<1>4. Found(base)' = old
  BY <1>1, <1>2 DEF Found, base
<1>5. OutputInv(Found(base))'
  BY <1>3, <1>4 DEF OutputInv
<1> QED BY <1>1, <1>5 DEF DriverInv

(* When it ends, its files become those of its base name.                  *)
LEMMA CloseFileKeepsInv == ASSUME DriverInv, CloseFile PROVE DriverInv'
<1>1. /\ inCall' = FALSE /\ argv' = argv /\ arg' = arg + 1
      /\ store' = [store EXCEPT ![base] = disk] /\ IsDisk(disk)
  BY DEF CloseFile, DriverInv, OutputInv, base
<1>2. store' = [b \in Bases |-> IF b = base THEN disk ELSE store[b]]
  BY <1>1 DEF DriverInv
<1>3. store' = [b \in Bases |-> store'[b]] /\ \A b \in Bases : IsDisk(store'[b])
  BY <1>1, <1>2 DEF DriverInv
<1>4. inCall' \in BOOLEAN /\ ~inCall'
  BY <1>1, Zenon
<1> QED BY <1>1, <1>3, <1>4 DEF DriverInv

(* The invariant of the program.                                           *)
LEMMA RunKeepsInv ==
    ASSUME DriverInv, [Run \/ Ended]_driverVars PROVE DriverInv'
<1>1. CASE Run
  BY <1>1, MainKeepsInv, StartFileKeepsInv, CallKeepsInv, CloseFileKeepsInv DEF Run
<1>2. CASE UNCHANGED driverVars
  <2>1. /\ argv' = argv /\ arg' = arg /\ store' = store /\ inCall' = inCall
        /\ status' = status /\ UNCHANGED vars
    BY <1>2 DEF driverVars, mainVars
  <2>2. PICK old : old = Found(base)
    OBVIOUS
  <2>3. OutputInv(old) => OutputInv(old)'
    BY <2>1, StepKeepsOutput
  <2>4. Found(base)' = old
    BY <2>1, <2>2 DEF Found, base
  <2>5. OutputInv(Found(base)) => OutputInv(Found(base))'
    BY <2>2, <2>3, <2>4 DEF OutputInv
  <2> QED BY <2>1, <2>5 DEF DriverInv
<1> QED BY <1>1, <1>2 DEF Ended

(* It holds before the first argument.                                     *)
LEMMA InitHasInv == ASSUME DriverInit PROVE DriverInv
<1>1. PICK f \in {Absent, Stale} : store = [b \in Bases |-> [e \in Extensions |-> f]]
  BY DEF DriverInit
<1>2. \A b \in Bases : IsDisk(store[b])
  BY <1>1 DEF IsDisk, IsFile, Absent, Stale, File
<1>3. argv \in Seq(Argument) /\ arg = 1
  BY CommandLinesAssumption DEF DriverInit
<1>4. inCall \in BOOLEAN /\ ~inCall
  BY Zenon DEF DriverInit
<1> QED BY <1>1, <1>2, <1>3, <1>4 DEF DriverInv

-------------------------------------------------------------------------------
(* The steps, seen as steps of Batch.                                      *)


(* The steps of main and assemblePath are steps of the promise.            *)
LEMMA MainImplements ==
    ASSUME DriverInv, NoArguments \/ RejectName \/ CannotOpen \/ Return
    PROVE  B!Handle \/ B!Finish
<1>1. /\ ~Dead /\ ~Dead' /\ argv' = argv /\ store' = store /\ status = "running"
  BY DEF NoArguments, RejectName, CannotOpen, Return, AtArgument, InMain,
         NextArgument, Dead
<1>2. \A b \in Bases : Left(b)' = Left(b)
  BY <1>1 DEF Left
<1>3. CASE RejectName \/ CannotOpen
  <2>1. arg <= Len(argv) /\ arg' = arg + 1 /\ status' = "running"
    BY <1>3 DEF RejectName, CannotOpen, AtArgument, InMain, NextArgument
  <2>2. base \in Bases
    BY <2>1, CurrentArgument DEF DriverInv
  <2> QED BY <1>1, <1>2, <2>1, <2>2 DEF B!Handle, base
<1>4. CASE NoArguments
  <2>1. Len(argv) = 0 /\ arg > Len(argv) /\ arg' = arg /\ status' = "EXIT_FAILURE"
    BY <1>4 DEF NoArguments, DriverInv
  <2> QED BY <1>1, <1>2, <2>1 DEF B!Finish
<1>5. CASE Return
  <2>1. arg > Len(argv) /\ arg' = arg /\ status' = "EXIT_SUCCESS"
    BY <1>5 DEF Return
  <2> QED BY <1>1, <1>2, <2>1 DEF B!Finish
<1> QED BY <1>3, <1>4, <1>5

(* Nothing is seen of a call until it ends or the process dies; and then   *)
(* the files are those it found.                                           *)
LEMMA CallImplements ==
    ASSUME DriverInv, DriverInv', StartFile \/ assembleFile
    PROVE  B!Die \/ UNCHANGED B!vars
<1>1. /\ ~Dead /\ argv' = argv /\ arg' = arg /\ store' = store
      /\ arg <= Len(argv) /\ status = "running" /\ status' = "running" /\ inCall'
  BY StepIsNotOver
     DEF StartFile, assembleFile, AtArgument, InMain, mainVars, Dead, DriverInv
<1>2. base \in Bases /\ base' = base
  BY <1>1, CurrentArgument DEF DriverInv, base
<1>3. CASE ~Dead'
  <2>1. \A b \in Bases : Left(b)' = Left(b)
    BY <1>1, <1>3 DEF Left
  <2> QED BY <1>1, <1>3, <2>1 DEF B!vars
<1>4. CASE Dead'
  <2>1. disk' = Found(base)' /\ Found(base)' = Found(base)
    BY <1>1, <1>4 DEF DriverInv, Dead, OutputInv, BeforeOutput, Found, base
  <2>2. \A e \in Extensions : Contents(disk'[e]) = Contents(store[base][e])
    BY <1>2, <2>1, FoundFiles DEF DriverInv
  <2>3. \A b \in Bases : Left(b) = store[b] /\ Left(b)' = IF b = base THEN disk' ELSE store[b]
    BY <1>1, <1>2, <1>4 DEF Left, base
  <2>4. \A b \in Bases : \A e \in Extensions :
          Contents(Left(b)'[e]) = Contents(Left(b)[e])
    BY <2>2, <2>3
  <2>5. UNCHANGED [b \in Bases |-> [e \in Extensions |-> Contents(Left(b)[e])]]
    BY <2>4 DEF Contents
  <2> QED BY <1>1, <1>4, <2>5 DEF B!Die
<1> QED BY <1>3, <1>4

(* The end of a call is the one step in which its files are seen.          *)
LEMMA CloseFileImplements ==
    ASSUME DriverInv, CloseFile PROVE B!Handle
<1>1. /\ inCall /\ ~inCall' /\ pc = "done" /\ ~Dead /\ ~Dead'
      /\ status = "running" /\ status' = "running"
      /\ argv' = argv /\ arg <= Len(argv) /\ arg' = arg + 1
      /\ store' = [store EXCEPT ![base] = disk]
  BY DEF CloseFile, DriverInv, Dead, base
<1>2. base \in Bases
  BY <1>1, CurrentArgument DEF DriverInv
<1>3. /\ \A b \in Bases : Left(b) = store[b] /\ Left(b)' = store'[b]
      /\ store'[base] = disk
      /\ \A b \in Bases \ {base} : store'[b] = store[b]
  BY <1>1, <1>2 DEF Left, DriverInv
<1> DEFINE after == [e \in Extensions |-> Contents(disk[e])]
           before == [e \in Extensions |-> Contents(store[base][e])]
<1>4. after \in {before, B!Nothing} \/ B!Complete(after)
  <2>1. OutputInv(Found(base))
    BY <1>1 DEF DriverInv
  <2>2. CASE error # GOOD
    <3>1. disk = Found(base)
      BY <1>1, <2>1, <2>2 DEF OutputInv
    <3>2. \A e \in Extensions : Contents(disk[e]) = Contents(store[base][e])
      BY <1>2, <3>1, FoundFiles DEF DriverInv
    <3> QED BY <3>2
  <2>3. CASE error = GOOD /\ failed
    <3>1. \A e \in Extensions : Contents(disk[e]) = <<>>
      BY <1>1, <2>1, <2>3 DEF OutputInv, Contents, Absent, File
    <3> QED BY <3>1 DEF B!Nothing
  <2>4. CASE error = GOOD /\ ~failed
    <3>1. /\ ObjectComplete(disk["ob"])
          /\ \A e \in {"ent", "ext"} : TableComplete(disk[e])
      BY <1>1, <2>1, <2>4 DEF OutputInv
    <3>2. after["ob"] = <<disk["ob"].header, disk["ob"].rows>> /\ disk["ob"].header # <<>>
      BY <3>1 DEF ObjectComplete, Contents, Extensions
    <3>3. ASSUME NEW e \in {"ent", "ext"}
          PROVE  \/ after[e] = <<>>
                 \/ after[e] = <<disk[e].header, disk[e].rows>> /\ disk[e].rows # <<>>
      BY <3>1 DEF TableComplete, Contents, Extensions, Absent, File
    <3> HIDE DEF after
    <3> QED BY <3>2, <3>3 DEF B!Complete
  <2> QED BY <2>2, <2>3, <2>4
<1> DEFINE files == [b \in Bases |-> [e \in Extensions |-> Contents(Left(b)[e])]]
<1>5. files[base] = before /\ files'[base] = after
  BY <1>2, <1>3
<1>6. \A b \in Bases \ {base} : files'[b] = files[b]
  BY <1>3
<1> HIDE DEF files, before, after
<1>7. files'[base] \in {files[base], B!Nothing} \/ B!Complete(files'[base])
  BY <1>4, <1>5
<1> QED BY <1>1, <1>6, <1>7 DEF B!Handle, base, files

-------------------------------------------------------------------------------
(* The program keeps the promise: each argument has its turn, in order,    *)
(* and its output files become complete, vanish or stay as they were; no   *)
(* argument touches the files of another base name.                        *)
THEOREM DriverImplementsBatch == DriverSpec => ImplementsBatch
<1>1. DriverInit => DriverInv
  BY InitHasInv
<1>2. DriverInv /\ [Run \/ Ended]_driverVars => DriverInv'
  BY RunKeepsInv
<1>3. DriverInit => B!Init
  BY DEF DriverInit, B!Init, Dead
<1>4. DriverInv /\ DriverInv' /\ [Run \/ Ended]_driverVars
        => [B!Handle \/ B!Die \/ B!Finish]_B!vars
  <2> SUFFICES ASSUME DriverInv, DriverInv', [Run \/ Ended]_driverVars
               PROVE  [B!Handle \/ B!Die \/ B!Finish]_B!vars
    OBVIOUS
  <2>1. CASE Run
    BY <2>1, MainImplements, CallImplements, CloseFileImplements DEF Run
  <2>2. CASE UNCHANGED driverVars
    <3>1. /\ UNCHANGED <<argv, arg, store, inCall, status, pc, disk>>
      BY <2>2 DEF driverVars, mainVars, vars, firstPassVars, outputVars
    <3>2. \A b \in Bases : Left(b)' = Left(b)
      BY <3>1 DEF Left, Dead
    <3> QED BY <3>1, <3>2 DEF B!vars, Dead
  <2> QED BY <2>1, <2>2 DEF Ended
<1> QED BY <1>1, <1>2, <1>3, <1>4, PTL DEF DriverSpec, ImplementsBatch, B!Spec

-------------------------------------------------------------------------------
(* What holds in each call.                                                *)

(* The invariant: before the first call nothing has run; from then on the  *)
(* variables are those of the call that runs, or of the last one.          *)
CallsInv == IF inCall \/ pc = "done" THEN ContentInv ELSE pc = "firstPass"

(* A call starts with fresh variables, whatever the last one left in them. *)
LEMMA StartFileBegins ==
    ASSUME DriverInv, StartFile PROVE Begun' /\ inCall'
<1>1. /\ arg <= Len(argv) /\ argv[arg].text # NULL /\ inCall' = TRUE
      /\ Locals(argv[arg].text) /\ disk' = Found(base)
  BY DEF StartFile, AtArgument, Found, base
<1>2. argv[arg] \in Argument /\ base \in Bases
  BY <1>1, CurrentArgument DEF DriverInv
<1>3. src' \in Sources
  BY <1>1, <1>2 DEF Locals, Argument
<1>4. IsDisk(Found(base)) /\ \A e \in Extensions : Found(base)[e].state # "new"
  BY <1>2, FoundFiles DEF DriverInv
<1>5. IsDisk(disk') /\ \A e \in Extensions : disk'[e].state # "new"
  BY <1>1, <1>4
<1> QED BY <1>1, <1>3, <1>5 DEF Locals, Begun, Init, IsDisk

(* Any other step of the program is one of the active call or leaves the   *)
(* variables of the last one alone.                                        *)
LEMMA RunIsCallOrNot ==
    ASSUME [Run \/ Ended]_driverVars
    PROVE  \/ StartFile
           \/ inCall /\ Step /\ UNCHANGED mainVars
           \/ /\ UNCHANGED vars
              /\ \/ UNCHANGED <<store, inCall>>
                 \/ CloseFile
BY DEF Run, Ended, driverVars, mainVars, NoArguments, RejectName, CannotOpen,
       NextArgument, assembleFile, CloseFile, Return

(* Each step keeps the invariant, or begins a call.                        *)
LEMMA RunKeepsCalls ==
    ASSUME DriverInv, CallsInv, [Run \/ Ended]_driverVars
    PROVE  CallsInv' \/ (Begun' /\ inCall')
<1>1. CASE StartFile
  BY <1>1, StartFileBegins
<1>2. CASE inCall /\ Step /\ UNCHANGED mainVars
  <2>1. ContentInv' /\ inCall' = inCall
    BY <1>2, StepKeepsContent DEF CallsInv, mainVars
  <2> QED BY <1>2, <2>1 DEF CallsInv
<1>3. CASE UNCHANGED vars /\ UNCHANGED <<store, inCall>>
  <2>1. pc' = pc /\ inCall' = inCall
    BY <1>3 DEF vars, firstPassVars
  <2>2. ContentInv => ContentInv'
    BY <1>3, StepKeepsContent
  <2> QED BY <2>1, <2>2 DEF CallsInv
<1>4. CASE UNCHANGED vars /\ CloseFile
  <2>1. pc' = "done" /\ pc = "done"
    BY <1>4 DEF CloseFile, vars, firstPassVars
  <2>2. ContentInv'
    BY <1>4, <2>1, StepKeepsContent DEF CallsInv
  <2> QED BY <2>1, <2>2 DEF CallsInv
<1> QED BY <1>1, <1>2, <1>3, <1>4, RunIsCallOrNot

(* The invariant of the program, for any command line.                     *)
THEOREM DriverInvariant == DriverSpec => []CallsInv
<1>1. DriverInit => DriverInv /\ CallsInv
  <2> SUFFICES ASSUME DriverInit PROVE DriverInv /\ CallsInv
    OBVIOUS
  <2>1. pc = "firstPass" /\ inCall = FALSE
    BY DEF DriverInit
  <2> QED BY <2>1, InitHasInv DEF CallsInv
<1>2. DriverInv /\ [Run \/ Ended]_driverVars => DriverInv'
  BY RunKeepsInv
<1>3. DriverInv /\ CallsInv /\ [Run \/ Ended]_driverVars
        => CallsInv' \/ (Begun' /\ inCall')
  BY RunKeepsCalls
<1>4. Begun /\ inCall => CallsInv
  BY BegunHasContent DEF CallsInv
<1> QED BY <1>1, <1>2, <1>3, <1>4, PTL DEF DriverSpec

(* In every call: a part of the output files is never left, nor files of   *)
(* an earlier run or call beside those of this one.                        *)
THEOREM DriverAllOrNothing == DriverSpec => []AllOrNothing
<1>1. CallsInv => AllOrNothing
  <2>1. CASE ContentInv
    BY <2>1, FilesAllOrNothing DEF ContentInv, BaseInv
  <2>2. CASE pc = "firstPass"
    BY <2>2 DEF AllOrNothing
  <2> QED BY <2>1, <2>2 DEF CallsInv
<1> QED BY <1>1, DriverInvariant, PTL

(* In every call the passes agree, a rejected line leaves nothing, the     *)
(* .ent file is complete and the .ext file true: no symbol, address or use *)
(* of a file assembled before gets into them.                              *)
THEOREM DriverOutputIsTrue ==
    DriverSpec =>
      [](PassesAgree /\ RejectedLinesLeaveNothing /\ EntriesComplete /\ ExternalsSound)
<1> DEFINE Told ==
             PassesAgree /\ RejectedLinesLeaveNothing /\ EntriesComplete /\ ExternalsSound
<1>1. CallsInv => Told
  <2>1. CASE ContentInv
    <3>1. PassesAgree
      BY <2>1 DEF ContentInv, BaseInv, AddressInv, PassesAgree
    <3> QED BY <2>1, <3>1, RejectedIsRemoved, EntriesAreListed, ExternalsAreTrue
            DEF ContentInv, BaseInv
  <2>2. CASE pc = "firstPass"
    BY <2>2 DEF PassesAgree, RejectedLinesLeaveNothing, EntriesComplete, ExternalsSound,
                Produced
  <2> QED BY <2>1, <2>2 DEF CallsInv
<1> HIDE DEF Told
<1>2. DriverSpec => []Told
  BY <1>1, DriverInvariant, PTL
<1> QED BY <1>2 DEF Told

(* And, while memory lasts and rows can be written, nothing is missing: in *)
(* every call the layout of the object file, its references and the list   *)
(* of externals are those of the program of that call.                     *)
THEOREM DriverOutputIsComplete ==
    ASSUME "malloc" \notin Faults, "fprintf" \notin Faults
    PROVE  DriverSpec => [](ObjectLayout /\ ReferencesResolved /\ ExternalsComplete)
<1> DEFINE Told == ObjectLayout /\ ReferencesResolved /\ ExternalsComplete
<1>1. CallsInv => Told
  <2>1. CASE ContentInv
    BY <2>1, ObjectIsLaidOut, ReferencesAreResolved, ExternalsAreListed DEF ContentInv
  <2>2. CASE pc = "firstPass"
    BY <2>2 DEF ObjectLayout, ReferencesResolved, ExternalsComplete, Produced
  <2> QED BY <2>1, <2>2 DEF CallsInv
<1> HIDE DEF Told
<1>2. DriverSpec => []Told
  BY <1>1, DriverInvariant, PTL
<1> QED BY <1>2 DEF Told

-------------------------------------------------------------------------------
(* The types.                                                              *)

(* Files of an earlier call have the types of files.                       *)
LEMMA AgedType ==
    ASSUME NEW e \in Extensions, NEW f, FileType(e, f) PROVE FileType(e, Aged(f))
BY DEF FileType, Aged, File

(* The invariant: what is in the store, and the variables of the call.     *)
StoreTypes == \A b \in Bases : FileTypes(store[b])

CallTypes == inCall \/ pc = "done" => TypesInv

(* Each step keeps it, or begins a call.                                   *)
LEMMA RunKeepsTypes ==
    ASSUME DriverInv, StoreTypes, CallTypes, [Run \/ Ended]_driverVars
    PROVE  StoreTypes' /\ (CallTypes' \/ (Begun' /\ FileTypes(disk)'))
<1>1. CASE StartFile
  <2>1. store' = store /\ arg <= Len(argv) /\ disk' = Found(base)
    BY <1>1 DEF StartFile, AtArgument, Found, base
  <2>2. base \in Bases
    BY <2>1, CurrentArgument DEF DriverInv
  <2>3. FileTypes(disk')
    BY <2>1, <2>2, AgedType DEF StoreTypes, FileTypes, Found
  <2> QED BY <1>1, <2>1, <2>3, StartFileBegins DEF StoreTypes, FileTypes
<1>2. CASE inCall /\ Step /\ UNCHANGED mainVars
  BY <1>2, StepKeepsTypes DEF CallTypes, StoreTypes, mainVars
<1>3. CASE UNCHANGED vars /\ UNCHANGED <<store, inCall>>
  <2>1. pc' = pc
    BY <1>3 DEF vars, firstPassVars
  <2>2. TypesInv => TypesInv'
    BY <1>3, StepKeepsTypes
  <2> QED BY <1>3, <2>1, <2>2 DEF CallTypes, StoreTypes
<1>4. CASE UNCHANGED vars /\ CloseFile
  <2>1. inCall /\ pc = "done" /\ store' = [store EXCEPT ![base] = disk]
    BY <1>4 DEF CloseFile, base
  <2>2. TypesInv /\ TypesInv'
    BY <1>4, <2>1, StepKeepsTypes DEF CallTypes
  <2>3. FileTypes(disk)
    BY <2>2 DEF TypesInv, TypeInv, OutputType
  <2>4. \A b \in Bases : store'[b] = IF b = base THEN disk ELSE store[b]
    BY <2>1 DEF DriverInv
  <2>5. StoreTypes'
    BY <2>3, <2>4 DEF StoreTypes
  <2> QED BY <2>2, <2>5 DEF CallTypes
<1> QED BY <1>1, <1>2, <1>3, <1>4, RunIsCallOrNot

(* In every call the variables keep their types, with the files of earlier *)
(* calls on the disk.                                                      *)
THEOREM DriverTypes == DriverSpec => [](inCall => AsmTypeOK)
<1>1. DriverInit => DriverInv /\ StoreTypes /\ CallTypes
  <2> SUFFICES ASSUME DriverInit PROVE StoreTypes /\ CallTypes
    BY InitHasInv
  <2>1. PICK f \in {Absent, Stale} : store = [b \in Bases |-> [e \in Extensions |-> f]]
    BY DEF DriverInit
  <2>2. StoreTypes
    BY <2>1, AbsentType DEF StoreTypes, FileTypes
  <2> QED BY <2>2 DEF DriverInit, CallTypes
<1>2. DriverInv /\ [Run \/ Ended]_driverVars => DriverInv'
  BY RunKeepsInv
<1>3. DriverInv /\ StoreTypes /\ CallTypes /\ [Run \/ Ended]_driverVars
        => StoreTypes' /\ (CallTypes' \/ (Begun' /\ FileTypes(disk)'))
  BY RunKeepsTypes
<1>4. Begun /\ FileTypes(disk) => CallTypes
  BY BegunHasTypes DEF CallTypes
<1>5. CallTypes => (inCall => AsmTypeOK)
  BY TypesAreRight DEF CallTypes
<1> QED BY <1>1, <1>2, <1>3, <1>4, <1>5, PTL DEF DriverSpec
===============================================================================
