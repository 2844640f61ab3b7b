--------------------------- MODULE AssemblerProofs ----------------------------
(***************************************************************************)
(* Proofs about the order of things in assembleFile, for every program and *)
(* every choice of failing calls: which files there are at which           *)
(* statement, that the passes see each line at the same address, and that  *)
(* no rejected line is lost on the way to the end.                         *)
(***************************************************************************)
EXTENDS Assembler, FirstPassProofs

IsFile(f) == f = File(f.state, f.header, f.rows)

IsDisk(d) ==
    /\ d = [e \in Extensions |-> d[e]]
    /\ \A e \in Extensions : IsFile(d[e])

ObjectOpen(f) == f.state = "new"

ObjectComplete(f) == f.state = "new" /\ f.header # <<>>

TableComplete(f) == f = Absent \/ (f.state = "new" /\ f.rows # <<>>)

BeforeOutput == {"firstPass", "crashed", "firstPassDone"}

(* Which files are there at which statement, when a call found the files   *)
(* old.  A failure before the data image is written is remembered until    *)
(* then, one in the entries until the externals are written.               *)
OutputInv(old) ==
    /\ failed \in BOOLEAN
    /\ IsDisk(disk)
    /\ pc \in BeforeOutput => disk = old /\ ~failed
    /\ pc \notin BeforeOutput \cup {"done"} => error = GOOD
    /\ pc = "header" => ~failed /\ ObjectOpen(disk["ob"])
    /\ pc \in {"secondPass", "appendData"} =>
         ObjectOpen(disk["ob"]) /\ (~failed => ObjectComplete(disk["ob"]))
    /\ pc \in {"entries", "externals"} /\ ~failed => ObjectComplete(disk["ob"])
    /\ pc = "externals" /\ ~failed => TableComplete(disk["ent"])
    /\ pc = "cleanup" => failed
    /\ pc = "done" =>
         IF error # GOOD THEN disk = old
         ELSE IF failed THEN \A e \in Extensions : disk[e] = Absent
         ELSE /\ ObjectComplete(disk["ob"])
              /\ TableComplete(disk["ent"])
              /\ TableComplete(disk["ext"])

-------------------------------------------------------------------------------
(* Writing one file leaves the others.                                     *)
LEMMA WriteOne ==
    ASSUME IsDisk(disk), NEW e \in Extensions, NEW f, IsFile(f), Write(e, f)
    PROVE  /\ IsDisk(disk')
           /\ disk'[e] = f
           /\ \A d \in Extensions \ {e} : disk'[d] = disk[d]
<1>1. disk' = [d \in Extensions |-> IF d = e THEN f ELSE disk[d]]
  BY DEF Write, IsDisk
<1> QED BY <1>1 DEF IsDisk

(* Appending rows to the object file keeps its state and its header.       *)
LEMMA AppendRows ==
    ASSUME IsDisk(disk), NEW r, Write("ob", [disk["ob"] EXCEPT !.rows = r])
    PROVE  /\ IsDisk(disk')
           /\ disk'["ob"].state = disk["ob"].state
           /\ disk'["ob"].header = disk["ob"].header
<1>1. disk["ob"] = File(disk["ob"].state, disk["ob"].header, disk["ob"].rows)
  BY DEF IsDisk, IsFile, Extensions
<1>2. [disk["ob"] EXCEPT !.rows = r] = File(disk["ob"].state, disk["ob"].header, r)
  BY <1>1 DEF File
<1>3. IsFile(File(disk["ob"].state, disk["ob"].header, r))
  BY DEF IsFile, File
<1>4. IsDisk(disk') /\ disk'["ob"] = File(disk["ob"].state, disk["ob"].header, r)
  BY <1>2, <1>3, WriteOne DEF Extensions
<1> QED BY <1>4 DEF File

-------------------------------------------------------------------------------
(* Each statement of assembleFile keeps the invariant.                     *)

(* The first pass touches no file.                                         *)
LEMMA FirstPassStepKeepsOutput ==
    ASSUME NEW old, OutputInv(old), FirstPassStep
    PROVE  OutputInv(old)'
<1>1. pc = "firstPass" /\ pc' \in BeforeOutput
  BY DEF FirstPassStep, Pass1, SkipLine, DirectiveLine, EntryLine, ExternLine,
         InstructionLine, CrashLine, EndFirstPass, AtUsableLine, AtLine, Advance,
         BeforeOutput
<1> QED BY <1>1 DEF FirstPassStep, outputVars, OutputInv, BeforeOutput

(* Neither does the end of a first pass that failed.                       *)
LEMMA FirstPassFailedKeepsOutput ==
    ASSUME NEW old, OutputInv(old), FirstPassFailed
    PROVE  OutputInv(old)'
BY DEF FirstPassFailed, Goto, outputVars, OutputInv, BeforeOutput

(* The object file is opened, or the output is cleaned up.                 *)
LEMMA OpenObjectKeepsOutput ==
    ASSUME NEW old, OutputInv(old), OpenObject
    PROVE  OutputInv(old)'
<1>1. PICK ok \in MayFail("fopen") :
        IF ok THEN Write("ob", New(<<>>, <<>>)) /\ Goto("header") /\ UNCHANGED failed
        ELSE failed' = TRUE /\ Goto("cleanup") /\ UNCHANGED disk
  BY DEF OpenObject
<1>2. pc = "firstPassDone" /\ error = GOOD /\ ~failed /\ IsDisk(disk)
  BY DEF OpenObject, OutputInv, BeforeOutput
<1>3. CASE ok
  <2>1. IsFile(New(<<>>, <<>>)) /\ New(<<>>, <<>>).state = "new"
    BY DEF IsFile, New, File
  <2>2. IsDisk(disk') /\ ObjectOpen(disk'["ob"])
    BY <1>1, <1>2, <1>3, <2>1, WriteOne DEF Extensions, ObjectOpen
  <2> QED BY <1>1, <1>2, <1>3, <2>2 DEF Goto, OutputInv, BeforeOutput
<1>4. CASE ~ok
  BY <1>1, <1>2, <1>4 DEF Goto, OutputInv, BeforeOutput
<1> QED BY <1>3, <1>4

(* A header that could not be written is remembered.                       *)
LEMMA HeaderKeepsOutput ==
    ASSUME NEW old, OutputInv(old), writeObjFileHeader
    PROVE  OutputInv(old)'
<1> DEFINE h == New(<<ic - FIRST_MEMORY_ADDRESS, dc>>, <<>>)
<1>1. PICK ok \in MayFail("fprintf") :
        IF ok THEN Write("ob", h) /\ UNCHANGED failed
        ELSE failed' = TRUE /\ UNCHANGED disk
  BY DEF writeObjFileHeader
<1>2. pc = "header" /\ error = GOOD /\ ~failed /\ IsDisk(disk) /\ ObjectOpen(disk["ob"])
  BY DEF writeObjFileHeader, OutputInv, BeforeOutput
<1>3. pc' = "secondPass" /\ error' = error
  BY DEF writeObjFileHeader, Goto
<1>4. CASE ok
  <2>1. IsFile(h) /\ ObjectComplete(h)
    BY DEF IsFile, ObjectComplete, New, File
  <2>2. IsDisk(disk') /\ disk'["ob"] = h
    <3> HIDE DEF h
    <3> QED BY <1>1, <1>2, <1>4, <2>1, WriteOne DEF Extensions
  <2> QED BY <1>1, <1>2, <1>3, <1>4, <2>1, <2>2
          DEF OutputInv, BeforeOutput, ObjectComplete, ObjectOpen
<1>5. CASE ~ok
  BY <1>1, <1>2, <1>3, <1>5 DEF OutputInv, BeforeOutput
<1> QED BY <1>4, <1>5

(* A line of the second pass adds at most a row to the object file.        *)
LEMMA SecondPassLineKeepsOutput ==
    ASSUME NEW old, OutputInv(old), SecondPassLine
    PROVE  OutputInv(old)'
<1>1. /\ pc = "secondPass" /\ error = GOOD /\ IsDisk(disk) /\ ObjectOpen(disk["ob"])
      /\ ~failed => ObjectComplete(disk["ob"])
  BY DEF SecondPassLine, OutputInv, BeforeOutput
<1>2. pc' = "secondPass" /\ error' = error /\ failed' = failed
  BY DEF SecondPassLine, Goto
<1>3. \/ UNCHANGED disk
      \/ \E r : Write("ob", [disk["ob"] EXCEPT !.rows = r])
  BY DEF SecondPassLine
<1>4. CASE UNCHANGED disk
  BY <1>1, <1>2, <1>4 DEF OutputInv, BeforeOutput
<1>5. CASE \E r : Write("ob", [disk["ob"] EXCEPT !.rows = r])
  <2>1. /\ IsDisk(disk')
        /\ disk'["ob"].state = disk["ob"].state
        /\ disk'["ob"].header = disk["ob"].header
    BY <1>1, <1>5, AppendRows
  <2> QED BY <1>1, <1>2, <2>1 DEF OutputInv, BeforeOutput, ObjectOpen, ObjectComplete
<1> QED BY <1>3, <1>4, <1>5

(* Neither a skipped line nor the end of the second pass touches a file.   *)
LEMMA SecondPassKeepsOutput ==
    ASSUME NEW old, OutputInv(old), SecondPassSkip \/ SecondPassEnd
    PROVE  OutputInv(old)'
<1>1. CASE SecondPassSkip
  BY <1>1 DEF SecondPassSkip, Goto, outputVars, OutputInv, BeforeOutput
<1>2. CASE SecondPassEnd
  <2>1. /\ pc = "secondPass" /\ pc' = "appendData" /\ error' = error /\ disk' = disk
        /\ failed' = (failed \/ ec # GOOD)
    BY <1>2 DEF SecondPassEnd, Goto
  <2>2. failed' \in BOOLEAN /\ (~failed' => ~failed)
    BY <2>1, Zenon
  <2> QED BY <2>1, <2>2 DEF OutputInv, BeforeOutput
<1> QED BY <1>1, <1>2

(* Behind the data image a failure leads to the clean-up.                  *)
LEMMA AppendDataKeepsOutput ==
    ASSUME NEW old, OutputInv(old), appendDataImageToFile
    PROVE  OutputInv(old)'
<1>1. PICK n \in 0..Len(dataImage) :
        /\ Write("ob", [disk["ob"] EXCEPT !.rows = @ \o DataRows(SubSeq(dataImage, 1, n))])
        /\ failed' = (failed \/ n < Len(dataImage))
  BY DEF appendDataImageToFile
<1>2. /\ pc = "appendData" /\ error = GOOD /\ IsDisk(disk)
      /\ ~failed => ObjectComplete(disk["ob"])
  BY DEF appendDataImageToFile, OutputInv, BeforeOutput
<1>3. pc' = (IF failed' THEN "cleanup" ELSE "entries") /\ error' = error
  BY DEF appendDataImageToFile, Goto
<1>4. failed' \in BOOLEAN /\ (~failed' => ~failed)
  BY <1>1, Zenon
<1>5. /\ IsDisk(disk')
      /\ disk'["ob"].state = disk["ob"].state
      /\ disk'["ob"].header = disk["ob"].header
  BY <1>1, <1>2, AppendRows
<1> QED BY <1>2, <1>3, <1>4, <1>5 DEF OutputInv, BeforeOutput, ObjectComplete

(* One of the two tables is written or removed; the object file stays.     *)
LEMMA GenerateFileLeaves ==
    ASSUME IsDisk(disk), NEW e \in {"ent", "ext"}, NEW rows, GenerateFile(e, rows),
           failed \in BOOLEAN
    PROVE  /\ IsDisk(disk') /\ failed' \in BOOLEAN
           /\ \A d \in Extensions \ {e} : disk'[d] = disk[d]
           /\ ~failed' => ~failed /\ TableComplete(disk'[e])
<1>1. IsFile(Absent) /\ IsFile(New(<<>>, rows))
  BY DEF IsFile, Absent, New, File
<1>2. CASE failed' = TRUE /\ Write(e, Absent)
  BY <1>1, <1>2, WriteOne DEF Extensions
<1>3. CASE /\ Write(e, IF rows = <<>> THEN Absent ELSE New(<<>>, rows))
           /\ UNCHANGED failed
  <2> DEFINE f == IF rows = <<>> THEN Absent ELSE New(<<>>, rows)
  <2>1. IsFile(f) /\ TableComplete(f)
    BY <1>1 DEF TableComplete, New, File
  <2>2. Write(e, f)
    BY <1>3
  <2> HIDE DEF f
  <2> QED BY <1>3, <2>1, <2>2, WriteOne DEF Extensions
<1> QED BY <1>2, <1>3 DEF GenerateFile

(* The entries, then the externals.                                        *)
LEMMA TablesKeepOutput ==
    ASSUME NEW old, OutputInv(old), generateEntriesFile \/ generateExternalsFile
    PROVE  OutputInv(old)'
<1>1. CASE generateEntriesFile
  <2>1. /\ pc = "entries" /\ error = GOOD /\ IsDisk(disk) /\ failed \in BOOLEAN
        /\ ~failed => ObjectComplete(disk["ob"])
    BY <1>1 DEF generateEntriesFile, OutputInv, BeforeOutput
  <2>2. pc' = "externals" /\ error' = error /\ GenerateFile("ent", EntryRows)
    BY <1>1 DEF generateEntriesFile, Goto
  <2>3. /\ IsDisk(disk') /\ failed' \in BOOLEAN /\ disk'["ob"] = disk["ob"]
        /\ ~failed' => ~failed /\ TableComplete(disk'["ent"])
    BY <2>1, <2>2, GenerateFileLeaves DEF Extensions
  <2> QED BY <2>1, <2>2, <2>3 DEF OutputInv, BeforeOutput
<1>2. CASE generateExternalsFile
  <2>1. /\ pc = "externals" /\ error = GOOD /\ IsDisk(disk) /\ failed \in BOOLEAN
        /\ ~failed => ObjectComplete(disk["ob"]) /\ TableComplete(disk["ent"])
    BY <1>2 DEF generateExternalsFile, OutputInv, BeforeOutput
  <2>2. /\ pc' = (IF failed' THEN "cleanup" ELSE "done") /\ error' = error
        /\ GenerateFile("ext", externalTable)
    BY <1>2 DEF generateExternalsFile, Goto
  <2>3. /\ IsDisk(disk') /\ failed' \in BOOLEAN
        /\ disk'["ob"] = disk["ob"] /\ disk'["ent"] = disk["ent"]
        /\ ~failed' => ~failed /\ TableComplete(disk'["ext"])
    BY <2>1, <2>2, GenerateFileLeaves DEF Extensions
  <2> QED BY <2>1, <2>2, <2>3 DEF OutputInv, BeforeOutput
<1> QED BY <1>1, <1>2

(* The clean-up leaves no file.                                            *)
LEMMA RemoveKeepsOutput ==
    ASSUME NEW old, OutputInv(old), removeOutputFiles
    PROVE  OutputInv(old)'
<1>1. /\ pc = "cleanup" /\ failed = TRUE /\ error = GOOD
      /\ pc' = "done" /\ failed' = failed /\ error' = error
      /\ disk' = [e \in Extensions |-> Absent]
  BY DEF removeOutputFiles, Goto, OutputInv, BeforeOutput
<1>2. IsDisk(disk')
  BY <1>1 DEF IsDisk, IsFile, Absent, File
<1> QED BY <1>1, <1>2 DEF OutputInv, BeforeOutput

(* The invariant of the files, whatever the call found.                    *)
LEMMA StepKeepsOutput ==
    ASSUME NEW old, OutputInv(old), Step \/ UNCHANGED vars
    PROVE  OutputInv(old)'
<1>1. CASE UNCHANGED vars
  BY <1>1 DEF vars, firstPassVars, outputVars, OutputInv
<1>2. CASE Step
  BY <1>2, FirstPassStepKeepsOutput, FirstPassFailedKeepsOutput, OpenObjectKeepsOutput,
     HeaderKeepsOutput, SecondPassLineKeepsOutput, SecondPassKeepsOutput,
     AppendDataKeepsOutput, TablesKeepOutput, RemoveKeepsOutput
     DEF Step
<1> QED BY <1>1, <1>2

(* What a call of assembleFile starts from: its variables are fresh, and   *)
(* the files of an earlier run or call may be there.                       *)
Begun ==
    /\ Init
    /\ codeIc = FIRST_MEMORY_ADDRESS
    /\ ec = GOOD
    /\ externalTable = <<>>
    /\ failed = FALSE
    /\ IsDisk(disk)
    /\ \A e \in Extensions : disk[e].state # "new"

(* A run of assembleFile alone starts like that.                           *)
LEMMA InitIsBegun == ASSUME AsmInit PROVE Begun
<1>1. PICK f \in {Absent, Stale} : disk = [e \in Extensions |-> f]
  BY DEF AsmInit
<1>2. IsDisk(disk) /\ \A e \in Extensions : disk[e].state # "new"
  BY <1>1 DEF IsDisk, IsFile, Absent, Stale, File
<1> QED BY <1>2 DEF AsmInit, Begun

(* The files are where OutputInv says, for some files that are not new.    *)
FilesInv == \E old : (\A e \in Extensions : old[e].state # "new") /\ OutputInv(old)

(* They are there when a call begins ...                                   *)
LEMMA BegunHasFiles == ASSUME Begun PROVE FilesInv
<1>1. pc = "firstPass" /\ failed = FALSE /\ IsDisk(disk)
  BY DEF Begun, Init
<1>2. OutputInv(disk)
  BY <1>1 DEF OutputInv, BeforeOutput
<1> QED BY <1>2 DEF FilesInv, Begun

(* ... and stay there.                                                     *)
LEMMA StepKeepsFiles == ASSUME FilesInv, Step \/ UNCHANGED vars PROVE FilesInv'
<1>1. PICK old : (\A e \in Extensions : old[e].state # "new") /\ OutputInv(old)
  BY DEF FilesInv
<1>2. OutputInv(old)'
  BY <1>1, StepKeepsOutput
<1> QED BY <1>1, <1>2 DEF FilesInv

(* At the end all of them are there or none.                               *)
LEMMA FilesAllOrNothing == ASSUME FilesInv PROVE AllOrNothing
<1>1. PICK old : (\A e \in Extensions : old[e].state # "new") /\ OutputInv(old)
  BY DEF FilesInv
<1> QED BY <1>1 DEF OutputInv, AllOrNothing, BeforeOutput, Extensions, ObjectComplete,
                    TableComplete

(* With the files of this run or without any: assembleFile never leaves a  *)
(* part of its output behind, nor output of an earlier run beside its own. *)
THEOREM AssemblerAllOrNothing == Spec => []AllOrNothing
<1>1. AsmInit => FilesInv
  BY InitIsBegun, BegunHasFiles
<1>2. FilesInv /\ [Step \/ Over]_vars => FilesInv'
  BY StepKeepsFiles DEF Over
<1>3. FilesInv => AllOrNothing
  BY FilesAllOrNothing
<1> QED BY <1>1, <1>2, <1>3, PTL DEF Spec

-------------------------------------------------------------------------------
(* The addresses.                                                          *)

(* An unknown directive aside, a line is an instruction for both passes or *)
(* for neither: only .asciz leaves an error in a line.                     *)
LEMMA PassesSeeTheSameLines ==
    ASSUME src \in Sources, NEW i \in DOMAIN src, NoUnknownDirective
    PROVE  CountsAsCode(src[i]) <=> isLineRelevant(src[i]) /\ ~startsWithDot(src[i])
<1>1. WellFormed(src[i]) /\ src[i].head # ".other"
  BY SourcesAssumption DEF NoUnknownDirective
<1>2. src[i].error # GOOD => src[i].head = ".asciz"
  BY <1>1 DEF WellFormed
<1> QED BY <1>1, <1>2 DEF CountsAsCode, isInstruction, isLineDirective, startsWithDot,
                          DataDirectives

AfterFirstPass ==
    {"firstPassDone", "header", "secondPass", "appendData", "entries", "externals"}

(* The invariant: ic keeps what the first pass counted, and secondPass     *)
(* counts on its own from the first line.                                  *)
AddressInv ==
    /\ src \in Sources
    /\ pc \in BeforeOutput => Inv /\ Counted
    /\ pc \in BeforeOutput \cup {"header"} => codeIc = FIRST_MEMORY_ADDRESS
    /\ pc \in AfterFirstPass => ic = CodeAddress(Len(src) + 1)
    /\ pc = "secondPass" =>
         /\ pos \in 1..Len(src) + 1
         /\ NoUnknownDirective => codeIc = CodeAddress(pos)
    /\ pc \in {"appendData", "entries", "externals"} /\ NoUnknownDirective => codeIc = ic

(* The code starts where the first line is.                                *)
LEMMA FirstCodeAddress == CodeAddress(1) = FIRST_MEMORY_ADDRESS
<1>1. {j \in 1..1 - 1 : CountsAsCode(src[j])} = {}
  OBVIOUS
<1> QED BY <1>1, FS_EmptySet DEF CodeAddress, FIRST_MEMORY_ADDRESS, BYTES_IN_CODE_LINE

(* The first pass establishes it.                                          *)
LEMMA FirstPassKeepsAddresses ==
    ASSUME AddressInv, FirstPassStep PROVE AddressInv'
<1>1. pc = "firstPass" /\ Pass1 /\ codeIc' = codeIc /\ pc' \in BeforeOutput
  BY DEF FirstPassStep, Pass1, SkipLine, DirectiveLine, EntryLine, ExternLine,
         InstructionLine, CrashLine, EndFirstPass, AtUsableLine, AtLine, Advance,
         BeforeOutput, outputVars
<1>2. Inv /\ Counted /\ codeIc = FIRST_MEMORY_ADDRESS
  BY <1>1 DEF AddressInv, BeforeOutput
<1>3. Inv' /\ Counted'
  BY <1>1, <1>2, Pass1KeepsInv, Pass1KeepsCount
<1>4. src' = src /\ src \in Sources /\ Len(src) \in Nat
  BY <1>1, SourcesAssumption
     DEF AddressInv, Pass1, SkipLine, DirectiveLine, EntryLine, ExternLine,
         InstructionLine, CrashLine, EndFirstPass, Advance
<1>5. pc' = "firstPassDone" => (ic = CodeAddress(Len(src) + 1))'
  <2> SUFFICES ASSUME pc' = "firstPassDone" PROVE (ic = CodeAddress(Len(src) + 1))'
    OBVIOUS
  <2>1. EndFirstPass
    BY <1>1 DEF Pass1, SkipLine, DirectiveLine, EntryLine, ExternLine,
                InstructionLine, CrashLine, AtUsableLine, AtLine, Advance
  <2>2. pos = Len(src) + 1 /\ ic' = ic
    BY <1>2, <1>4, <2>1 DEF EndFirstPass, Inv, TypeOK, DataTypeOK
  <2>3. CodeAddress(Len(src) + 1)' = CodeAddress(Len(src) + 1)
    BY <1>4 DEF CodeAddress
  <2> QED BY <1>2, <2>2, <2>3 DEF Counted, CodeCounted
<1> QED BY <1>1, <1>2, <1>3, <1>4, <1>5 DEF AddressInv, BeforeOutput, AfterFirstPass

(* A line of the second pass: secondPass counts it if the first pass did.  *)
LEMMA SecondPassKeepsAddresses ==
    ASSUME AddressInv, SecondPassSkip \/ SecondPassLine PROVE AddressInv'
<1>1. /\ pc = "secondPass" /\ pc' = "secondPass"
      /\ pos <= Len(src) /\ pos' = pos + 1 /\ src' = src /\ ic' = ic
  BY DEF SecondPassSkip, SecondPassLine, Goto
<1>2. /\ src \in Sources /\ pos \in 1..Len(src) + 1 /\ Len(src) \in Nat
      /\ DOMAIN src = 1..Len(src) /\ ic = CodeAddress(Len(src) + 1)
  BY <1>1, SourcesAssumption DEF AddressInv, AfterFirstPass
<1>3. pos \in DOMAIN src /\ pos \in Nat \ {0} /\ pos + 1 \in 1..Len(src) + 1
  BY <1>1, <1>2
<1>4. /\ CodeAddress(Len(src) + 1)' = CodeAddress(Len(src) + 1)
      /\ CodeAddress(pos)' = CodeAddress(pos + 1)
  BY <1>1 DEF CodeAddress
<1>5. NoUnknownDirective' => codeIc' = CodeAddress(pos + 1)
  <2> SUFFICES ASSUME NoUnknownDirective PROVE codeIc' = CodeAddress(pos + 1)
    BY <1>1 DEF NoUnknownDirective
  <2>1. codeIc = CodeAddress(pos)
    BY <1>1 DEF AddressInv
  <2>2. codeIc' = codeIc + IF CountsAsCode(src[pos]) THEN BYTES_IN_CODE_LINE ELSE 0
    <3>1. CASE SecondPassSkip
      <4>1. ~CountsAsCode(src[pos]) /\ codeIc' = codeIc
        BY <1>2, <1>3, <3>1, PassesSeeTheSameLines DEF SecondPassSkip, outputVars, cur
      <4>2. codeIc \in Nat
        BY <1>3, <2>1, NextCodeAddress
      <4> QED BY <4>1, <4>2
    <3>2. CASE SecondPassLine
      <4>1. CountsAsCode(src[pos]) /\ codeIc' = codeIc + BYTES_IN_CODE_LINE
        BY <1>2, <1>3, <3>2, PassesSeeTheSameLines DEF SecondPassLine, cur
      <4> QED BY <4>1
    <3> QED BY <3>1, <3>2
  <2> QED BY <1>3, <2>1, <2>2, NextCodeAddress
<1> QED BY <1>1, <1>2, <1>3, <1>4, <1>5 DEF AddressInv, BeforeOutput, AfterFirstPass

(* The statements between and behind the passes.                           *)
LEMMA OtherStepsKeepAddresses ==
    ASSUME AddressInv,
           \/ FirstPassFailed \/ OpenObject \/ writeObjFileHeader \/ SecondPassEnd
           \/ appendDataImageToFile \/ generateEntriesFile \/ generateExternalsFile
           \/ removeOutputFiles
    PROVE  AddressInv'
<1>1. src' = src /\ ic' = ic /\ src \in Sources /\ Len(src) \in Nat
  <2>1. src' = src /\ ic' = ic
    BY Zenon DEF FirstPassFailed, OpenObject, writeObjFileHeader, SecondPassEnd,
                 appendDataImageToFile, generateEntriesFile, generateExternalsFile,
                 removeOutputFiles, Goto
  <2> QED BY <2>1, SourcesAssumption DEF AddressInv
<1>2. \A k : CodeAddress(k)' = CodeAddress(k)
  BY <1>1 DEF CodeAddress
<1>3. /\ CodeAddress(Len(src) + 1)' = CodeAddress(Len(src) + 1)
      /\ NoUnknownDirective' = NoUnknownDirective
  BY <1>1 DEF CodeAddress, NoUnknownDirective
<1>4. CASE FirstPassFailed \/ removeOutputFiles
  BY <1>1, <1>4 DEF FirstPassFailed, removeOutputFiles, Goto, AddressInv,
                    BeforeOutput, AfterFirstPass
<1>5. CASE OpenObject
  <2>1. pc = "firstPassDone" /\ pc' \in {"header", "cleanup"} /\ codeIc' = codeIc
    BY <1>5 DEF OpenObject, Goto
  <2> QED BY <1>1, <1>3, <2>1 DEF AddressInv, BeforeOutput, AfterFirstPass
<1>6. CASE writeObjFileHeader
  <2>1. pc = "header" /\ pc' = "secondPass" /\ pos' = 1 /\ codeIc' = codeIc
    BY <1>6 DEF writeObjFileHeader, Goto
  <2>2. CodeAddress(pos)' = FIRST_MEMORY_ADDRESS
    BY <1>1, <2>1, FirstCodeAddress DEF CodeAddress
  <2> QED BY <1>1, <1>3, <2>1, <2>2 DEF AddressInv, BeforeOutput, AfterFirstPass
<1>7. CASE SecondPassEnd
  <2>1. /\ pc = "secondPass" /\ pc' = "appendData" /\ pos > Len(src)
        /\ codeIc' = codeIc
    BY <1>7 DEF SecondPassEnd, Goto
  <2>2. pos = Len(src) + 1
    BY <1>1, <2>1 DEF AddressInv
  <2> QED BY <1>1, <1>3, <2>1, <2>2 DEF AddressInv, BeforeOutput, AfterFirstPass
<1>8. CASE appendDataImageToFile \/ generateEntriesFile \/ generateExternalsFile
  <2>1. /\ pc \in {"appendData", "entries", "externals"}
        /\ pc' \in {"entries", "externals", "cleanup", "done"}
        /\ codeIc' = codeIc
    BY <1>8 DEF appendDataImageToFile, generateEntriesFile, generateExternalsFile, Goto
  <2> QED BY <1>1, <1>3, <2>1 DEF AddressInv, BeforeOutput, AfterFirstPass
<1> QED BY <1>4, <1>5, <1>6, <1>7, <1>8

(* It holds at the start ...                                               *)
LEMMA BegunIsAddressed == ASSUME Begun PROVE AddressInv
<1>1. Inv /\ Counted
  BY InitIsInv, InitIsCounted DEF Begun
<1> QED BY <1>1 DEF Begun, Init, AddressInv, AfterFirstPass

(* ... and each step keeps it.                                             *)
LEMMA StepKeepsAddresses ==
    ASSUME AddressInv, Step \/ UNCHANGED vars PROVE AddressInv'
<1>1. CASE UNCHANGED vars
  BY <1>1 DEF vars, firstPassVars, outputVars, AddressInv, Inv, TypeOK, DataTypeOK,
              Counted, CodeCounted, CodeAddress, NoUnknownDirective
<1>2. CASE Step
  BY <1>2, FirstPassKeepsAddresses, SecondPassKeepsAddresses,
     OtherStepsKeepAddresses DEF Step
<1> QED BY <1>1, <1>2

(* The passes agree: the second pass is at each line at the address the    *)
(* first pass gave its label, and both end at the same address.            *)
THEOREM AssemblerPassesAgree == Spec => []PassesAgree
<1>1. AsmInit => AddressInv
  BY InitIsBegun, BegunIsAddressed
<1>2. AddressInv /\ [Step \/ Over]_vars => AddressInv'
  BY StepKeepsAddresses DEF Over
<1>3. AddressInv => PassesAgree
  BY DEF AddressInv, PassesAgree
<1> QED BY <1>1, <1>2, <1>3, PTL DEF Spec

-------------------------------------------------------------------------------
(* The errors.                                                             *)

(* Whether a line is rejected does not depend on its address: the reach of *)
(* a branch is not tested.                                                 *)
LEMMA VerdictIgnoresAddress ==
    ASSUME NEW l, NEW st, NEW a, NEW b
    PROVE  parseInstruction(l, st, a).ec = parseInstruction(l, st, b).ec
<1>1. ASSUME NEW checks, NEW v, NEW w, NEW x
      PROVE  Outcome(checks, v, x).ec = Outcome(checks, w, x).ec
  BY DEF Outcome
<1>2. instructionIBranch(INSTRUCTIONS[l.head], l.params, st, a).ec
        = instructionIBranch(INSTRUCTIONS[l.head], l.params, st, b).ec
  BY <1>1 DEF instructionIBranch
<1>3. CASE l.head \in {"bne", "beq", "blt", "bgt"} /\ l.head \in DOMAIN INSTRUCTIONS
  BY <1>2, <1>3 DEF parseInstruction
<1>4. CASE ~(l.head \in {"bne", "beq", "blt", "bgt"} /\ l.head \in DOMAIN INSTRUCTIONS)
  BY <1>4 DEF parseInstruction
<1> QED BY <1>3, <1>4

Rejected(i) ==
    /\ isLineRelevant(src[i]) /\ ~startsWithDot(src[i])
    /\ parseInstruction(src[i], symbolTable, CodeAddress(i)).ec # GOOD

(* The invariant: what secondPass met is in ec until the loop ends, and    *)
(* then in hasErrors until the end of assembleFile.                        *)
VerdictInv ==
    /\ src \in Sources
    /\ pc = "secondPass" =>
         /\ pos \in Nat \ {0}
         /\ \A i \in DOMAIN src : i < pos /\ Rejected(i) => ec # GOOD
    /\ (pc \in {"appendData", "entries", "externals", "cleanup"}
          \/ (pc = "done" /\ error = GOOD)) =>
         ((\E i \in DOMAIN src : Rejected(i)) => failed)

(* The second pass does not change what a rejected line is.                *)
LEMMA RejectedStays ==
    ASSUME UNCHANGED <<src, symbolTable>>, NEW i
    PROVE  Rejected(i)' = Rejected(i)
<1>1. CodeAddress(i)' = CodeAddress(i)
  BY DEF CodeAddress
<1> QED BY <1>1 DEF Rejected

(* A line of the second pass: its error stays.                             *)
LEMMA SecondPassKeepsVerdict ==
    ASSUME VerdictInv, SecondPassSkip \/ SecondPassLine PROVE VerdictInv'
<1>1. /\ pc = "secondPass" /\ pc' = "secondPass" /\ pos' = pos + 1
      /\ src' = src /\ symbolTable' = symbolTable
  BY DEF SecondPassSkip, SecondPassLine, Goto
<1>2. /\ src \in Sources /\ pos \in Nat \ {0} /\ DOMAIN src \subseteq Nat
      /\ \A i \in DOMAIN src : i < pos /\ Rejected(i) => ec # GOOD
  BY <1>1, SourcesAssumption DEF VerdictInv
<1>3. ASSUME NEW i \in DOMAIN src, i < pos + 1, Rejected(i)
      PROVE  ec' # GOOD
  <2>1. CASE SecondPassSkip
    <3>1. i # pos /\ ec' = ec
      BY <1>3, <2>1 DEF SecondPassSkip, Rejected, cur, outputVars
    <3> QED BY <1>2, <1>3, <3>1
  <2>2. CASE SecondPassLine
    <3> DEFINE verdict == parseInstruction(cur, symbolTable, codeIc).ec
    <3>1. ec' = Remember(ec, verdict)
      BY <2>2 DEF SecondPassLine
    <3>2. CASE i = pos
      <4>1. verdict # GOOD
        BY <1>3, <3>2, VerdictIgnoresAddress DEF Rejected, cur
      <4> HIDE DEF verdict
      <4> QED BY <3>1, <4>1 DEF Remember, GOOD
    <3>3. CASE i # pos
      <4>1. ec # GOOD
        BY <1>2, <1>3, <3>3
      <4> HIDE DEF verdict
      <4> QED BY <3>1, <4>1 DEF Remember, GOOD
    <3> QED BY <3>2, <3>3
  <2> QED BY <2>1, <2>2
<1>4. \A i \in DOMAIN src : Rejected(i)' = Rejected(i)
  BY <1>1, RejectedStays
<1> QED BY <1>1, <1>2, <1>3, <1>4 DEF VerdictInv

(* When the loop ends, ec becomes the flag, and the flag is never cleared. *)
LEMMA LaterStepsKeepVerdict ==
    ASSUME VerdictInv,
           \/ SecondPassEnd \/ appendDataImageToFile \/ generateEntriesFile
           \/ generateExternalsFile \/ removeOutputFiles
    PROVE  VerdictInv'
<1> DEFINE some == \E i \in DOMAIN src : Rejected(i)
<1>1. /\ UNCHANGED <<src, symbolTable>> /\ src \in Sources
      /\ pc' \in {"appendData", "entries", "externals", "cleanup", "done"}
  <2>1. UNCHANGED <<src, symbolTable>>
    BY Zenon DEF SecondPassEnd, appendDataImageToFile, generateEntriesFile,
                 generateExternalsFile, removeOutputFiles, Goto
  <2>2. pc' \in {"appendData", "entries", "externals", "cleanup", "done"}
    BY DEF SecondPassEnd, appendDataImageToFile, generateEntriesFile,
           generateExternalsFile, removeOutputFiles, Goto
  <2> QED BY <2>1, <2>2 DEF VerdictInv
<1>2. (\E i \in DOMAIN src : Rejected(i))' = some
  BY <1>1, RejectedStays
<1>3. some => failed'
  <2> SUFFICES ASSUME some PROVE failed'
    OBVIOUS
  <2>1. CASE SecondPassEnd
    <3>1. /\ pc = "secondPass" /\ pos > Len(src) /\ failed' = (failed \/ ec # GOOD)
      BY <2>1 DEF SecondPassEnd
    <3>2. \A i \in DOMAIN src : i < pos
      BY <1>1, <3>1, SourcesAssumption DEF VerdictInv
    <3> QED BY <3>1, <3>2 DEF VerdictInv
  <2>2. CASE appendDataImageToFile
    <3>1. failed
      BY <2>2 DEF appendDataImageToFile, VerdictInv
    <3>2. PICK n \in 0..Len(dataImage) : failed' = (failed \/ n < Len(dataImage))
      BY <2>2 DEF appendDataImageToFile
    <3> QED BY <3>1, <3>2
  <2>3. CASE generateEntriesFile \/ generateExternalsFile
    <3>1. failed
      BY <2>3 DEF generateEntriesFile, generateExternalsFile, VerdictInv
    <3>2. failed' = failed \/ failed' = TRUE
      BY <2>3 DEF generateEntriesFile, generateExternalsFile, GenerateFile
    <3> QED BY <3>1, <3>2
  <2>4. CASE removeOutputFiles
    BY <2>4 DEF removeOutputFiles, VerdictInv
  <2> QED BY <2>1, <2>2, <2>3, <2>4
<1> HIDE DEF some
<1> QED BY <1>1, <1>2, <1>3 DEF VerdictInv

(* Before the second pass nothing has been judged.                         *)
LEMMA EarlierStepsKeepVerdict ==
    ASSUME VerdictInv,
           FirstPassStep \/ FirstPassFailed \/ OpenObject \/ writeObjFileHeader
    PROVE  VerdictInv'
<1>1. src' = src
  BY Zenon DEF FirstPassStep, FirstPassFailed, OpenObject, writeObjFileHeader, Goto,
               Pass1, SkipLine, DirectiveLine, EntryLine, ExternLine,
               InstructionLine, CrashLine, EndFirstPass, Advance
<1>2. \/ pc' \in BeforeOutput \cup {"header"}
      \/ pc' = "secondPass" /\ pos' = 1
      \/ pc' = "done" /\ error' # GOOD
      \/ pc' = "cleanup" /\ failed' = TRUE
  <2>1. CASE FirstPassStep
    BY <2>1 DEF FirstPassStep, Pass1, SkipLine, DirectiveLine, EntryLine, ExternLine,
                InstructionLine, CrashLine, EndFirstPass, AtUsableLine, AtLine,
                Advance, BeforeOutput
  <2>2. CASE FirstPassFailed
    BY <2>2 DEF FirstPassFailed, Goto
  <2>3. CASE OpenObject
    BY <2>3 DEF OpenObject, Goto
  <2>4. CASE writeObjFileHeader
    BY <2>4 DEF writeObjFileHeader, Goto
  <2> QED BY <2>1, <2>2, <2>3, <2>4
<1>3. src \in Sources /\ DOMAIN src \subseteq Nat \ {0}
  BY SourcesAssumption DEF VerdictInv
<1>4. ASSUME NEW i \in DOMAIN src PROVE ~(i < 1)
  BY <1>3
<1> QED BY <1>1, <1>2, <1>3, <1>4 DEF VerdictInv, BeforeOutput

(* Nothing was rejected before the second pass.                            *)
LEMMA BegunHasVerdict == ASSUME Begun PROVE VerdictInv
BY DEF Begun, Init, VerdictInv

(* Each step keeps the verdict.                                            *)
LEMMA StepKeepsVerdict ==
    ASSUME VerdictInv, FilesInv, Step \/ UNCHANGED vars
    PROVE  VerdictInv'
<1>1. PICK old : OutputInv(old)
  BY DEF FilesInv
<1>2. CASE UNCHANGED vars
  <2>1. UNCHANGED <<src, pos, symbolTable, error, pc, ec, failed>>
    BY <1>2 DEF vars, firstPassVars, outputVars
  <2>2. \A i : Rejected(i)' = Rejected(i)
    BY <2>1, RejectedStays
  <2> QED BY <2>1, <2>2 DEF VerdictInv
<1>3. CASE Step
  BY <1>1, <1>3, EarlierStepsKeepVerdict, SecondPassKeepsVerdict,
     LaterStepsKeepVerdict DEF Step
<1> QED BY <1>2, <1>3

(* What was rejected leaves no files.                                      *)
LEMMA RejectedIsRemoved ==
    ASSUME FilesInv, VerdictInv PROVE RejectedLinesLeaveNothing
<1> SUFFICES ASSUME pc = "done", error = GOOD, NEW i \in DOMAIN src, Rejected(i),
                    NEW e \in Extensions
             PROVE  disk[e] = Absent
  BY DEF RejectedLinesLeaveNothing, Rejected
<1>1. PICK old : OutputInv(old)
  BY DEF FilesInv
<1>2. failed
  BY DEF VerdictInv
<1> QED BY <1>1, <1>2 DEF OutputInv

(* A line the second pass must reject leaves no output, whatever lines     *)
(* follow it and whatever else fails.                                      *)
THEOREM AssemblerRejects == Spec => []RejectedLinesLeaveNothing
<1>1. AsmInit => FilesInv /\ VerdictInv
  BY InitIsBegun, BegunHasFiles, BegunHasVerdict
<1>2. FilesInv /\ VerdictInv /\ [Step \/ Over]_vars => (FilesInv /\ VerdictInv)'
  BY StepKeepsFiles, StepKeepsVerdict DEF Over
<1>3. FilesInv /\ VerdictInv => RejectedLinesLeaveNothing
  BY RejectedIsRemoved
<1> QED BY <1>1, <1>2, <1>3, PTL DEF Spec
===============================================================================
