------------------------------- MODULE Assembler -------------------------------
(***************************************************************************)
(* One call of assembleFile (assembler.c): the first pass, then the object *)
(* file from its header, the second pass and the data image, then the      *)
(* files of entries and externals, then the clean-up.  A file is what the  *)
(* text in it says: the header and the rows; pc is the statement of        *)
(* assembleFile that runs next.                                            *)
(***************************************************************************)
EXTENDS FirstPass, Instruction

VARIABLES
    codeIc,         \* secondPass's ic
    ec,             \* secondPass's ec
    externalTable,  \* the list of uses of external labels
    disk,           \* the output files of this base name
    failed          \* assembleFile's hasErrors

outputVars == <<codeIc, ec, externalTable, disk, failed>>

vars == <<firstPassVars, outputVars>>

Extensions == {"ob", "ent", "ext"}

File(state, header, rows) == [state |-> state, header |-> header, rows |-> rows]
Absent == File("absent", <<>>, <<>>)
Stale  == File("stale", <<>>, <<>>)     \* left there by an earlier run
New(header, rows) == File("new", header, rows)

AsmInit ==
    /\ Init
    /\ codeIc = FIRST_MEMORY_ADDRESS
    /\ ec = GOOD
    /\ externalTable = <<>>
    /\ \E f \in {Absent, Stale} : disk = [e \in Extensions |-> f]
    /\ failed = FALSE

Goto(label) == pc' = label /\ UNCHANGED <<src, symbolTable, ic, dc, dataImage, error, hasErrors>>

Write(e, file) == disk' = [disk EXCEPT ![e] = file]

MayFail(call) == IF call \in Faults THEN {TRUE, FALSE} ELSE {TRUE}

FirstPassStep == Pass1 /\ UNCHANGED outputVars

(* The flag hasErrors of assembleFile is still off: nothing is removed.    *)
FirstPassFailed ==
    /\ pc = "firstPassDone"
    /\ error # GOOD
    /\ Goto("done")
    /\ UNCHANGED <<pos, outputVars>>

OpenObject ==
    /\ pc = "firstPassDone"
    /\ error = GOOD
    /\ \E ok \in MayFail("fopen") :
         IF ok THEN Write("ob", New(<<>>, <<>>)) /\ Goto("header") /\ UNCHANGED failed
         ELSE failed' = TRUE /\ Goto("cleanup") /\ UNCHANGED disk
    /\ UNCHANGED <<pos, codeIc, ec, externalTable>>

(* Then secondPass starts: it rewinds the source.                          *)
writeObjFileHeader ==
    /\ pc = "header"
    /\ \E ok \in MayFail("fprintf") :
         IF ok THEN Write("ob", New(<<ic - FIRST_MEMORY_ADDRESS, dc>>, <<>>)) /\ UNCHANGED failed
         ELSE failed' = TRUE /\ UNCHANGED disk
    /\ Goto("secondPass")
    /\ pos' = 1
    /\ UNCHANGED <<codeIc, ec, externalTable>>

(* Variant with a bug: a skipped line does not advance the loop.           *)
SecondPassSkip_Stuck ==
    /\ pc = "secondPass" /\ pos <= Len(src)
    /\ ~isLineRelevant(cur) \/ startsWithDot(cur)
    /\ UNCHANGED vars

SecondPassSkip ==
    /\ pc = "secondPass"
    /\ pos <= Len(src)
    /\ ~isLineRelevant(cur) \/ startsWithDot(cur)
    /\ Goto("secondPass")
    /\ pos' = pos + 1
    /\ UNCHANGED outputVars

(* Variant with a bug: the next good line clears the error.                *)
Remember_Last(old, code) == IF code = GOOD THEN GOOD ELSE "GENERIC_ERROR"

Remember(old, code) == IF code = GOOD THEN old ELSE "GENERIC_ERROR"

(* Variant with a bug: the address is that of the next line.               *)
addExternal_NextLine(table, label, address) ==
    {Append(table, [label |-> label, address |-> address + BYTES_IN_CODE_LINE])}

(* What a call can make of the list: the allocation of the row may fail.   *)
addExternal(table, label, address) ==
    {Append(table, [label |-> label, address |-> address])}
        \cup IF "malloc" \in Faults THEN {table} ELSE {}

(* addExternal's and printLineToFile's results are not looked at.          *)
SecondPassLine ==
    /\ pc = "secondPass"
    /\ pos <= Len(src)
    /\ isLineRelevant(cur) /\ ~startsWithDot(cur)
    /\ LET r == parseInstruction(cur, symbolTable, codeIc)
           row == [address |-> codeIc, bytes |-> printInstruction(r.word)]
       IN  /\ ec' = Remember(ec, r.ec)
           /\ externalTable' \in IF r.ext = NULL THEN {externalTable}
                                 ELSE addExternal(externalTable, r.ext, codeIc)
           /\ \E ok \in MayFail("fprintf") :
                IF ec' = GOOD /\ ok
                THEN Write("ob", [disk["ob"] EXCEPT !.rows = Append(@, row)])
                ELSE UNCHANGED disk
    /\ codeIc' = codeIc + BYTES_IN_CODE_LINE
    /\ Goto("secondPass")
    /\ pos' = pos + 1
    /\ UNCHANGED failed

SecondPassEnd ==
    /\ pc = "secondPass"
    /\ pos > Len(src)
    /\ failed' = (failed \/ ec # GOOD)
    /\ Goto("appendData")
    /\ UNCHANGED <<pos, codeIc, ec, externalTable, disk>>

(* Variant with a bug: the addresses start at 0 and not behind the code.   *)
DataRows_FromZero(image) ==
    [r \in 1..(Len(image) + BYTES_PER_LINE - 1) \div BYTES_PER_LINE |->
        [address |-> BYTES_PER_LINE * (r - 1),
         bytes |-> SubSeq(image, BYTES_PER_LINE * (r - 1) + 1,
                          Min({BYTES_PER_LINE * r, Len(image)}))]]

(* A row starts at each address that is a multiple of BYTES_PER_LINE; the  *)
(* first byte is at such an address: ic is 100 and four for each line.     *)
DataRows(image) ==
    [r \in 1..(Len(image) + BYTES_PER_LINE - 1) \div BYTES_PER_LINE |->
        LET first == BYTES_PER_LINE * (r - 1)
        IN  [address |-> ic + first,
             bytes |-> SubSeq(image, first + 1,
                              Min({first + BYTES_PER_LINE, Len(image)}))]]

(* Without data nothing is written, so nothing can fail.  The object file  *)
(* is closed here.                                                         *)
appendDataImageToFile ==
    /\ pc = "appendData"
    /\ \E n \in 0..Len(dataImage) :
         /\ n = Len(dataImage) \/ "fprintf" \in Faults
         /\ Write("ob", [disk["ob"] EXCEPT !.rows = @ \o DataRows(SubSeq(dataImage, 1, n))])
         /\ failed' = (failed \/ n < Len(dataImage))
    /\ Goto(IF failed' THEN "cleanup" ELSE "entries")
    /\ UNCHANGED <<pos, codeIc, ec, externalTable>>

(* Both tables are written alike: a file without rows, and one that could  *)
(* not be opened or written, is removed.                                   *)
GenerateFile(e, rows) ==
    \/ /\ Write(e, IF rows = <<>> THEN Absent ELSE New(<<>>, rows))
       /\ UNCHANGED failed
    \/ /\ "fopen" \in Faults \/ ("fprintf" \in Faults /\ rows # <<>>)
       /\ Write(e, Absent)
       /\ failed' = TRUE

(* Where the k-th of the positions S of a list is.                         *)
Nth(S, k) == CHOOSE i \in S : Cardinality({j \in S : j <= i}) = k

EntryRows ==
    LET entries == {i \in DOMAIN symbolTable : "ENTRY" \in symbolTable[i].attributes}
    IN  [k \in 1..Cardinality(entries) |->
            LET s == symbolTable[Nth(entries, k)]
            IN  [label |-> s.label, address |-> s.address]]

generateEntriesFile ==
    /\ pc = "entries"
    /\ GenerateFile("ent", EntryRows)
    /\ Goto("externals")
    /\ UNCHANGED <<pos, codeIc, ec, externalTable>>

generateExternalsFile ==
    /\ pc = "externals"
    /\ GenerateFile("ext", externalTable)
    /\ Goto(IF failed' THEN "cleanup" ELSE "done")
    /\ UNCHANGED <<pos, codeIc, ec, externalTable>>

(* Variant with a bug: the table files are forgotten.                      *)
removeOutputFiles_ObjectOnly ==
    /\ pc = "cleanup"
    /\ Write("ob", Absent)
    /\ Goto("done")
    /\ UNCHANGED <<pos, codeIc, ec, externalTable, failed>>

removeOutputFiles ==
    /\ pc = "cleanup"
    /\ disk' = [e \in Extensions |-> Absent]
    /\ Goto("done")
    /\ UNCHANGED <<pos, codeIc, ec, externalTable, failed>>

Step ==
    \/ FirstPassStep \/ FirstPassFailed \/ OpenObject \/ writeObjFileHeader
    \/ SecondPassSkip \/ SecondPassLine \/ SecondPassEnd \/ appendDataImageToFile
    \/ generateEntriesFile \/ generateExternalsFile \/ removeOutputFiles

Over == pc \in {"done", "crashed"} /\ UNCHANGED vars

(* The program is sequential: while it can take a step it takes it.        *)
Spec == AsmInit /\ [][Step \/ Over]_vars /\ WF_vars(Step)
-------------------------------------------------------------------------------
(* Type invariant of assembleFile: an object row starts at a word address  *)
(* and has one to four bytes, and only the object file has a header.       *)
Byte == 0..255
ObjectRow == [address : {a \in Nat : a % BYTES_PER_LINE = 0},
              bytes : {b \in Seq(Byte) : Len(b) \in 1..BYTES_PER_LINE}]
TableRow == [label : Names, address : Int]

AsmTypeOK ==
    /\ DataTypeOK
    /\ pc \in {"firstPass", "crashed", "firstPassDone", "header", "secondPass",
               "appendData", "entries", "externals", "cleanup", "done"}
    /\ codeIc \in Nat /\ codeIc % BYTES_IN_CODE_LINE = 0
    /\ ec \in {GOOD, "GENERIC_ERROR"}
    /\ externalTable \in Seq(TableRow)
    /\ failed \in BOOLEAN
    /\ \A e \in Extensions :
         /\ disk[e].state \in {"absent", "stale", "new"}
         /\ disk[e].header \in {<<>>} \cup Nat \X Nat
         /\ disk[e].rows \in Seq(IF e = "ob" THEN ObjectRow ELSE TableRow)
         /\ e # "ob" => disk[e].header = <<>>

(* The output files are those of this run or there are none: a run that    *)
(* got past the first pass leaves no file of an earlier run, a failed one  *)
(* leaves no file at all, a successful one leaves an object file, and a    *)
(* table file only if it has rows.                                         *)
AllOrNothing ==
    /\ pc = "done" /\ error = GOOD =>
         IF failed THEN \A e \in Extensions : disk[e] = Absent
         ELSE /\ disk["ob"].state = "new"
              /\ disk["ob"].header # <<>>
              /\ \A e \in {"ent", "ext"} :
                   disk[e] = Absent \/ (disk[e].state = "new" /\ disk[e].rows # <<>>)
    /\ pc = "crashed" => \A e \in Extensions : disk[e].state # "new"

(* A line the second pass must reject, judged at the address the line has  *)
(* in the program, leaves no output, whatever lines follow it.             *)
RejectedLinesLeaveNothing ==
    pc = "done" /\ error = GOOD =>
      \A i \in DOMAIN src :
        /\ isLineRelevant(src[i]) /\ ~startsWithDot(src[i])
        /\ parseInstruction(src[i], symbolTable, CodeAddress(i)).ec # GOOD
        => \A e \in Extensions : disk[e] = Absent

NoUnknownDirective == \A i \in DOMAIN src : src[i].head # ".other"

(* The two passes count the same lines: in the second pass each line is at *)
(* the address the first pass gave its label, and at the end the counters  *)
(* are equal.  (The program must have no unknown directive.)               *)
PassesAgree ==
    NoUnknownDirective =>
      /\ pc = "secondPass" => codeIc = CodeAddress(pos)
      /\ pc \in {"appendData", "entries", "externals"} => codeIc = ic

-------------------------------------------------------------------------------
(* What the output must say, read off the program text alone.              *)

DefinedAt(n) ==
    {i \in DOMAIN src :
        /\ src[i].error = GOOD /\ src[i].label = n
        /\ isLineDirective(src[i]) \/ isInstruction(src[i])}

Mentions(head, n) ==
    \E i \in DOMAIN src :
        src[i].head = head /\ LabelOf(src[i].params[1]) = n

AddressInProgram(n) ==
    LET i == CHOOSE j \in DefinedAt(n) : TRUE
    IN  IF isLineDirective(src[i])
        THEN CodeAddress(Len(src) + 1) + DataOffset(i) ELSE CodeAddress(i)

(* An object file was made of a program the first pass had no complaint of.*)
Produced ==
    pc = "done" /\ disk["ob"].state = "new" /\ ~hasErrors /\ NoUnknownDirective

CodeLines == {i \in DOMAIN src : CountsAsCode(src[i])}

(* The header counts the bytes below it, and the rows cover the addresses  *)
(* from 100 on without gap or overlap, four bytes each but for the last;   *)
(* the bytes behind the code are the data image.                           *)
ObjectLayout ==
    Produced =>
      LET code == BYTES_IN_CODE_LINE * Cardinality(CodeLines)
          data == DataOffset(Len(src) + 1)
          rows == disk["ob"].rows
          at(a) == rows[(a \div 4) + 1].bytes[(a % 4) + 1]
      IN  /\ disk["ob"].header = <<code, data>>
          /\ Len(rows) = (code + data + 3) \div 4
          /\ \A k \in DOMAIN rows :
               /\ rows[k].address = FIRST_MEMORY_ADDRESS + 4 * (k - 1)
               /\ Len(rows[k].bytes) = Min({4, code + data - 4 * (k - 1)})
          /\ \A k \in 1..data : at(code + k - 1) = dataImage[k]

(* The fields a processor takes out of the four bytes of a row.            *)
Opcode(b) == b[4] \div 4
Address25(b) == b[1] + 2^8 * b[2] + 2^16 * b[3] + 2^24 * (b[4] % 2)
Offset16(b) ==
    LET u == b[1] + 2^8 * b[2] IN IF u < 2^15 THEN u ELSE u - 2^16

(* The label an instruction line refers to, NULL for none.                 *)
Target(l) ==
    CASE l.head \in {"la", "call", "jmp"} -> LabelOf(l.params[1])
      [] l.head \in {"bne", "beq", "blt", "bgt"} -> LabelOf(l.params[3])
      [] OTHER -> NULL

(* Whether the field of the instruction has room for what the label is     *)
(* encoded as; the code does not test it.                                  *)
InReach(i, n) ==
    IF INSTRUCTIONS[src[i].head].type = "J" THEN AddressInProgram(n) < 2^25
    ELSE AddressInProgram(n) - CodeAddress(i) \in -(2^15)..2^15 - 1

(* Each instruction line is in the object file at its address with its own *)
(* opcode, and a label in it has become the address the program gives that *)
(* label: absolute in a jump, relative to the row in a branch, wherever in *)
(* the program the label is defined; 0 for a label of another file.        *)
ReferencesResolved ==
    Produced =>
      \A i \in CodeLines :
        LET l == src[i]
            n == Target(l)
            here == n # NULL /\ DefinedAt(n) # {} /\ InReach(i, n)
            elsewhere == n # NULL /\ DefinedAt(n) = {} /\ ~Mentions(".entry", n)
        IN  \E row \in Range(disk["ob"].rows) :
              /\ row.address = CodeAddress(i)
              /\ n = NULL \/ here \/ elsewhere =>
                   Opcode(row.bytes) = INSTRUCTIONS[l.head].opcode
              /\ here =>
                   AddressInProgram(n) =
                     IF INSTRUCTIONS[l.head].type = "J" THEN Address25(row.bytes)
                     ELSE row.address + Offset16(row.bytes)
              /\ elsewhere => Address25(row.bytes) = 0

(* The .ext file has one row for each instruction that uses a label of     *)
(* another file, with the address of that instruction; there is no file    *)
(* without such a use.  (A name that is both .entry and .extern has no     *)
(* meaning to compare with.)                                               *)
ExternalsComplete ==
    Produced /\ (\A n \in Names : ~(Mentions(".entry", n) /\ Mentions(".extern", n))) =>
      LET uses == {i \in CodeLines :
                     Target(src[i]) # NULL /\ DefinedAt(Target(src[i])) = {}
                       /\ Mentions(".extern", Target(src[i]))}
          rows == disk["ext"].rows
      IN  /\ Range(rows) = {[label |-> Target(src[i]), address |-> CodeAddress(i)] :
                              i \in uses}
          /\ Len(rows) = Cardinality(uses)

(* Also when memory runs out, the .ext file has no row that is not true:   *)
(* each is for an instruction that uses that label of another file, in the *)
(* order of the instructions, so none is there twice.                      *)
ExternalsSound ==
    Produced =>
      LET rows == disk["ext"].rows
      IN  /\ \A r \in Range(rows) :
               \E i \in CodeLines :
                 /\ r = [label |-> Target(src[i]), address |-> CodeAddress(i)]
                 /\ DefinedAt(r.label) = {} /\ Mentions(".extern", r.label)
          /\ \A j, k \in DOMAIN rows : j < k => rows[j].address < rows[k].address

(* The .ent file has one row for each name .entry mentions, with the       *)
(* address the program gives it, in whichever order it is mentioned and    *)
(* defined.                                                                *)
EntriesComplete ==
    Produced =>
      LET rows == disk["ent"].rows
          names == {n \in Names : Mentions(".entry", n)}
      IN  /\ {r.label : r \in Range(rows)} = names
          /\ Len(rows) = Cardinality(names)
          /\ \A r \in Range(rows) :
               DefinedAt(r.label) # {} => r.address = AddressInProgram(r.label)

-------------------------------------------------------------------------------
(* Statements of the source's comments that the code does not keep.        *)

(* assembler.c:67 "assembleFile function is responsible for deleting       *)
(* objectfile if encountered any errors during assembly process": no       *)
(* object file is left when the assembly ends with an error.               *)
ErrorLeavesNoObject ==
    pc = "done" /\ (error # GOOD \/ failed) => disk["ob"].state = "absent"

(* assembler.c:204 "Further processing of instruction line is done in      *)
(* second pass": every line the first pass took for an instruction is one  *)
(* for the second pass too, so both end at the same address.               *)
CountedLinesAreProcessed == pc = "appendData" => codeIc = ic

(* instructionList.c:426 "should be valid": the address a jump takes from  *)
(* the symbol table is an address.                                         *)
JumpTargetsAreValid ==
    pc = "secondPass" /\ pos <= Len(src) =>
        (/\ cur.head \in {"la", "call"}
         /\ parseInstruction(cur, symbolTable, codeIc).ec = GOOD
         => AddressOf(cur.params, 1, symbolTable) >= 0)

(* assembler.c:50 "Generate the different output files, turn on hasErrors  *)
(* flag if encountered any errors in them": an object file that is kept    *)
(* has a row for each instruction.                                         *)
WriteErrorsAreNoticed ==
    Produced => Cardinality({r.address : r \in Range(disk["ob"].rows)})
                    >= Cardinality(CodeLines)
===============================================================================
