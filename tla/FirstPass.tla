------------------------------- MODULE FirstPass -------------------------------
(***************************************************************************)
(* The first pass (firstPass, processDirective and processExtern in        *)
(* assembler.c): one action per kind of line, and the relocation that ends *)
(* the loop.  It fills the symbol table and the data image and counts the  *)
(* code; instructions are only counted here.                               *)
(***************************************************************************)
EXTENDS SymbolTable, Directive, FiniteSets, Functions

CONSTANT Sources    \* the programs to assemble, as sequences of parsed lines

ASSUME SourcesAssumption ==
    /\ Sources \subseteq Seq(Line)
    /\ \A s \in Sources : \A i \in DOMAIN s : WellFormed(s[i])

VARIABLES
    src,           \* the program being assembled
    pos,           \* the line the loop is at
    symbolTable,
    ic,            \* the instruction counter, *icOut
    dc,            \* the data counter, *dcOut
    dataImage,     \* the bytes of the list dataImagePtr, end to end
    error,         \* firstPass's local error: what it will return
    hasErrors,     \* firstPass's local hasErrors: some error was printed
    pc             \* where assembleFile stands

firstPassVars == <<src, pos, symbolTable, ic, dc, dataImage, error, hasErrors, pc>>

Init ==
    /\ src \in Sources
    /\ pos = 1
    /\ symbolTable = <<>>
    /\ ic = FIRST_MEMORY_ADDRESS
    /\ dc = 0
    /\ dataImage = <<>>
    /\ error = GOOD
    /\ hasErrors = FALSE
    /\ pc = "firstPass"

cur == src[pos]

(* Where the loop goes: a bad or empty line is skipped before anything     *)
(* else looks at it.                                                       *)
AtLine == pc = "firstPass" /\ pos <= Len(src)

AtUsableLine == AtLine /\ cur.error = GOOD /\ isLineRelevant(cur)

Advance == pos' = pos + 1 /\ UNCHANGED <<src, pc>>

(* logError: ec is what the line returned and the next one may overwrite;  *)
(* hasErrors remembers.                                                    *)
Log(ec) == error' = ec /\ hasErrors' = (hasErrors \/ ec # GOOD)

SkipLine ==
    /\ AtLine
    /\ cur.error # GOOD \/ ~isLineRelevant(cur)
    /\ Advance
    /\ UNCHANGED <<symbolTable, ic, dc, dataImage, error, hasErrors>>

(* An optional label: no label, no error and no change.                    *)
LabelOutcomes(label, address, flag) ==
    IF label = NULL THEN {[ec |-> GOOD, table |-> symbolTable]}
    ELSE AddSymbolOutcomes(symbolTable, label, address, flag)

addBytesToImage == {GOOD} \cup IF "malloc" \in Faults THEN {"INSUFFICIENT_MEMORY"} ELSE {}

(* Variant with a bug: that the bytes are lost is not logged.              *)
KeepBytes_Unlogged(bytes, appended) ==
    /\ error' = appended
    /\ UNCHANGED hasErrors
    /\ dc' = dc + Len(bytes)
    /\ dataImage' = IF appended = GOOD THEN dataImage \o bytes ELSE dataImage

(* dc grows even if the bytes are not kept.                                *)
KeepBytes(bytes, appended) ==
    /\ Log(appended)
    /\ dc' = dc + Len(bytes)
    /\ dataImage' = IF appended = GOOD THEN dataImage \o bytes ELSE dataImage

(* processDirective.  A rejected label is handed on to directiveToBytes,   *)
(* which then returns no bytes.                                            *)
DirectiveLine ==
    /\ AtUsableLine
    /\ isLineDirective(cur)
    /\ cur.head = ".asciz" => cur.params # <<>>
    /\ \E labelled \in LabelOutcomes(cur.label, dc, "DATA") :
       \E encoded \in directiveToBytes(cur, labelled.ec) :
       \E appended \in addBytesToImage :
         /\ symbolTable' = labelled.table
         /\ IF encoded.ec # GOOD
            THEN Log(encoded.ec) /\ UNCHANGED <<dc, dataImage>>
            ELSE KeepBytes(encoded.bytes, appended)
    /\ Advance
    /\ UNCHANGED ic

(* A label on the .entry line and all operands but the first are ignored.  *)
EntryLine ==
    /\ AtUsableLine
    /\ cur.head = ".entry"
    /\ cur.params # <<>>
    /\ \E r \in AddSymbolOutcomes(symbolTable, LabelOf(cur.params[1]), -1, "ENTRY") :
         symbolTable' = r.table /\ Log(r.ec)
    /\ Advance
    /\ UNCHANGED <<ic, dc, dataImage>>

processExtern(params) ==
    LET Fail(ec) == {[ec |-> ec, table |-> symbolTable]}
    IN  IF params = <<>> THEN Fail("MISSING_OPERAND")
        ELSE IF ~isLastNode(params) THEN Fail("TOO_MANY_ARGUMENTS")
        ELSE IF isValidLabel(LabelOf(params[1])) # GOOD THEN Fail("INVALID_LABEL")
        ELSE AddSymbolOutcomes(symbolTable, LabelOf(params[1]), 0, "EXTERNAL")

ExternLine ==
    /\ AtUsableLine
    /\ cur.head = ".extern"
    /\ \E r \in processExtern(cur.params) : symbolTable' = r.table /\ Log(r.ec)
    /\ Advance
    /\ UNCHANGED <<ic, dc, dataImage>>

(* Variant with a bug: a line with a rejected label is not counted.        *)
InstructionLine_Rejects ==
    /\ AtUsableLine
    /\ isInstruction(cur)
    /\ \E r \in LabelOutcomes(cur.label, ic, "CODE") :
         /\ symbolTable' = r.table
         /\ Log(r.ec)
         /\ ic' = IF r.ec = GOOD THEN ic + BYTES_IN_CODE_LINE ELSE ic
    /\ Advance
    /\ UNCHANGED <<dc, dataImage>>

(* Any other word counts as an instruction; without a label the line does  *)
(* not touch error.                                                        *)
InstructionLine ==
    /\ AtUsableLine
    /\ isInstruction(cur)
    /\ \E r \in LabelOutcomes(cur.label, ic, "CODE") :
         /\ symbolTable' = r.table
         /\ IF cur.label = NULL THEN UNCHANGED <<error, hasErrors>> ELSE Log(r.ec)
    /\ ic' = ic + BYTES_IN_CODE_LINE
    /\ Advance
    /\ UNCHANGED <<dc, dataImage>>

(* The assertion that there is a string.                                   *)
AssertionFails == cur.head = ".asciz" /\ cur.params = <<>>

(* The name of an .entry is read through the pointer to the first operand. *)
ReadsThroughNull == cur.head = ".entry" /\ cur.params = <<>>

(* Either ends the process.                                                *)
CrashLine ==
    /\ AtUsableLine
    /\ AssertionFails \/ ReadsThroughNull
    /\ pc' = "crashed"
    /\ UNCHANGED <<src, pos, symbolTable, ic, dc, dataImage, error, hasErrors>>

EndFirstPass ==
    /\ pc = "firstPass"
    /\ pos > Len(src)
    /\ symbolTable' = Relocate(symbolTable, ic)
    /\ pc' = "firstPassDone"
    /\ UNCHANGED <<src, pos, ic, dc, dataImage, error, hasErrors>>

Pass1 ==
    \/ SkipLine \/ DirectiveLine \/ EntryLine \/ ExternLine \/ InstructionLine
    \/ CrashLine \/ EndFirstPass

(* The first pass on its own stops here.                                   *)
FirstPassOver == pc # "firstPass" /\ UNCHANGED firstPassVars

FirstPassSpec == Init /\ [][Pass1 \/ FirstPassOver]_firstPassVars
-------------------------------------------------------------------------------
(* Type invariant of the first pass: the variables of firstPass keep their *)
(* types, the symbols have only names isValidLabel lets through, and ic    *)
(* stays a whole number of instructions.                                   *)
DataTypeOK ==
    /\ src \in Sources
    /\ pos \in 1..Len(src) + 1
    /\ symbolTable \in Seq(Symbol)
    /\ ic \in Nat /\ ic % BYTES_IN_CODE_LINE = 0
    /\ dc \in Nat
    /\ dataImage \in Seq(Char)
    /\ error \in ErrorCode
    /\ hasErrors \in BOOLEAN

TypeOK == DataTypeOK /\ pc \in {"firstPass", "firstPassDone", "crashed"}

relocated == pc = "firstPassDone"

(* What the lines before line i put into the two images, read off the      *)
(* program text and not off the counters.                                  *)
CountsAsCode(l) == l.error = GOOD /\ isInstruction(l)

CodeAddress(i) ==
    FIRST_MEMORY_ADDRESS
        + BYTES_IN_CODE_LINE * Cardinality({j \in 1..i - 1 : CountsAsCode(src[j])})

DataSize(l) ==
    IF l.error # GOOD \/ ~isLineDirective(l) THEN 0
    ELSE IF l.head = ".asciz" THEN Len(l.params[1].val) + 1
    ELSE directiveTypeToSize(l.head) * Len(l.params)

DataOffset(i) ==
    Cardinality(UNION {{j} \X (1..DataSize(src[j])) : j \in 1..i - 1})

(* ic is the address behind the lines taken for instructions so far, one   *)
(* whose label was rejected included.  (Whether the second pass counts the *)
(* same lines is what PassesAgree and CountedLinesAreProcessed say.)       *)
CodeCounted == ic = CodeAddress(pos)

(* dc is what the .ob header takes it for: without errors the number of    *)
(* bytes in the data image, which are those of the directives read so far. *)
(* Only a reported failure of addBytesToImage may leave it ahead.          *)
DataCounted ==
    /\ dc >= Len(dataImage)
    /\ ~hasErrors => dc = Len(dataImage) /\ dc = DataOffset(pos)

(* Every declaration read so far is in the table with the address its      *)
(* place in the program gives it, .entry before or after the definition,   *)
(* and the data labels behind the code once the pass is over.  This is     *)
(* what the second pass relies on when no error was reported.              *)
DeclarationResolved(i, moved) ==
    LET l == src[i]
        Declared(n, flag) ==
            \E s \in Range(symbolTable) :
                /\ s.label = n
                /\ flag \in s.attributes
                /\ flag = "EXTERNAL" => s.address = 0
        Defined(n, flag, address) ==
            LET k == findSymbolInTable(symbolTable, n)
            IN  /\ k # 0
                /\ flag \in symbolTable[k].attributes
                /\ symbolTable[k].address = address
    IN  l.error = GOOD =>
          /\ l.head = ".entry" => Declared(LabelOf(l.params[1]), "ENTRY")
          /\ l.head = ".extern" => Declared(LabelOf(l.params[1]), "EXTERNAL")
          /\ isLineDirective(l) /\ l.label # NULL =>
               Defined(l.label, "DATA", DataOffset(i) + moved)
          /\ isInstruction(l) /\ l.label # NULL =>
               Defined(l.label, "CODE", CodeAddress(i))

DeclarationsResolved ==
    ~hasErrors =>
        \A i \in 1..pos - 1 : DeclarationResolved(i, IF relocated THEN ic ELSE 0)

(* The first symbol with a label is the only one that can define it: a     *)
(* later one comes from .extern alone.  Both passes look labels up from    *)
(* the head of the list and would otherwise miss a definition.             *)
DefinedOnce ==
    \A i, j \in DOMAIN symbolTable :
        i < j /\ symbolTable[i].label = symbolTable[j].label =>
            symbolTable[j].attributes = {"EXTERNAL"}

(* A symbol never is code, data and external at once in any combination,   *)
(* so relocation moves data symbols only and a branch cannot be taken for  *)
(* an external one; and the address -1 marks exactly the names that only   *)
(* .entry has mentioned.                                                   *)
OneKind ==
    \A s \in Range(symbolTable) :
        /\ \A f, g \in s.attributes \ {"ENTRY"} : f = g
        /\ s.address = -1 <=> s.attributes = {"ENTRY"}
        /\ "EXTERNAL" \in s.attributes => s.address = 0

(* The meaning of a name is that of the first symbol with its label; under *)
(* this reading the first pass implements the name space.                  *)
Kind(attributes) ==
    IF "CODE" \in attributes THEN "code"
    ELSE IF "DATA" \in attributes THEN "data"
    ELSE IF "EXTERNAL" \in attributes THEN "extern" ELSE "none"

Meaning(table, n) ==
    LET k == findSymbolInTable(table, n)
    IN  IF k = 0 THEN [kind |-> "none", address |-> -1]
        ELSE [kind |-> Kind(table[k].attributes), address |-> table[k].address]

Exported(table) ==
    {n \in Names :
        LET k == findSymbolInTable(table, n)
        IN  k # 0 /\ "ENTRY" \in table[k].attributes}

N == INSTANCE Namespace WITH
        bind <- [n \in Names |-> Meaning(symbolTable, n)],
        exported <- Exported(symbolTable),
        moved <- relocated

(* No step of the first pass changes the meaning a name already has, other *)
(* than by moving all data together.                                       *)
ImplementsNamespace == N!Spec

(* assembler.c:164 "@return the error encountered": an error that was      *)
(* reported on some line is what firstPass returns.                        *)
ErrorIsReturned == relocated /\ hasErrors => error # GOOD
===============================================================================
