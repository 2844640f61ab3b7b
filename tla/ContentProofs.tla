---------------------------- MODULE ContentProofs -----------------------------
(***************************************************************************)
(* Proofs about what the output of assembleFile says, for every program:   *)
(* the rows of the three files are those that the text of the program      *)
(* calls for.                                                              *)
(***************************************************************************)
EXTENDS AssemblerProofs

-------------------------------------------------------------------------------
(* What the first pass hands over, said of the program and of the tables   *)
(* alone.                                                                  *)
FirstPassResult ==
    /\ src \in Sources
    /\ TableOK(symbolTable)
    /\ ic = CodeAddress(Len(src) + 1)
    /\ dc \in Nat /\ dataImage \in Seq(Char)
    /\ \A i \in DOMAIN src : Survived(i)
    /\ Justified(symbolTable, Len(src) + 1)
    /\ ~hasErrors =>
         /\ dc = Len(dataImage) /\ dc = DataOffset(Len(src) + 1)
         /\ \A i \in DOMAIN src : Entered(symbolTable, i, ic)

(* The invariant: no statement behind the first pass changes any of it.    *)
ResultInv ==
    /\ pc = "firstPass" => Inv /\ Counted /\ Declared
    /\ pc \notin {"firstPass", "crashed"} => FirstPassResult

resultVars == <<src, symbolTable, ic, dc, dataImage, hasErrors>>

(* The statements of assembleFile behind the first pass.                   *)
LaterStep ==
    \/ FirstPassFailed \/ OpenObject \/ writeObjFileHeader
    \/ SecondPassSkip \/ SecondPassLine \/ SecondPassEnd \/ appendDataImageToFile
    \/ generateEntriesFile \/ generateExternalsFile \/ removeOutputFiles

(* Nothing behind the first pass writes what it left.                      *)
LEMMA LaterStepLeaves ==
    ASSUME LaterStep
    PROVE  /\ UNCHANGED resultVars /\ error' = error
           /\ pc \notin {"firstPass", "crashed"} /\ pc' \notin {"firstPass", "crashed"}
<1>1. UNCHANGED resultVars /\ error' = error
  BY Zenon DEF LaterStep, resultVars, FirstPassFailed, OpenObject, writeObjFileHeader,
               SecondPassSkip, SecondPassLine, SecondPassEnd, appendDataImageToFile,
               generateEntriesFile, generateExternalsFile, removeOutputFiles, Goto
<1>2. pc \notin {"firstPass", "crashed"} /\ pc' \notin {"firstPass", "crashed"}
  BY DEF LaterStep, FirstPassFailed, OpenObject, writeObjFileHeader,
         SecondPassSkip, SecondPassLine, SecondPassEnd, appendDataImageToFile,
         generateEntriesFile, generateExternalsFile, removeOutputFiles, Goto
<1> QED BY <1>1, <1>2

(* A step is one of the first pass or a later one.                         *)
LEMMA StepCases == Step <=> FirstPassStep \/ LaterStep
BY Zenon DEF Step, LaterStep

(* The first pass goes no further than its own end.                        *)
LEMMA FirstPassStepStays ==
    ASSUME FirstPassStep
    PROVE  pc = "firstPass" /\ pc' \in BeforeOutput /\ src' = src
BY DEF FirstPassStep, Pass1, SkipLine, DirectiveLine, EntryLine, ExternLine,
       InstructionLine, CrashLine, EndFirstPass, AtUsableLine, AtLine, Advance,
       BeforeOutput

(* The result is said of these variables alone.                            *)
LEMMA SameResult ==
    ASSUME FirstPassResult, UNCHANGED resultVars
    PROVE  FirstPassResult'
<1>1. UNCHANGED <<src, symbolTable, ic, dc, dataImage, hasErrors>>
  BY DEF resultVars
<1>2. (\A i \in DOMAIN src : Survived(i))' /\ Justified(symbolTable, Len(src) + 1)'
  BY <1>1, SameProgram DEF FirstPassResult, Justified
<1>3. (~hasErrors =>
         /\ dc = Len(dataImage) /\ dc = DataOffset(Len(src) + 1)
         /\ \A i \in DOMAIN src : Entered(symbolTable, i, ic))'
  <2>1. \A i : Entered(symbolTable, i, ic) => Entered(symbolTable, i, ic)'
    BY <1>1, SameProgram DEF Entered
  <2> QED BY <1>1, <2>1, SameProgram DEF FirstPassResult
<1>4. (ic = CodeAddress(Len(src) + 1))'
  BY <1>1, SameProgram DEF FirstPassResult
<1> QED BY <1>1, <1>2, <1>3, <1>4 DEF FirstPassResult, TableOK

(* The first pass establishes the result.                                  *)
LEMMA FirstPassGivesResult ==
    ASSUME ResultInv, FirstPassStep
    PROVE  ResultInv'
<1>1. Inv /\ Counted /\ Declared /\ Pass1 /\ pc' \in BeforeOutput
  BY FirstPassStepStays DEF ResultInv, FirstPassStep
<1>2. Inv' /\ Counted' /\ Declared'
  BY <1>1, Pass1KeepsInv, Pass1KeepsCount, Pass1KeepsDeclared
<1>3. pc' = "firstPassDone" => FirstPassResult'
  <2> SUFFICES ASSUME pc' = "firstPassDone" PROVE FirstPassResult'
    OBVIOUS
  <2>1. EndFirstPass
    BY <1>1, FirstPassStepStays
       DEF Pass1, SkipLine, DirectiveLine, EntryLine, ExternLine, InstructionLine,
           CrashLine, AtUsableLine, AtLine, Advance
  <2>2. (src \in Sources /\ Len(src) \in Nat /\ DOMAIN src = 1..Len(src) /\ relocated)'
    BY <1>2, SourcesAssumption DEF Inv, TypeOK, DataTypeOK, relocated
  <2>3. (pos = Len(src) + 1)'
    BY <1>2, <2>1, <2>2 DEF EndFirstPass, Inv, TypeOK, DataTypeOK
  <2>4. (1..pos - 1 = DOMAIN src)'
    BY <2>2, <2>3
  <2> QED BY <1>2, <2>2, <2>3, <2>4
          DEF FirstPassResult, Inv, TypeOK, DataTypeOK, Counted, CodeCounted, Declared,
              DataCounted
<1> QED BY <1>1, <1>2, <1>3 DEF ResultInv, BeforeOutput

(* Each step keeps it.                                                     *)
LEMMA StepKeepsResult == ASSUME ResultInv, Step PROVE ResultInv'
<1>1. CASE LaterStep
  BY <1>1, LaterStepLeaves, SameResult DEF ResultInv
<1> QED BY <1>1, StepCases, FirstPassGivesResult

(* Standing still keeps it.                                                *)
LEMMA StutterKeepsResult == ASSUME ResultInv, UNCHANGED vars PROVE ResultInv'
<1>1. /\ UNCHANGED resultVars /\ UNCHANGED firstPassVars /\ pc' = pc
      /\ UNCHANGED <<src, pos, symbolTable, ic, dc, dataImage, error, hasErrors>>
  BY DEF vars, firstPassVars, resultVars
<1>2. Inv => Inv'
  BY <1>1 DEF Inv, TypeOK, DataTypeOK, TableOK
<1>3. Counted => Counted'
  BY <1>1, SameProgram DEF Counted, CodeCounted
<1>4. Declared => Declared'
  BY <1>1, StillDeclared DEF relocated
<1> QED BY <1>1, <1>2, <1>3, <1>4, SameResult DEF ResultInv

(* It holds when assembleFile starts.                                      *)
LEMMA BegunHasResult == ASSUME Begun PROVE ResultInv
BY InitIsInv, InitIsCounted, InitIsDeclared DEF Begun, Init, ResultInv

-------------------------------------------------------------------------------
(* The entries.                                                            *)

(* Going through a set of positions in order meets each of them once.      *)
LEMMA NthMeetsEach ==
    ASSUME NEW n \in Nat, NEW S \in SUBSET (1..n)
    PROVE  /\ IsFiniteSet(S) /\ Cardinality(S) \in Nat
           /\ \A k \in 1..Cardinality(S) : Nth(S, k) \in S
           /\ \A i \in S : \E k \in 1..Cardinality(S) : Nth(S, k) = i
<1> DEFINE upTo(i) == {j \in S : j <= i}
           rank == [i \in S |-> Cardinality(upTo(i))]
           N0 == Cardinality(S)
<1>1. IsFiniteSet(S) /\ N0 \in Nat
  <2>1. IsFiniteSet(1..n)
    BY FS_Interval
  <2>2. IsFiniteSet(S)
    BY <2>1, FS_Subset
  <2> QED BY <2>2, FS_CardinalityType
<1>2. ASSUME NEW i \in S
      PROVE  /\ IsFiniteSet(upTo(i)) /\ Cardinality(upTo(i)) \in 1..N0
             /\ \A j \in S : j < i => Cardinality(upTo(j)) # Cardinality(upTo(i))
  <2>1. ASSUME NEW T \in SUBSET S
        PROVE  IsFiniteSet(T) /\ Cardinality(T) \in Nat /\ Cardinality(T) <= N0
    BY <1>1, FS_Subset, FS_CardinalityType
  <2>2. i \in upTo(i)
    OBVIOUS
  <2>3. Cardinality(upTo(i)) # 0
    BY <2>1, <2>2, FS_EmptySet
  <2>4. ASSUME NEW j \in S, j < i PROVE Cardinality(upTo(j)) # Cardinality(upTo(i))
    <3>1. upTo(j) \subseteq upTo(i) /\ i \notin upTo(j)
      <4>1. i \in Nat /\ j \in Nat /\ \A m \in S : m \in Nat
        OBVIOUS
      <4>2. \A m \in S : m <= j => m <= i
        BY <2>4, <4>1
      <4>3. ~(i <= j)
        BY <2>4, <4>1
      <4> QED BY <4>2, <4>3
    <3> QED BY <2>1, <2>2, <3>1, FS_Subset
  <2> HIDE DEF upTo
  <2>5. IsFiniteSet(upTo(i)) /\ Cardinality(upTo(i)) \in Nat /\ Cardinality(upTo(i)) <= N0
    BY <2>1 DEF upTo
  <2> HIDE DEF N0
  <2> QED BY <1>1, <2>3, <2>4, <2>5
<1>3. rank \in Injection(S, 1..N0)
  <2>1. rank \in [S -> 1..N0]
    BY <1>2
  <2>2. \A i, j \in S : rank[i] = rank[j] => i = j
    <3> SUFFICES ASSUME NEW i \in S, NEW j \in S, i # j PROVE rank[i] # rank[j]
      OBVIOUS
    <3> HIDE DEF upTo
    <3>1. i < j \/ j < i
      OBVIOUS
    <3> QED BY <1>2, <3>1
  <2> HIDE DEF rank
  <2> QED BY <2>1, <2>2 DEF Injection, IsInjective
<1>4. rank \in Surjection(S, 1..N0)
  <2>1. IsFiniteSet(1..N0) /\ Cardinality(1..N0) = N0
    BY <1>1, FS_Interval
  <2> HIDE DEF rank
  <2> QED BY <1>3, <2>1, FS_Injection
<1>5. ASSUME NEW k \in 1..N0 PROVE \E i \in S : Cardinality({j \in S : j <= i}) = k
  BY <1>4 DEF Surjection
<1>6. ASSUME NEW k \in 1..N0
      PROVE  Nth(S, k) \in S /\ Cardinality(upTo(Nth(S, k))) = k
  BY <1>5 DEF Nth
<1>7. ASSUME NEW i \in S PROVE \E k \in 1..N0 : Nth(S, k) = i
  <2>1. rank[i] \in 1..N0
    BY <1>2
  <2>2. Nth(S, rank[i]) \in S /\ rank[Nth(S, rank[i])] = rank[i]
    BY <1>6, <2>1
  <2> HIDE DEF rank
  <2> QED BY <1>3, <2>1, <2>2 DEF Injection, IsInjective
<1> QED BY <1>1, <1>6, <1>7

(* The first symbol with a label, and what comes behind it.                *)
LEMMA FirstSymbol ==
    ASSUME NEW t, TableOK(t), NEW n
    PROVE  LET k == findSymbolInTable(t, n)
           IN  /\ \A j \in DOMAIN t : t[j].label = n => k # 0 /\ (j = k \/ t[j].attributes = {"EXTERNAL"})
               /\ k # 0 => /\ k \in DOMAIN t /\ t[k].label = n /\ t[k] \in Symbol
                           /\ OneMeaning(t[k])
<1> DEFINE k == findSymbolInTable(t, n)
<1>1. t \in Seq(Symbol) /\ Len(t) \in Nat /\ DOMAIN t = 1..Len(t)
  BY DEF TableOK
<1>2. \/ k = 0 /\ \A i \in DOMAIN t : t[i].label # n
      \/ /\ k \in DOMAIN t
         /\ t[k].label = n
         /\ \A i \in DOMAIN t : t[i].label = n => k <= i
  BY <1>1, FindIsFirst
<1> HIDE DEF k
<1>3. ASSUME NEW j \in DOMAIN t, t[j].label = n
      PROVE  k # 0 /\ (j = k \/ t[j].attributes = {"EXTERNAL"})
  <2>1. k \in DOMAIN t /\ t[k].label = n /\ k <= j
    BY <1>2, <1>3
  <2>2. j # k => k < j
    BY <1>1, <2>1
  <2> QED BY <1>1, <1>3, <2>1, <2>2 DEF TableOK, OneDefinition
<1>4. k # 0 => k \in DOMAIN t /\ t[k].label = n /\ t[k] \in Symbol /\ OneMeaning(t[k])
  BY <1>1, <1>2 DEF TableOK
<1> QED BY <1>3, <1>4 DEF k

(* .entry and .extern leave their marks, and nothing else does.            *)
LEMMA MentionsAreMarks ==
    ASSUME FirstPassResult, ~hasErrors, NEW n \in Names
    PROVE  /\ Mentions(".entry", n) <=> Marked(symbolTable, n, "ENTRY")
           /\ Mentions(".extern", n) <=> Marked(symbolTable, n, "EXTERNAL")
<1>1. DOMAIN src = 1..(Len(src) + 1) - 1 /\ \A i \in DOMAIN src : WellFormed(src[i])
  BY SourcesAssumption DEF FirstPassResult
<1>2. Mentions(".entry", n) <=> \E i \in DOMAIN src : Declares(i, "ENTRY", n)
  BY <1>1 DEF Mentions, Declares, WellFormed
<1>3. Mentions(".extern", n) <=> \E i \in DOMAIN src : Declares(i, "EXTERNAL", n)
  BY <1>1 DEF Mentions, Declares, WellFormed
<1>4. \A i \in DOMAIN src, flag \in Flags : Declares(i, flag, n) => Marked(symbolTable, n, flag)
  BY DEF FirstPassResult, Entered
<1>5. \A flag \in Flags : Marked(symbolTable, n, flag) => \E i \in DOMAIN src : Declares(i, flag, n)
  BY <1>1 DEF FirstPassResult, Justified
<1>6. "ENTRY" \in Flags /\ "EXTERNAL" \in Flags
  BY DEF Flags
<1> QED BY <1>2, <1>3, <1>4, <1>5, <1>6

(* A name the program defines has its address in the table; any other is   *)
(* neither code nor data there.                                            *)
LEMMA DefinitionsAreFound ==
    ASSUME FirstPassResult, ~hasErrors, NEW n \in Names
    PROVE  LET k == findSymbolInTable(symbolTable, n)
           IN  IF DefinedAt(n) # {}
               THEN /\ k # 0 /\ symbolTable[k].attributes \cap {"DATA", "CODE"} # {}
                    /\ symbolTable[k].address = AddressInProgram(n)
                    /\ symbolTable[k].address \in Nat
               ELSE ~Marked(symbolTable, n, "DATA") /\ ~Marked(symbolTable, n, "CODE")
<1> DEFINE k == findSymbolInTable(symbolTable, n)
<1>1. DOMAIN src = 1..(Len(src) + 1) - 1 /\ n # NULL /\ ic = CodeAddress(Len(src) + 1)
  BY SourcesAssumption, NamesAssumption DEF FirstPassResult
<1>2. CASE DefinedAt(n) # {}
  <2> DEFINE i == CHOOSE j \in DefinedAt(n) : TRUE
  <2>1. i \in DefinedAt(n)
    BY <1>2
  <2> HIDE DEF i
  <2>2. /\ i \in DOMAIN src /\ src[i].error = GOOD /\ src[i].label = n
        /\ isLineDirective(src[i]) \/ isInstruction(src[i])
    BY <2>1 DEF DefinedAt
  <2>3. AddressInProgram(n) = IF isLineDirective(src[i])
                              THEN CodeAddress(Len(src) + 1) + DataOffset(i)
                              ELSE CodeAddress(i)
    BY DEF AddressInProgram, i
  <2>4. CodeAddress(i) \in Nat /\ CodeAddress(Len(src) + 1) \in Nat /\ DataOffset(i) \in Nat
    <3>1. /\ i \in Nat \ {0} /\ Len(src) + 1 \in Nat \ {0} /\ src \in Sources
          /\ \A j \in 1..i : j \in DOMAIN src /\ Survived(j)
      BY <2>2, SourcesAssumption DEF FirstPassResult
    <3> QED BY <3>1, NextCodeAddress, NextDataOffset, DataSizeType
  <2>5. CASE isLineDirective(src[i])
    <3>1. Declares(i, "DATA", n)
      BY <1>1, <2>2, <2>5 DEF Declares
    <3>2. Resolves(symbolTable, n, "DATA", DataOffset(i) + ic)
      BY <2>2, <3>1 DEF FirstPassResult, Entered
    <3>3. DataOffset(i) + ic = AddressInProgram(n) /\ AddressInProgram(n) \in Nat
      BY <1>1, <2>3, <2>4, <2>5
    <3> QED BY <1>2, <3>2, <3>3 DEF Resolves
  <2>6. CASE ~isLineDirective(src[i])
    <3>1. Declares(i, "CODE", n)
      BY <1>1, <2>2, <2>6 DEF Declares
    <3>2. Resolves(symbolTable, n, "CODE", CodeAddress(i))
      BY <2>2, <3>1 DEF FirstPassResult, Entered
    <3> QED BY <1>2, <2>3, <2>4, <2>6, <3>2 DEF Resolves
  <2> QED BY <2>5, <2>6
<1>3. CASE DefinedAt(n) = {}
  <2>1. \A i \in DOMAIN src : ~Declares(i, "DATA", n) /\ ~Declares(i, "CODE", n)
    BY <1>3 DEF DefinedAt, Declares
  <2>2. "DATA" \in Flags /\ "CODE" \in Flags
    BY DEF Flags
  <2> QED BY <1>1, <1>3, <2>1, <2>2 DEF FirstPassResult, Justified
<1> QED BY <1>2, <1>3

(* An object file of this run means that nothing failed.                   *)
LEMMA ProducedMeansGood ==
    ASSUME FilesInv, Produced
    PROVE  pc = "done" /\ error = GOOD /\ ~failed /\ ~hasErrors /\ NoUnknownDirective
<1>1. PICK old : (\A e \in Extensions : old[e].state # "new") /\ OutputInv(old)
  BY DEF FilesInv
<1>2. pc = "done" /\ disk["ob"].state = "new" /\ ~hasErrors /\ NoUnknownDirective
  BY DEF Produced
<1>3. error = GOOD
  BY <1>1, <1>2 DEF OutputInv, Extensions
<1>4. ~failed
  BY <1>1, <1>2, <1>3 DEF OutputInv, Extensions, Absent, File
<1> QED BY <1>2, <1>3, <1>4

(* The invariant: the file of entries has the rows of the table.           *)
EntriesInv ==
    pc = "externals" \/ (pc = "done" /\ error = GOOD) =>
        (~failed => disk["ent"].rows = EntryRows)

(* Each step keeps it.                                                     *)
LEMMA StepKeepsEntries ==
    ASSUME FilesInv, EntriesInv, Step \/ UNCHANGED vars
    PROVE  EntriesInv'
<1>1. PICK old : OutputInv(old)
  BY DEF FilesInv
<1>2. CASE UNCHANGED vars
  BY <1>2 DEF vars, firstPassVars, outputVars, EntriesInv, EntryRows
<1>3. CASE FirstPassStep
  BY <1>3, FirstPassStepStays DEF EntriesInv, BeforeOutput
<1>4. CASE LaterStep
  <2>1. symbolTable' = symbolTable /\ EntryRows' = EntryRows /\ error' = error
    BY <1>4, LaterStepLeaves DEF resultVars, EntryRows
  <2>2. CASE \/ FirstPassFailed \/ OpenObject \/ writeObjFileHeader
             \/ SecondPassSkip \/ SecondPassLine \/ SecondPassEnd \/ appendDataImageToFile
    BY <2>1, <2>2 DEF FirstPassFailed, OpenObject, writeObjFileHeader, SecondPassSkip,
                      SecondPassLine, SecondPassEnd, appendDataImageToFile, Goto, EntriesInv
  <2>3. CASE generateEntriesFile
    <3>1. GenerateFile("ent", EntryRows) /\ pc' = "externals"
      BY <2>3 DEF generateEntriesFile, Goto
    <3>2. CASE failed' = TRUE
      BY <3>2 DEF EntriesInv
    <3>3. CASE Write("ent", IF EntryRows = <<>> THEN Absent ELSE New(<<>>, EntryRows))
      <4> DEFINE f == IF EntryRows = <<>> THEN Absent ELSE New(<<>>, EntryRows)
      <4>1. IsFile(f) /\ f.rows = EntryRows
        BY DEF IsFile, New, Absent, File
      <4>2. IsDisk(disk)
        BY <1>1 DEF OutputInv
      <4> HIDE DEF f
      <4>3. disk'["ent"] = f
        BY <3>3, <4>1, <4>2, WriteOne DEF Extensions, f
      <4> QED BY <2>1, <4>1, <4>3 DEF EntriesInv
    <3> QED BY <3>1, <3>2, <3>3 DEF GenerateFile
  <2>4. CASE generateExternalsFile
    <3>1. /\ GenerateFile("ext", externalTable) /\ pc = "externals"
          /\ pc' = (IF failed' THEN "cleanup" ELSE "done")
      BY <2>4 DEF generateExternalsFile, Goto
    <3>2. /\ disk'["ent"] = disk["ent"] /\ (~failed' => ~failed)
      BY <1>1, <3>1, GenerateFileLeaves DEF OutputInv, Extensions
    <3> QED BY <2>1, <3>1, <3>2 DEF EntriesInv
  <2>5. CASE removeOutputFiles
    <3>1. failed /\ failed' = failed
      BY <1>1, <2>5 DEF removeOutputFiles, OutputInv
    <3> QED BY <3>1 DEF EntriesInv
  <2> QED BY <1>4, <2>2, <2>3, <2>4, <2>5 DEF LaterStep
<1> QED BY <1>2, <1>3, <1>4, StepCases

(* The rows of the table are those that the program calls for.             *)
LEMMA EntryRowsAreComplete ==
    ASSUME FirstPassResult, ~hasErrors
    PROVE  LET names == {n \in Names : Mentions(".entry", n)}
           IN  /\ {r.label : r \in Range(EntryRows)} = names
               /\ Len(EntryRows) = Cardinality(names)
               /\ \A r \in Range(EntryRows) :
                    DefinedAt(r.label) # {} => r.address = AddressInProgram(r.label)
<1> DEFINE entries == {i \in DOMAIN symbolTable : "ENTRY" \in symbolTable[i].attributes}
           names == {n \in Names : Mentions(".entry", n)}
           count == Cardinality(entries)
           row(k) == [label |-> symbolTable[Nth(entries, k)].label,
                      address |-> symbolTable[Nth(entries, k)].address]
<1>1. /\ TableOK(symbolTable) /\ symbolTable \in Seq(Symbol)
      /\ Len(symbolTable) \in Nat /\ DOMAIN symbolTable = 1..Len(symbolTable)
  BY DEF FirstPassResult, TableOK
<1>2. /\ IsFiniteSet(entries) /\ count \in Nat
      /\ \A k \in 1..count : Nth(entries, k) \in entries
      /\ \A i \in entries : \E k \in 1..count : Nth(entries, k) = i
  <2>1. entries \in SUBSET (1..Len(symbolTable))
    BY <1>1
  <2> HIDE DEF entries
  <2> QED BY <1>1, <2>1, NthMeetsEach
<1>3. EntryRows = [k \in 1..count |-> row(k)]
  BY DEF EntryRows
<1>4. \A i \in entries : symbolTable[i] \in Symbol /\ symbolTable[i].label \in Names
  <2>1. \A i \in DOMAIN symbolTable : symbolTable[i] \in Symbol
    BY <1>1
  <2> QED BY LabelsAreNames, <2>1 DEF Symbol
<1>5. Range(EntryRows) = {[label |-> symbolTable[i].label, address |-> symbolTable[i].address]
                            : i \in entries}
  <2> HIDE DEF entries, count
  <2> QED BY <1>2, <1>3 DEF Range
<1>6. Len(EntryRows) = count
  <2> HIDE DEF entries, count, row
  <2> QED BY <1>2, <1>3
<1>7. \A n \in Names : n \in names <=> \E i \in entries : symbolTable[i].label = n
  BY MentionsAreMarks DEF Marked
<1>8. {r.label : r \in Range(EntryRows)} = names
  <2>1. names \subseteq Names
    OBVIOUS
  <2> HIDE DEF entries, names
  <2>2. ASSUME NEW i \in entries
        PROVE  \E r \in Range(EntryRows) : r.label = symbolTable[i].label
    <3> DEFINE r == [label |-> symbolTable[i].label, address |-> symbolTable[i].address]
    <3>1. r \in Range(EntryRows)
      BY <1>5
    <3>2. r.label = symbolTable[i].label
      OBVIOUS
    <3> HIDE DEF r
    <3> QED BY <3>1, <3>2
  <2>3. ASSUME NEW r \in Range(EntryRows)
        PROVE  \E i \in entries : r.label = symbolTable[i].label
    BY <1>5
  <2>4. \A r \in Range(EntryRows) : r.label \in names
    BY <1>4, <1>7, <2>3
  <2>5. \A n \in names : \E r \in Range(EntryRows) : r.label = n
    BY <1>7, <2>1, <2>2
  <2> QED BY <2>4, <2>5
<1>9. \A i, j \in entries : symbolTable[i].label = symbolTable[j].label => i = j
  BY <1>1 DEF TableOK, OneDefinition
<1>10. count = Cardinality(names)
  <2> DEFINE f == [i \in entries |-> symbolTable[i].label]
  <2>1. f \in Surjection(entries, names)
    <3>1. \A i \in entries : f[i] \in names
      BY <1>4, <1>7
    <3>2. \A n \in names : \E i \in entries : f[i] = n
      BY <1>7
    <3> HIDE DEF entries, names
    <3> QED BY <3>1, <3>2 DEF Surjection
  <2>2. f \in Injection(entries, names)
    <3>1. f \in [entries -> names] /\ \A i, j \in entries : f[i] = f[j] => i = j
      BY <1>9, <2>1 DEF Surjection
    <3> HIDE DEF entries, names
    <3> QED BY <3>1 DEF Injection, IsInjective
  <2> HIDE DEF entries, names, f
  <2> QED BY <1>2, <2>1, <2>2, FS_Surjection
<1>11. ASSUME NEW i \in entries, DefinedAt(symbolTable[i].label) # {}
       PROVE  symbolTable[i].address = AddressInProgram(symbolTable[i].label)
  <2> DEFINE n == symbolTable[i].label
             k == findSymbolInTable(symbolTable, n)
  <2>1. n \in Names /\ symbolTable[k].address = AddressInProgram(n)
    BY <1>4, <1>11, DefinitionsAreFound
  <2>2. i = k
    BY <1>1, <1>11, FirstSymbol
  <2> QED BY <2>1, <2>2
<1>12. \A r \in Range(EntryRows) :
         DefinedAt(r.label) # {} => r.address = AddressInProgram(r.label)
  <2> HIDE DEF entries
  <2> QED BY <1>5, <1>11
<1> QED BY <1>6, <1>8, <1>10, <1>12

(* The entries of a program whose output is kept.                          *)
LEMMA EntriesAreListed ==
    ASSUME ResultInv, FilesInv, EntriesInv
    PROVE  EntriesComplete
<1> SUFFICES ASSUME ResultInv, FilesInv, EntriesInv, Produced
             PROVE  EntriesComplete
  BY DEF EntriesComplete
<1>1. FirstPassResult /\ ~hasErrors /\ disk["ent"].rows = EntryRows
  BY ProducedMeansGood DEF ResultInv, EntriesInv
<1> QED BY <1>1, EntryRowsAreComplete DEF EntriesComplete

-------------------------------------------------------------------------------
(* The externals.                                                          *)

(* A line behind an instruction line has a higher address.                 *)
LEMMA CodeAddressGrows ==
    ASSUME NEW i \in Nat \ {0}, NEW j \in Nat \ {0}, i < j, CountsAsCode(src[i])
    PROVE  CodeAddress(i) < CodeAddress(j)
<1> DEFINE C(k) == {l \in 1..k - 1 : CountsAsCode(src[l])}
<1>1. IsFiniteSet(C(j))
  <2>1. IsFiniteSet(1..j - 1) /\ C(j) \subseteq 1..j - 1
    BY FS_Interval
  <2> QED BY <2>1, FS_Subset
<1>2. C(i) \subseteq C(j)
  OBVIOUS
<1>3. i \in C(j) /\ i \notin C(i)
  OBVIOUS
<1>4. /\ Cardinality(C(i)) \in Nat /\ Cardinality(C(j)) \in Nat
      /\ Cardinality(C(i)) < Cardinality(C(j))
  <2> DEFINE A == C(i)
             B == C(j)
  <2>1. IsFiniteSet(B) /\ A \subseteq B /\ A # B
    BY <1>1, <1>2, <1>3
  <2> HIDE DEF A, B
  <2>2. /\ IsFiniteSet(A) /\ Cardinality(A) <= Cardinality(B)
        /\ Cardinality(A) # Cardinality(B)
    BY <2>1, FS_Subset
  <2>3. Cardinality(A) \in Nat /\ Cardinality(B) \in Nat
    BY <2>1, <2>2, FS_CardinalityType
  <2> QED BY <2>2, <2>3 DEF A, B
<1>5. /\ CodeAddress(i) = FIRST_MEMORY_ADDRESS + BYTES_IN_CODE_LINE * Cardinality(C(i))
      /\ CodeAddress(j) = FIRST_MEMORY_ADDRESS + BYTES_IN_CODE_LINE * Cardinality(C(j))
  BY DEF CodeAddress
<1> HIDE DEF C
<1> QED BY <1>4, <1>5 DEF FIRST_MEMORY_ADDRESS, BYTES_IN_CODE_LINE

(* The use of a label of another file, read off the program, and its row.  *)
ExternalUse(i) ==
    LET n == Target(src[i])
    IN  n # NULL /\ DefinedAt(n) = {} /\ Mentions(".extern", n)

UseRow(i) == [label |-> Target(src[i]), address |-> CodeAddress(i)]

(* No name is both .entry and .extern.                                     *)
OneWay == \A n \in Names : ~(Mentions(".entry", n) /\ Mentions(".extern", n))

(* The list is true, and in order, of the lines before line p ...          *)
ExternalRows(table, p) ==
    /\ table \in Seq(TableRow)
    /\ \A k \in DOMAIN table :
         \E i \in CodeLines : i < p /\ table[k] = UseRow(i) /\ ExternalUse(i)
    /\ \A j, k \in DOMAIN table : j < k => table[j].address < table[k].address

(* ... and complete, unless memory ran out.                                *)
UsesNoted(table, p) ==
    "malloc" \notin Faults /\ OneWay =>
        \A i \in CodeLines :
            i < p /\ ExternalUse(i) => \E k \in DOMAIN table : table[k] = UseRow(i)

(* A use the encoder notes is one of the program.                          *)
LEMMA NotedMeansUse ==
    ASSUME FirstPassResult, ~hasErrors, NEW i \in DOMAIN src, NEW a,
           parseInstruction(src[i], symbolTable, a).ext # NULL
    PROVE  /\ parseInstruction(src[i], symbolTable, a).ext = Target(src[i])
           /\ Target(src[i]) \in Names /\ ExternalUse(i)
<1> DEFINE l == src[i]
           n == l.params[1].val
           k == findSymbolInTable(symbolTable, n)
<1>1. l \in Line
  BY SourcesAssumption DEF FirstPassResult
<1>2. /\ l.head \in LabelJumps \cup {"jmp"} /\ LabelAt(l.params, 1)
      /\ k # 0 /\ "EXTERNAL" \in symbolTable[k].attributes
      /\ parseInstruction(l, symbolTable, a).ext = n
  BY <1>1, NotedUse
<1>3. l.params \in Seq(Operand)
  BY <1>1 DEF Line
<1>4. n \in Names /\ n # NULL /\ LabelOf(l.params[1]) = n
  BY <1>2, <1>3, LabelTextGood
<1>5. Target(l) = n
  BY <1>2, <1>4 DEF Target, LabelJumps
<1> HIDE DEF l, n
<1>6. TableOK(symbolTable)
  BY DEF FirstPassResult
<1>7. /\ k \in DOMAIN symbolTable /\ symbolTable[k].label = n
      /\ OneMeaning(symbolTable[k])
  BY <1>2, <1>6, FirstSymbol
<1>8. DefinedAt(n) = {}
  <2>1. symbolTable[k].attributes \cap {"DATA", "CODE"} = {}
    BY <1>2, <1>7 DEF OneMeaning
  <2> HIDE DEF k
  <2> QED BY <1>4, <2>1, DefinitionsAreFound DEF k
<1>9. Mentions(".extern", n)
  <2>1. Marked(symbolTable, n, "EXTERNAL")
    BY <1>2, <1>7 DEF Marked
  <2> QED BY <1>4, <2>1, MentionsAreMarks
<1> QED BY <1>2, <1>4, <1>5, <1>8, <1>9 DEF ExternalUse, l

(* A use in an accepted line is noted.                                     *)
LEMMA UseMeansNoted ==
    ASSUME FirstPassResult, ~hasErrors, OneWay, NEW i \in DOMAIN src, NEW a,
           parseInstruction(src[i], symbolTable, a).ec = GOOD, ExternalUse(i)
    PROVE  parseInstruction(src[i], symbolTable, a).ext = Target(src[i])
<1> DEFINE l == src[i]
           p == l.params
           n == Target(l)
           k == findSymbolInTable(symbolTable, n)
           r == parseInstruction(l, symbolTable, a)
<1>1. l \in Line
  BY SourcesAssumption DEF FirstPassResult
<1>2. Accepted(l, symbolTable, a, r)
  BY <1>1, AcceptedInstruction
<1>3. p \in Seq(Operand)
  BY <1>1 DEF Line
<1>4. n # NULL /\ DefinedAt(n) = {} /\ Mentions(".extern", n)
  BY DEF ExternalUse
<1> HIDE DEF l, p, r
<1>5. ASSUME NEW w \in {1, 3}, LabelAt(p, w), n = LabelOf(p[w]), k # 0
      PROVE  n \in Names /\ n = p[w].val /\ "EXTERNAL" \in symbolTable[k].attributes
  <2>1. n \in Names /\ n = p[w].val
    BY <1>3, <1>5, LabelTextGood
  <2>2. /\ k \in DOMAIN symbolTable /\ symbolTable[k].label = n
        /\ symbolTable[k] \in Symbol /\ OneMeaning(symbolTable[k])
    BY <1>5, FirstSymbol DEF FirstPassResult
  <2>3. /\ ~Marked(symbolTable, n, "DATA") /\ ~Marked(symbolTable, n, "CODE")
        /\ ~Marked(symbolTable, n, "ENTRY")
    BY <1>4, <2>1, DefinitionsAreFound, MentionsAreMarks DEF OneWay
  <2> HIDE DEF k, n
  <2>4. "EXTERNAL" \in symbolTable[k].attributes
    BY <2>2, <2>3 DEF Marked, OneMeaning, Symbol, Flags
  <2> QED BY <2>1, <2>4
<1>6. CASE l.head \in LabelBranches
  <2>1. n = LabelOf(p[3])
    BY <1>6 DEF Target, LabelBranches, p
  <2>2. /\ LabelAt(p, 3) /\ findSymbolInTable(symbolTable, p[3].val) # 0
        /\ "EXTERNAL" \notin symbolTable[findSymbolInTable(symbolTable, p[3].val)].attributes
    BY <1>2, <1>6 DEF Accepted, p
  <2>3. n = p[3].val
    BY <1>3, <2>1, <2>2, LabelTextGood
  <2> HIDE DEF n
  <2> QED BY <1>5, <2>1, <2>2, <2>3
<1>7. CASE l.head \in LabelJumps \cup {"jmp"}
  <2>1. n = LabelOf(p[1])
    BY <1>7 DEF Target, LabelJumps, p
  <2>2. ~RegisterAt(p, 1)
    BY <1>4, <2>1 DEF RegisterAt, LabelOf
  <2>3. /\ LabelAt(p, 1) /\ findSymbolInTable(symbolTable, p[1].val) # 0
        /\ r.ext = IF "EXTERNAL" \in symbolTable[findSymbolInTable(symbolTable, p[1].val)].attributes
                   THEN p[1].val ELSE NULL
    BY <1>2, <1>7, <2>2 DEF Accepted, p, LabelJumps
  <2>4. n = p[1].val
    BY <1>3, <2>1, <2>3, LabelTextGood
  <2> HIDE DEF n
  <2> QED BY <1>5, <2>1, <2>3, <2>4 DEF n, l, r
<1>8. CASE l.head \notin LabelBranches \cup LabelJumps \cup {"jmp"}
  BY <1>4, <1>8 DEF Target, LabelBranches, LabelJumps
<1> QED BY <1>6, <1>7, <1>8

(* What a line of the second pass does to the list.                        *)
LEMMA LineKeepsList ==
    ASSUME FirstPassResult, ~hasErrors, NEW p \in DOMAIN src, CountsAsCode(src[p]),
           NEW table, ExternalRows(table, p),
           NEW new \in LET r == parseInstruction(src[p], symbolTable, CodeAddress(p))
                       IN  IF r.ext = NULL THEN {table}
                           ELSE addExternal(table, r.ext, CodeAddress(p))
    PROVE  /\ ExternalRows(new, p + 1)
           /\ UsesNoted(table, p)
                /\ parseInstruction(src[p], symbolTable, CodeAddress(p)).ec = GOOD
                => UsesNoted(new, p + 1)
<1> DEFINE r == parseInstruction(src[p], symbolTable, CodeAddress(p))
<1>1. /\ p \in Nat \ {0} /\ p \in CodeLines /\ CodeAddress(p) \in Nat
      /\ \A i \in CodeLines : i \in Nat \ {0} /\ CountsAsCode(src[i])
  <2>1. DOMAIN src \subseteq Nat \ {0}
    BY SourcesAssumption DEF FirstPassResult
  <2> QED BY <2>1, NextCodeAddress DEF CodeLines
<1>2. /\ table \in Seq(TableRow) /\ Len(table) \in Nat /\ DOMAIN table = 1..Len(table)
      /\ \A k \in DOMAIN table :
           \E i \in CodeLines : i < p /\ table[k] = UseRow(i) /\ ExternalUse(i)
      /\ \A j, k \in DOMAIN table : j < k => table[j].address < table[k].address
  BY DEF ExternalRows
<1>3. \A k \in DOMAIN table : table[k].address < CodeAddress(p)
  <2> SUFFICES ASSUME NEW k \in DOMAIN table PROVE table[k].address < CodeAddress(p)
    OBVIOUS
  <2>1. PICK i \in CodeLines : i < p /\ table[k] = UseRow(i)
    BY <1>2
  <2>2. CodeAddress(i) < CodeAddress(p)
    BY <1>1, <2>1, CodeAddressGrows
  <2> QED BY <2>1, <2>2 DEF UseRow
<1>4. \A i \in CodeLines : i < p + 1 => i < p \/ i = p
  BY <1>1
<1>5. \A i \in CodeLines : i < p => i < p + 1
  BY <1>1
<1>6. CASE new = table
  <2>1. ExternalRows(new, p + 1)
    BY <1>2, <1>5, <1>6 DEF ExternalRows
  <2>2. ASSUME UsesNoted(table, p), r.ec = GOOD, r.ext = NULL \/ "malloc" \in Faults
        PROVE  UsesNoted(new, p + 1)
    <3>1. "malloc" \notin Faults /\ OneWay => ~ExternalUse(p)
      <4> SUFFICES ASSUME "malloc" \notin Faults, OneWay, ExternalUse(p) PROVE FALSE
        OBVIOUS
      <4>1. r.ext = Target(src[p])
        BY <2>2, UseMeansNoted
      <4> HIDE DEF r
      <4> QED BY <2>2, <4>1 DEF ExternalUse
    <3> HIDE DEF r
    <3> QED BY <1>4, <1>6, <2>2, <3>1 DEF UsesNoted
  <2>3. r.ext = NULL \/ "malloc" \in Faults \/ new = Append(table, [label |-> r.ext, address |-> CodeAddress(p)])
    BY DEF addExternal
  <2>4. r.ext # NULL =>
          new # Append(table, [label |-> r.ext, address |-> CodeAddress(p)])
    <3> SUFFICES ASSUME r.ext # NULL
                 PROVE  new # Append(table, [label |-> r.ext, address |-> CodeAddress(p)])
      OBVIOUS
    <3> DEFINE row == [label |-> r.ext, address |-> CodeAddress(p)]
    <3>1. row \in TableRow
      BY <1>1, NotedMeansUse DEF TableRow
    <3> HIDE DEF row
    <3>2. Len(Append(table, row)) = Len(table) + 1
      BY <1>2, <3>1
    <3>3. Len(table) + 1 # Len(table)
      <4>1. Len(table) \in Nat
        BY <1>2, Zenon
      <4> QED BY <4>1
    <3>4. new # Append(table, row)
      BY <1>6, <3>2, <3>3, Zenon
    <3> QED BY <3>4 DEF row
  <2> HIDE DEF r
  <2> QED BY <2>1, <2>2, <2>3, <2>4 DEF r
<1>7. CASE new # table
  <2>1. r.ext # NULL /\ new = Append(table, [label |-> r.ext, address |-> CodeAddress(p)])
    BY <1>7 DEF addExternal
  <2>2. r.ext = Target(src[p]) /\ Target(src[p]) \in Names /\ ExternalUse(p)
    BY <2>1, NotedMeansUse
  <2>3. new = Append(table, UseRow(p)) /\ UseRow(p) \in TableRow
    BY <1>1, <2>1, <2>2 DEF UseRow, TableRow
  <2>4. /\ new \in Seq(TableRow) /\ DOMAIN new = 1..Len(table) + 1
        /\ \A k \in DOMAIN table : new[k] = table[k]
        /\ new[Len(table) + 1] = UseRow(p)
        /\ \A k \in DOMAIN new : k \in DOMAIN table \/ k = Len(table) + 1
        /\ \A k \in DOMAIN table : k \in DOMAIN new
        /\ Len(table) + 1 \in DOMAIN new
    <3> DEFINE row == UseRow(p)
    <3> HIDE DEF row
    <3>1. table \in Seq(TableRow) /\ row \in TableRow /\ new = Append(table, row)
      BY <1>2, <2>3 DEF row
    <3>2. /\ new \in Seq(TableRow) /\ DOMAIN new = 1..Len(table) + 1
          /\ \A k \in 1..Len(table) : new[k] = table[k]
          /\ new[Len(table) + 1] = row
      BY <3>1
    <3> QED BY <1>2, <3>2 DEF row
  <2>5. UseRow(p).address = CodeAddress(p)
    BY DEF UseRow
  <2>6. p < p + 1
    BY <1>1
  <2>7. ExternalRows(new, p + 1)
    <3>1. \A k \in DOMAIN new :
            \E i \in CodeLines : i < p + 1 /\ new[k] = UseRow(i) /\ ExternalUse(i)
      BY <1>1, <1>2, <1>5, <2>2, <2>4, <2>6
    <3>2. ASSUME NEW j \in DOMAIN new, NEW k \in DOMAIN new, j < k
          PROVE  new[j].address < new[k].address
      <4>1. j \in DOMAIN table
        BY <1>2, <2>4, <3>2
      <4>2. CASE k \in DOMAIN table
        BY <1>2, <2>4, <3>2, <4>1, <4>2
      <4>3. CASE k = Len(table) + 1
        BY <1>3, <2>4, <2>5, <4>1, <4>3
      <4> QED BY <2>4, <4>2, <4>3
    <3> QED BY <2>4, <3>1, <3>2 DEF ExternalRows
  <2>8. UsesNoted(table, p) => UsesNoted(new, p + 1)
    BY <1>4, <2>4 DEF UsesNoted
  <2> QED BY <2>7, <2>8
<1> QED BY <1>6, <1>7

(* The invariant: what the second pass has noted so far, and what is in    *)
(* the file of externals at the end.                                       *)
ExternalsInv ==
    /\ pc \in BeforeOutput \cup {"header"} => externalTable = <<>> /\ ec = GOOD
    /\ ~hasErrors /\ NoUnknownDirective =>
         /\ pc = "secondPass" =>
              ExternalRows(externalTable, pos) /\ (ec = GOOD => UsesNoted(externalTable, pos))
         /\ pc \in {"appendData", "entries", "externals"} =>
              /\ ExternalRows(externalTable, Len(src) + 1)
              /\ ~failed => UsesNoted(externalTable, Len(src) + 1)
         /\ pc = "done" /\ error = GOOD /\ ~failed =>
              /\ ExternalRows(disk["ext"].rows, Len(src) + 1)
              /\ UsesNoted(disk["ext"].rows, Len(src) + 1)

(* What is read off the program does not change.                           *)
LEMMA SameUses ==
    ASSUME src' = src
    PROVE  /\ \A t, p : ExternalRows(t, p)' <=> ExternalRows(t, p)
           /\ \A t, p : UsesNoted(t, p)' <=> UsesNoted(t, p)
           /\ NoUnknownDirective' <=> NoUnknownDirective
<1>1. CodeLines' = CodeLines
  BY DEF CodeLines
<1>2. OneWay' <=> OneWay
  BY DEF OneWay, Mentions
<1>3. \A i : UseRow(i)' = UseRow(i)
  BY SameProgram DEF UseRow
<1>4. \A i : ExternalUse(i)' <=> ExternalUse(i)
  BY DEF ExternalUse, DefinedAt, Mentions
<1>5. NoUnknownDirective' <=> NoUnknownDirective
  BY DEF NoUnknownDirective
<1>6. \A t, p : ExternalRows(t, p)' <=> ExternalRows(t, p)
  BY <1>1, <1>3, <1>4 DEF ExternalRows
<1>7. \A t, p : UsesNoted(t, p)' <=> UsesNoted(t, p)
  BY <1>1, <1>2, <1>3, <1>4 DEF UsesNoted
<1> QED BY <1>5, <1>6, <1>7

(* A line of the second pass.                                              *)
LEMMA LineKeepsExternals ==
    ASSUME ResultInv, AddressInv, ExternalsInv, SecondPassSkip \/ SecondPassLine
    PROVE  ExternalsInv'
<1>1. /\ pc = "secondPass" /\ pc' = "secondPass" /\ pos <= Len(src) /\ pos' = pos + 1
      /\ src' = src /\ hasErrors' = hasErrors
  BY DEF SecondPassSkip, SecondPassLine, Goto
<1> SUFFICES ASSUME ~hasErrors, NoUnknownDirective
             PROVE  /\ ExternalRows(externalTable', pos + 1)
                    /\ ec' = GOOD => UsesNoted(externalTable', pos + 1)
  BY <1>1, SameUses DEF ExternalsInv, BeforeOutput
<1>2. FirstPassResult
  BY <1>1 DEF ResultInv
<1>3. /\ pos \in Nat \ {0} /\ pos \in DOMAIN src /\ codeIc = CodeAddress(pos)
      /\ \A i \in CodeLines : i \in Nat
  <2>1. /\ DOMAIN src = 1..Len(src) /\ Len(src) \in Nat
    BY <1>2, SourcesAssumption DEF FirstPassResult
  <2> QED BY <1>1, <2>1 DEF AddressInv, CodeLines
<1>4. /\ ExternalRows(externalTable, pos)
      /\ ec = GOOD => UsesNoted(externalTable, pos)
  BY <1>1 DEF ExternalsInv
<1>5. CASE SecondPassSkip
  <2>1. pos \notin CodeLines
    BY <1>2, <1>3, <1>5, PassesSeeTheSameLines
       DEF FirstPassResult, SecondPassSkip, CodeLines, cur
  <2>2. externalTable' = externalTable /\ ec' = ec
    BY <1>5 DEF SecondPassSkip, outputVars
  <2>3. \A i \in CodeLines : i < pos + 1 <=> i < pos
    BY <1>3, <2>1
  <2> QED BY <1>4, <2>2, <2>3 DEF ExternalRows, UsesNoted
<1>6. CASE SecondPassLine
  <2> DEFINE r == parseInstruction(src[pos], symbolTable, CodeAddress(pos))
  <2>1. CountsAsCode(src[pos])
    BY <1>2, <1>3, <1>6, PassesSeeTheSameLines DEF FirstPassResult, SecondPassLine, cur
  <2>2. /\ ec' = Remember(ec, r.ec)
        /\ externalTable' \in IF r.ext = NULL THEN {externalTable}
                              ELSE addExternal(externalTable, r.ext, CodeAddress(pos))
    BY <1>3, <1>6, Zenon DEF SecondPassLine, cur
  <2>3. /\ ExternalRows(externalTable', pos + 1)
        /\ UsesNoted(externalTable, pos) /\ r.ec = GOOD
             => UsesNoted(externalTable', pos + 1)
    BY <1>2, <1>3, <1>4, <2>1, <2>2, LineKeepsList
  <2> HIDE DEF r
  <2>4. ec' = GOOD => ec = GOOD /\ r.ec = GOOD
    BY <2>2 DEF Remember, GOOD
  <2> QED BY <1>4, <2>3, <2>4
<1> QED BY <1>5, <1>6

(* Every other statement behind the first pass.                            *)
LEMMA OtherStepsKeepExternals ==
    ASSUME ResultInv, AddressInv, FilesInv, ExternalsInv,
           LaterStep, ~SecondPassSkip, ~SecondPassLine
    PROVE  ExternalsInv'
<1>1. src' = src /\ hasErrors' = hasErrors /\ error' = error
  BY LaterStepLeaves DEF resultVars
<1>2. CASE FirstPassFailed \/ OpenObject
  BY <1>1, <1>2, SameUses
     DEF FirstPassFailed, OpenObject, Goto, outputVars, ExternalsInv, BeforeOutput
<1>3. CASE writeObjFileHeader
  <2>1. /\ pc = "header" /\ pc' = "secondPass" /\ pos' = 1
        /\ externalTable' = externalTable /\ ec' = ec
    BY <1>3 DEF writeObjFileHeader, Goto
  <2>2. externalTable' = <<>>
    BY <2>1 DEF ExternalsInv
  <2>3. src \in Sources
    BY DEF AddressInv
  <2>4. \A i \in CodeLines : ~(i < 1)
    BY <2>3, SourcesAssumption DEF CodeLines
  <2>5. ExternalRows(<<>>, 1) /\ UsesNoted(<<>>, 1)
    BY <2>4 DEF ExternalRows, UsesNoted
  <2> QED BY <1>1, <2>1, <2>2, <2>5, SameUses DEF ExternalsInv, BeforeOutput
<1>4. CASE SecondPassEnd
  <2>1. /\ pc = "secondPass" /\ pc' = "appendData" /\ pos > Len(src)
        /\ externalTable' = externalTable /\ failed' = (failed \/ ec # GOOD)
    BY <1>4 DEF SecondPassEnd, Goto
  <2>2. pos = Len(src) + 1
    <3>1. Len(src) \in Nat /\ pos \in 1..Len(src) + 1
      BY <2>1, SourcesAssumption DEF AddressInv
    <3> QED BY <2>1, <3>1
  <2> QED BY <1>1, <2>1, <2>2, SameUses DEF ExternalsInv, BeforeOutput
<1>5. CASE appendDataImageToFile
  <2>1. /\ pc = "appendData" /\ pc' \in {"entries", "cleanup"}
        /\ externalTable' = externalTable /\ (~failed' => ~failed)
    BY <1>5 DEF appendDataImageToFile, Goto
  <2> QED BY <1>1, <2>1, SameUses DEF ExternalsInv, BeforeOutput
<1>6. CASE generateEntriesFile
  <2>1. /\ pc = "entries" /\ pc' = "externals"
        /\ externalTable' = externalTable /\ (~failed' => ~failed)
    BY <1>6 DEF generateEntriesFile, GenerateFile, Goto
  <2> QED BY <1>1, <2>1, SameUses DEF ExternalsInv, BeforeOutput
<1>7. CASE generateExternalsFile
  <2>1. /\ pc = "externals" /\ pc' = (IF failed' THEN "cleanup" ELSE "done")
        /\ GenerateFile("ext", externalTable)
    BY <1>7 DEF generateExternalsFile, Goto
  <2>2. ~failed' => ~failed /\ disk'["ext"].rows = externalTable
    <3> SUFFICES ASSUME ~failed' PROVE ~failed /\ disk'["ext"].rows = externalTable
      OBVIOUS
    <3> DEFINE f == IF externalTable = <<>> THEN Absent ELSE New(<<>>, externalTable)
    <3>1. Write("ext", f) /\ failed' = failed
      BY <2>1 DEF GenerateFile
    <3>2. IsFile(f) /\ f.rows = externalTable
      BY DEF IsFile, New, Absent, File
    <3>3. IsDisk(disk)
      BY DEF FilesInv, OutputInv
    <3> HIDE DEF f
    <3>4. disk'["ext"] = f
      BY <3>1, <3>2, <3>3, WriteOne DEF Extensions
    <3> QED BY <3>1, <3>2, <3>4
  <2> QED BY <1>1, <2>1, <2>2, SameUses DEF ExternalsInv, BeforeOutput
<1>8. CASE removeOutputFiles
  <2>1. pc = "cleanup" /\ pc' = "done" /\ failed' = failed
    BY <1>8 DEF removeOutputFiles, Goto
  <2>2. failed
    BY <2>1 DEF FilesInv, OutputInv
  <2> QED BY <1>1, <2>1, <2>2, SameUses DEF ExternalsInv, BeforeOutput
<1> QED BY <1>2, <1>3, <1>4, <1>5, <1>6, <1>7, <1>8 DEF LaterStep

(* Each step keeps what is said of the list and of its file.               *)
LEMMA StepKeepsExternals ==
    ASSUME ResultInv, AddressInv, FilesInv, ExternalsInv, Step \/ UNCHANGED vars
    PROVE  ExternalsInv'
<1>1. CASE UNCHANGED vars
  <2>1. UNCHANGED <<src, pos, hasErrors, error, pc, ec, externalTable, disk, failed>>
    BY <1>1 DEF vars, firstPassVars, outputVars
  <2> QED BY <2>1, SameUses DEF ExternalsInv
<1>2. CASE FirstPassStep
  <2>1. pc = "firstPass" /\ pc' \in BeforeOutput /\ externalTable' = externalTable /\ ec' = ec
    BY <1>2, FirstPassStepStays DEF FirstPassStep, outputVars
  <2> QED BY <2>1 DEF ExternalsInv, BeforeOutput
<1>3. CASE LaterStep
  BY <1>3, LineKeepsExternals, OtherStepsKeepExternals
<1> QED BY <1>1, <1>2, <1>3, StepCases

(* The invariants of the output, together.                                 *)
BaseInv == ResultInv /\ AddressInv /\ FilesInv

(* They hold when assembleFile starts ...                                  *)
LEMMA BegunIsBase == ASSUME Begun PROVE BaseInv
BY BegunHasResult, BegunIsAddressed, BegunHasFiles DEF BaseInv

(* ... and each step keeps them.                                           *)
LEMMA StepKeepsBase == ASSUME BaseInv, Step \/ UNCHANGED vars PROVE BaseInv'
BY StepKeepsResult, StutterKeepsResult, StepKeepsAddresses, StepKeepsFiles DEF BaseInv

(* What is in a file of externals that is kept.                            *)
LEMMA ProducedExternals ==
    ASSUME BaseInv, ExternalsInv, Produced
    PROVE  /\ src \in Sources
           /\ ExternalRows(disk["ext"].rows, Len(src) + 1)
           /\ UsesNoted(disk["ext"].rows, Len(src) + 1)
<1>1. pc = "done" /\ error = GOOD /\ ~failed /\ ~hasErrors /\ NoUnknownDirective
  BY ProducedMeansGood DEF BaseInv
<1> QED BY <1>1 DEF ExternalsInv, BaseInv, AddressInv

(* The externals of a program whose output is kept: each row is true.      *)
LEMMA ExternalsAreTrue ==
    ASSUME BaseInv, ExternalsInv
    PROVE  ExternalsSound
<1> SUFFICES ASSUME BaseInv, ExternalsInv, Produced PROVE ExternalsSound
  BY DEF ExternalsSound
<1>1. ExternalRows(disk["ext"].rows, Len(src) + 1)
  BY ProducedExternals
<1> DEFINE rows == disk["ext"].rows
<1> HIDE DEF rows
<1>2. \A r \in Range(rows) :
        \E i \in CodeLines :
          /\ r = [label |-> Target(src[i]), address |-> CodeAddress(i)]
          /\ DefinedAt(r.label) = {} /\ Mentions(".extern", r.label)
  <2> SUFFICES ASSUME NEW k \in DOMAIN rows
               PROVE  \E i \in CodeLines :
                        /\ rows[k] = [label |-> Target(src[i]), address |-> CodeAddress(i)]
                        /\ DefinedAt(rows[k].label) = {}
                        /\ Mentions(".extern", rows[k].label)
    BY DEF Range
  <2>1. PICK i \in CodeLines : rows[k] = UseRow(i) /\ ExternalUse(i)
    BY <1>1 DEF ExternalRows, rows
  <2>2. rows[k].label = Target(src[i])
    BY <2>1 DEF UseRow
  <2> QED BY <2>1, <2>2 DEF UseRow, ExternalUse
<1>3. \A j, k \in DOMAIN rows : j < k => rows[j].address < rows[k].address
  BY <1>1 DEF ExternalRows, rows
<1> QED BY <1>2, <1>3 DEF ExternalsSound, rows

(* And none is missing.                                                    *)
LEMMA ExternalsAreListed ==
    ASSUME "malloc" \notin Faults, BaseInv, ExternalsInv
    PROVE  ExternalsComplete
<1> SUFFICES ASSUME BaseInv, ExternalsInv, Produced, OneWay PROVE ExternalsComplete
  BY DEF ExternalsComplete, OneWay
<1> DEFINE rows == disk["ext"].rows
           uses == {i \in CodeLines : ExternalUse(i)}
<1>1. /\ src \in Sources /\ ExternalRows(rows, Len(src) + 1)
      /\ UsesNoted(rows, Len(src) + 1)
  BY ProducedExternals
<1> HIDE DEF rows
<1>2. /\ rows \in Seq(TableRow)
      /\ \A k \in DOMAIN rows : \E i \in uses : rows[k] = UseRow(i)
      /\ \A j, k \in DOMAIN rows : j < k => rows[j].address < rows[k].address
  BY <1>1 DEF ExternalRows
<1>3. /\ Len(src) \in Nat /\ CodeLines \subseteq 1..Len(src)
      /\ \A i \in CodeLines : i \in Nat \ {0} /\ i < Len(src) + 1 /\ CountsAsCode(src[i])
  BY <1>1, SourcesAssumption DEF CodeLines
<1>4. \A i \in uses : \E k \in DOMAIN rows : rows[k] = UseRow(i)
  BY <1>1, <1>3 DEF UsesNoted
<1>5. Range(rows) = {UseRow(i) : i \in uses}
  BY <1>2, <1>4 DEF Range
<1>6. \A i, j \in uses : UseRow(i) = UseRow(j) => i = j
  <2> SUFFICES ASSUME NEW i \in uses, NEW j \in uses, i < j PROVE UseRow(i) # UseRow(j)
    BY <1>3
  <2>1. CodeAddress(i) < CodeAddress(j) /\ CodeAddress(i) \in Nat /\ CodeAddress(j) \in Nat
    BY <1>3, CodeAddressGrows, NextCodeAddress
  <2> QED BY <2>1 DEF UseRow
<1>7. Len(rows) = Cardinality(uses)
  <2> DEFINE f == [i \in uses |-> CHOOSE k \in DOMAIN rows : rows[k] = UseRow(i)]
  <2>1. \A i \in uses : f[i] \in DOMAIN rows /\ rows[f[i]] = UseRow(i)
    BY <1>4
  <2>2. IsFiniteSet(uses)
    <3>1. IsFiniteSet(1..Len(src))
      BY <1>3, FS_Interval
    <3>2. uses \subseteq 1..Len(src)
      BY <1>3
    <3> QED BY <3>1, <3>2, FS_Subset
  <2>3. DOMAIN rows = 1..Len(rows) /\ Len(rows) \in Nat
    BY <1>2
  <2>4. \A j, k \in DOMAIN rows : rows[j] = rows[k] => j = k
    <3> SUFFICES ASSUME NEW j \in DOMAIN rows, NEW k \in DOMAIN rows, j < k
                 PROVE  rows[j] # rows[k]
      BY <2>3
    <3>1. rows[j].address < rows[k].address
      BY <1>2
    <3>2. rows[j] \in TableRow
      BY <1>2
    <3>3. rows[j].address \in Int
      BY <3>2 DEF TableRow
    <3> QED BY <3>1, <3>3
  <2> HIDE DEF uses
  <2>5. f \in [uses -> DOMAIN rows]
    BY <2>1
  <2>6. f \in Injection(uses, DOMAIN rows)
    <3>1. \A i, j \in uses : f[i] = f[j] => i = j
      BY <1>6, <2>1
    <3> HIDE DEF f
    <3> QED BY <2>5, <3>1 DEF Injection, IsInjective
  <2>7. f \in Surjection(uses, DOMAIN rows)
    <3>1. \A k \in DOMAIN rows : \E i \in uses : f[i] = k
      <4> SUFFICES ASSUME NEW k \in DOMAIN rows PROVE \E i \in uses : f[i] = k
        OBVIOUS
      <4>1. PICK i \in uses : rows[k] = UseRow(i)
        BY <1>2
      <4>2. f[i] = k
        BY <2>1, <2>4, <4>1
      <4> QED BY <4>2
    <3> HIDE DEF f
    <3> QED BY <2>5, <3>1 DEF Surjection
  <2>8. Cardinality(DOMAIN rows) = Cardinality(uses)
    <3> HIDE DEF f
    <3> QED BY <2>2, <2>6, <2>7, FS_Surjection
  <2>9. Cardinality(1..Len(rows)) = Len(rows)
    BY <2>3, FS_Interval
  <2> QED BY <2>3, <2>8, <2>9
<1>8. uses = {i \in CodeLines :
                Target(src[i]) # NULL /\ DefinedAt(Target(src[i])) = {}
                  /\ Mentions(".extern", Target(src[i]))}
  BY DEF ExternalUse
<1>9. {UseRow(i) : i \in uses}
        = {[label |-> Target(src[i]), address |-> CodeAddress(i)] : i \in uses}
  BY DEF UseRow
<1> HIDE DEF uses
<1> QED BY <1>5, <1>7, <1>8, <1>9 DEF ExternalsComplete, rows

-------------------------------------------------------------------------------
(* The object file.                                                        *)

(* The row of an instruction line: it was accepted at its own address.     *)
LineRow(i, row) ==
    LET r == parseInstruction(src[i], symbolTable, CodeAddress(i))
    IN  r.ec = GOOD /\ row = [address |-> CodeAddress(i), bytes |-> printInstruction(r.word)]

(* The rows are those of the instruction lines before line p, gapless.     *)
CodeRows(rows, p) ==
    /\ rows \in Seq(ObjectRow)
    /\ FIRST_MEMORY_ADDRESS + BYTES_IN_CODE_LINE * Len(rows) = CodeAddress(p)
    /\ \A k \in DOMAIN rows :
         /\ rows[k].address = FIRST_MEMORY_ADDRESS + BYTES_IN_CODE_LINE * (k - 1)
         /\ Len(rows[k].bytes) = 4
    /\ \A i \in CodeLines : i < p => \E k \in DOMAIN rows : LineRow(i, rows[k])

Header == <<ic - FIRST_MEMORY_ADDRESS, dc>>

(* The invariant: what is in the object file at which statement.           *)
ObjectInv ==
    "fprintf" \notin Faults /\ ~hasErrors /\ NoUnknownDirective =>
      /\ pc = "secondPass" => disk["ob"].header = Header
      /\ pc = "secondPass" /\ ec = GOOD => CodeRows(disk["ob"].rows, pos)
      /\ pc = "appendData" /\ ~failed =>
           disk["ob"].header = Header /\ CodeRows(disk["ob"].rows, Len(src) + 1)
      /\ (pc \in {"entries", "externals"} \/ (pc = "done" /\ error = GOOD)) /\ ~failed =>
           /\ disk["ob"].header = Header
           /\ \E code : /\ CodeRows(code, Len(src) + 1)
                        /\ disk["ob"].rows = code \o DataRows(dataImage)

(* What is said of the object file depends on what the first pass left.    *)
LEMMA SameCode ==
    ASSUME UNCHANGED resultVars
    PROVE  /\ \A t, p : CodeRows(t, p)' <=> CodeRows(t, p)
           /\ Header' = Header /\ DataRows(dataImage)' = DataRows(dataImage)
           /\ NoUnknownDirective' <=> NoUnknownDirective
<1>1. UNCHANGED <<src, symbolTable, ic, dc, dataImage, hasErrors>>
  BY DEF resultVars
<1>2. \A i, row : LineRow(i, row)' <=> LineRow(i, row)
  BY <1>1, SameProgram DEF LineRow
<1>3. CodeLines' = CodeLines
  BY <1>1 DEF CodeLines
<1>4. \A t, p : CodeRows(t, p)' <=> CodeRows(t, p)
  BY <1>1, <1>2, <1>3, SameProgram DEF CodeRows
<1> QED BY <1>1, <1>4 DEF Header, DataRows, NoUnknownDirective

(* The code is behind the address it starts at.                            *)
LEMMA CodeIsBehindStart ==
    ASSUME NEW i \in Nat \ {0}
    PROVE  /\ CodeAddress(i) - FIRST_MEMORY_ADDRESS \in Nat
           /\ CodeAddress(i) \in Nat /\ CodeAddress(i) % 4 = 0
<1> DEFINE C == {j \in 1..i - 1 : CountsAsCode(src[j])}
<1>1. IsFiniteSet(1..i - 1) /\ C \subseteq 1..i - 1
  BY FS_Interval
<1>2. IsFiniteSet(C)
  BY <1>1, FS_Subset
<1>3. Cardinality(C) \in Nat
  BY <1>2, FS_CardinalityType
<1>4. CodeAddress(i) = FIRST_MEMORY_ADDRESS + BYTES_IN_CODE_LINE * Cardinality(C)
  BY DEF CodeAddress
<1> HIDE DEF C
<1> QED BY <1>3, <1>4 DEF FIRST_MEMORY_ADDRESS, BYTES_IN_CODE_LINE

(* One more line, one more row.                                            *)
LEMMA LineAddsRow ==
    ASSUME src \in Sources, NEW p \in DOMAIN src, CountsAsCode(src[p]),
           NEW rows, CodeRows(rows, p), NEW row, LineRow(p, row)
    PROVE  CodeRows(Append(rows, row), p + 1)
<1> DEFINE r == parseInstruction(src[p], symbolTable, CodeAddress(p))
           new == Append(rows, row)
<1>1. p \in Nat \ {0} /\ \A i \in CodeLines : i \in Nat
  BY SourcesAssumption DEF CodeLines
<1>2. /\ CodeAddress(p) \in Nat /\ CodeAddress(p + 1) = CodeAddress(p) + BYTES_IN_CODE_LINE
  BY <1>1, NextCodeAddress
<1>3. /\ rows \in Seq(ObjectRow)
      /\ FIRST_MEMORY_ADDRESS + BYTES_IN_CODE_LINE * Len(rows) = CodeAddress(p)
      /\ \A k \in DOMAIN rows :
           /\ rows[k].address = FIRST_MEMORY_ADDRESS + BYTES_IN_CODE_LINE * (k - 1)
           /\ Len(rows[k].bytes) = 4
      /\ \A i \in CodeLines : i < p => \E k \in DOMAIN rows : LineRow(i, rows[k])
  BY DEF CodeRows
<1>4. row \in ObjectRow /\ row.address = CodeAddress(p) /\ Len(row.bytes) = 4
  <2> DEFINE b == printInstruction(r.word)
  <2>1. row = [address |-> CodeAddress(p), bytes |-> b]
    BY DEF LineRow
  <2>2. b \in Seq(0..255) /\ Len(b) = 4
    BY PrintedBytes
  <2>3. CodeAddress(p) % 4 = 0
    BY <1>1, CodeIsBehindStart
  <2> HIDE DEF b
  <2> QED BY <1>2, <2>1, <2>2, <2>3 DEF ObjectRow, Byte, BYTES_PER_LINE
<1>5. /\ new \in Seq(ObjectRow) /\ Len(new) = Len(rows) + 1 /\ Len(rows) \in Nat
      /\ \A k \in DOMAIN rows : k \in DOMAIN new /\ new[k] = rows[k]
      /\ Len(rows) + 1 \in DOMAIN new /\ new[Len(rows) + 1] = row
      /\ \A k \in DOMAIN new : k \in DOMAIN rows \/ k = Len(rows) + 1
  <2>1. rows \in Seq(ObjectRow) /\ row \in ObjectRow
    BY <1>3, <1>4
  <2> QED BY <2>1
<1> HIDE DEF new
<1>6. FIRST_MEMORY_ADDRESS + BYTES_IN_CODE_LINE * Len(new) = CodeAddress(p + 1)
  BY <1>2, <1>3, <1>5 DEF FIRST_MEMORY_ADDRESS, BYTES_IN_CODE_LINE
<1>7. ASSUME NEW k \in DOMAIN new
      PROVE  /\ new[k].address = FIRST_MEMORY_ADDRESS + BYTES_IN_CODE_LINE * (k - 1)
             /\ Len(new[k].bytes) = 4
  <2>1. CASE k \in DOMAIN rows
    BY <1>3, <1>5, <2>1
  <2>2. CASE k = Len(rows) + 1
    BY <1>2, <1>3, <1>4, <1>5, <2>2 DEF FIRST_MEMORY_ADDRESS, BYTES_IN_CODE_LINE
  <2> QED BY <1>5, <2>1, <2>2
<1>8. ASSUME NEW i \in CodeLines, i < p + 1
      PROVE  \E k \in DOMAIN new : LineRow(i, new[k])
  <2>1. i < p \/ i = p
    BY <1>1, <1>8
  <2> QED BY <1>3, <1>5, <2>1
<1> QED BY <1>5, <1>6, <1>7, <1>8 DEF CodeRows, new

(* A line of the second pass adds its row, or spoils the file for good.     *)
LEMMA LineKeepsObject ==
    ASSUME BaseInv, ObjectInv, SecondPassSkip \/ SecondPassLine
    PROVE  ObjectInv'
<1>1. /\ pc = "secondPass" /\ pc' = "secondPass" /\ pos <= Len(src) /\ pos' = pos + 1
      /\ UNCHANGED resultVars /\ UNCHANGED <<src, symbolTable, hasErrors>>
  <2>1. LaterStep
    BY DEF LaterStep
  <2>2. UNCHANGED resultVars
    BY <2>1, LaterStepLeaves
  <2> QED BY <2>2 DEF SecondPassSkip, SecondPassLine, Goto, resultVars
<1> SUFFICES ASSUME "fprintf" \notin Faults, ~hasErrors, NoUnknownDirective
             PROVE  /\ disk'["ob"].header = Header
                    /\ ec' = GOOD => CodeRows(disk'["ob"].rows, pos + 1)
  BY <1>1, SameCode DEF ObjectInv
<1>2. FirstPassResult /\ src \in Sources
  BY <1>1 DEF BaseInv, ResultInv, FirstPassResult
<1>3. /\ pos \in Nat \ {0} /\ pos \in DOMAIN src /\ codeIc = CodeAddress(pos)
      /\ \A i \in CodeLines : i \in Nat
  <2>1. /\ DOMAIN src = 1..Len(src) /\ Len(src) \in Nat
    BY <1>2, SourcesAssumption
  <2> QED BY <1>1, <2>1 DEF BaseInv, AddressInv, CodeLines
<1>4. /\ disk["ob"].header = Header
      /\ ec = GOOD => CodeRows(disk["ob"].rows, pos)
  BY <1>1 DEF ObjectInv
<1>5. CASE SecondPassSkip
  <2>1. pos \notin CodeLines
    BY <1>2, <1>3, <1>5, PassesSeeTheSameLines DEF SecondPassSkip, CodeLines, cur
  <2>2. disk' = disk /\ ec' = ec
    BY <1>5 DEF SecondPassSkip, outputVars
  <2>3. \A i \in CodeLines : i < pos + 1 <=> i < pos
    BY <1>3, <2>1
  <2>4. CodeAddress(pos + 1) = CodeAddress(pos)
    <3>1. ~CountsAsCode(src[pos])
      BY <1>3, <2>1 DEF CodeLines
    <3>2. CodeAddress(pos) \in Nat
      BY <1>3, NextCodeAddress
    <3> QED BY <1>3, <3>1, <3>2, NextCodeAddress
  <2> QED BY <1>4, <2>2, <2>3, <2>4 DEF CodeRows
<1>6. CASE SecondPassLine
  <2> DEFINE r == parseInstruction(src[pos], symbolTable, CodeAddress(pos))
             row == [address |-> CodeAddress(pos), bytes |-> printInstruction(r.word)]
             f == disk["ob"]
  <2>1. CountsAsCode(src[pos])
    BY <1>2, <1>3, <1>6, PassesSeeTheSameLines DEF SecondPassLine, cur
  <2>2. /\ ec' = Remember(ec, r.ec)
        /\ IF ec' = GOOD THEN Write("ob", [f EXCEPT !.rows = Append(@, row)])
           ELSE UNCHANGED disk
    BY <1>3, <1>6, Zenon DEF SecondPassLine, cur, MayFail
  <2>3. ec' = GOOD => ec = GOOD /\ r.ec = GOOD
    <3> HIDE DEF r
    <3> QED BY <2>2 DEF Remember, GOOD
  <2>4. CASE ec' = GOOD
    <3>1. LineRow(pos, row)
      BY <2>3, <2>4 DEF LineRow
    <3> HIDE DEF row
    <3>2. CodeRows(Append(f.rows, row), pos + 1)
      BY <1>2, <1>3, <1>4, <2>1, <2>3, <2>4, <3>1, LineAddsRow
    <3>3. f = File(f.state, f.header, f.rows) /\ IsDisk(disk)
      BY DEF BaseInv, FilesInv, OutputInv, IsDisk, IsFile, Extensions
    <3>4. [f EXCEPT !.rows = Append(@, row)] = File(f.state, f.header, Append(f.rows, row))
      <4> DEFINE state == f.state
                 header == f.header
                 rows == f.rows
      <4>1. f = [state |-> state, header |-> header, rows |-> rows]
        BY <3>3 DEF File
      <4> HIDE DEF f, state, header, rows
      <4>2. [f EXCEPT !.rows = Append(@, row)]
              = [state |-> state, header |-> header, rows |-> Append(rows, row)]
        BY <4>1
      <4> QED BY <4>2 DEF File, f, state, header, rows
    <3> DEFINE g == File(f.state, f.header, Append(f.rows, row))
    <3>5. IsFile(g) /\ g.header = f.header /\ g.rows = Append(f.rows, row)
      BY DEF IsFile, File
    <3> HIDE DEF f, g
    <3>6. Write("ob", g)
      BY <2>2, <2>4, <3>4 DEF g, f
    <3>7. disk'["ob"] = g
      BY <3>3, <3>5, <3>6, WriteOne DEF Extensions
    <3> QED BY <1>4, <3>2, <3>5, <3>7 DEF f
  <2>5. CASE ec' # GOOD
    BY <1>4, <2>2, <2>5
  <2> QED BY <2>4, <2>5
<1> QED BY <1>5, <1>6

(* The header is written before the first row.                             *)
LEMMA HeaderKeepsObject ==
    ASSUME BaseInv, ExternalsInv, ObjectInv, writeObjFileHeader
    PROVE  ObjectInv'
<1>1. /\ pc = "header" /\ pc' = "secondPass" /\ pos' = 1 /\ ec' = ec
      /\ UNCHANGED resultVars /\ UNCHANGED <<src, symbolTable, hasErrors>>
  <2>1. LaterStep
    BY DEF LaterStep
  <2>2. UNCHANGED resultVars
    BY <2>1, LaterStepLeaves
  <2> QED BY <2>2 DEF writeObjFileHeader, Goto, resultVars
<1> SUFFICES ASSUME "fprintf" \notin Faults
             PROVE  disk'["ob"].header = Header /\ CodeRows(disk'["ob"].rows, 1)
  BY <1>1, SameCode DEF ObjectInv
<1> DEFINE f == New(Header, <<>>)
<1>2. Write("ob", f)
  BY DEF writeObjFileHeader, MayFail, Header
<1>3. IsFile(f) /\ f.header = Header /\ f.rows = <<>>
  BY DEF IsFile, New, File
<1>4. IsDisk(disk)
  BY DEF BaseInv, FilesInv, OutputInv
<1> HIDE DEF f
<1>5. disk'["ob"] = f
  BY <1>2, <1>3, <1>4, WriteOne DEF Extensions
<1>6. CodeRows(<<>>, 1)
  <2>1. \A i \in CodeLines : ~(i < 1)
    BY SourcesAssumption DEF CodeLines, BaseInv, AddressInv
  <2> QED BY <2>1, FirstCodeAddress
          DEF CodeRows, FIRST_MEMORY_ADDRESS, BYTES_IN_CODE_LINE
<1> QED BY <1>3, <1>5, <1>6

(* All of the data image is written behind the code.                       *)
LEMMA DataKeepsObject ==
    ASSUME BaseInv, ObjectInv, appendDataImageToFile
    PROVE  ObjectInv'
<1>1. /\ pc = "appendData" /\ pc' \in {"entries", "cleanup"}
      /\ UNCHANGED resultVars /\ UNCHANGED <<src, dataImage, hasErrors>>
  <2>1. LaterStep
    BY DEF LaterStep
  <2>2. UNCHANGED resultVars
    BY <2>1, LaterStepLeaves
  <2> QED BY <2>2 DEF appendDataImageToFile, Goto, resultVars
<1>2. Len(src)' = Len(src)
  BY <1>1
<1> SUFFICES ASSUME "fprintf" \notin Faults, ~hasErrors, NoUnknownDirective, ~failed'
             PROVE  /\ disk'["ob"].header = Header
                    /\ \E code : /\ CodeRows(code, Len(src) + 1)
                                 /\ disk'["ob"].rows = code \o DataRows(dataImage)
  BY <1>1, <1>2, SameCode DEF ObjectInv
<1> DEFINE f == disk["ob"]
           image == SubSeq(dataImage, 1, Len(dataImage))
           g == File(f.state, f.header, f.rows \o DataRows(image))
<1>3. Write("ob", [f EXCEPT !.rows = @ \o DataRows(image)]) /\ ~failed
  BY DEF appendDataImageToFile
<1>4. image = dataImage
  <2>1. dataImage \in Seq(Char)
    BY <1>1 DEF BaseInv, ResultInv, FirstPassResult
  <2> QED BY <2>1
<1>5. f = File(f.state, f.header, f.rows) /\ IsDisk(disk)
  BY DEF BaseInv, FilesInv, OutputInv, IsDisk, IsFile, Extensions
<1>6. [f EXCEPT !.rows = @ \o DataRows(image)] = g
  <2> DEFINE state == f.state
             header == f.header
             rows == f.rows
             data == DataRows(image)
  <2>1. f = [state |-> state, header |-> header, rows |-> rows]
    BY <1>5 DEF File
  <2> HIDE DEF f, state, header, rows, data
  <2>2. [f EXCEPT !.rows = @ \o data]
          = [state |-> state, header |-> header, rows |-> rows \o data]
    BY <2>1
  <2> QED BY <2>2 DEF File, f, state, header, rows, data
<1>7. IsFile(g) /\ g.header = f.header /\ g.rows = f.rows \o DataRows(dataImage)
  <2>1. IsFile(g) /\ g.header = f.header /\ g.rows = f.rows \o DataRows(image)
    BY DEF IsFile, File
  <2> HIDE DEF f, g, image
  <2> QED BY <1>4, <2>1
<1> HIDE DEF f, g, image
<1>8. disk'["ob"] = g
  BY <1>3, <1>5, <1>6, <1>7, WriteOne DEF Extensions
<1>9. f.header = Header /\ CodeRows(f.rows, Len(src) + 1)
  BY <1>1, <1>3 DEF ObjectInv, f
<1> QED BY <1>7, <1>8, <1>9

(* The other statements leave the object file alone, or remove it.         *)
LEMMA OtherStepsKeepObject ==
    ASSUME BaseInv, ObjectInv,
           \/ FirstPassFailed \/ OpenObject \/ SecondPassEnd
           \/ generateEntriesFile \/ generateExternalsFile \/ removeOutputFiles
    PROVE  ObjectInv'
<1>1. UNCHANGED resultVars /\ UNCHANGED <<src, dataImage, hasErrors>> /\ error' = error
  <2>1. LaterStep
    BY DEF LaterStep
  <2>2. UNCHANGED resultVars /\ error' = error
    BY <2>1, LaterStepLeaves
  <2> QED BY <2>2 DEF resultVars
<1>2. Len(src)' = Len(src)
  BY <1>1
<1>3. CASE FirstPassFailed
  BY <1>1, <1>3 DEF FirstPassFailed, Goto, ObjectInv
<1>4. CASE OpenObject
  BY <1>1, <1>4 DEF OpenObject, Goto, ObjectInv
<1>5. CASE SecondPassEnd
  <2>1. /\ pc = "secondPass" /\ pc' = "appendData" /\ pos > Len(src)
        /\ disk' = disk /\ failed' = (failed \/ ec # GOOD)
    BY <1>5 DEF SecondPassEnd, Goto
  <2>2. pos = Len(src) + 1
    <3>1. Len(src) \in Nat /\ pos \in 1..Len(src) + 1
      BY <2>1, SourcesAssumption DEF BaseInv, AddressInv
    <3> QED BY <2>1, <3>1
  <2> QED BY <1>1, <1>2, <2>1, <2>2, SameCode DEF ObjectInv
<1>6. CASE generateEntriesFile \/ generateExternalsFile
  <2>1. /\ pc \in {"entries", "externals"} /\ pc' \in {"externals", "cleanup", "done"}
        /\ \E e \in {"ent", "ext"} : \E rows : GenerateFile(e, rows)
    BY <1>6 DEF generateEntriesFile, generateExternalsFile, Goto
  <2>2. disk'["ob"] = disk["ob"] /\ (~failed' => ~failed)
    BY <2>1, GenerateFileLeaves DEF BaseInv, FilesInv, OutputInv, Extensions
  <2> QED BY <1>1, <1>2, <2>1, <2>2, SameCode DEF ObjectInv
<1>7. CASE removeOutputFiles
  <2>1. pc = "cleanup" /\ pc' = "done" /\ failed' = failed
    BY <1>7 DEF removeOutputFiles, Goto
  <2>2. failed
    BY <2>1 DEF BaseInv, FilesInv, OutputInv
  <2> QED BY <2>1, <2>2 DEF ObjectInv
<1> QED BY <1>3, <1>4, <1>5, <1>6, <1>7

(* Each step keeps it.                                                     *)
LEMMA StepKeepsObject ==
    ASSUME BaseInv, ExternalsInv, ObjectInv, Step \/ UNCHANGED vars
    PROVE  ObjectInv'
<1>1. CASE UNCHANGED vars
  <2>1. /\ UNCHANGED <<src, pos, dataImage, hasErrors, error, pc, ec, disk, failed>>
        /\ UNCHANGED resultVars
    BY <1>1 DEF vars, firstPassVars, outputVars, resultVars
  <2>2. Len(src)' = Len(src)
    BY <2>1
  <2> QED BY <2>1, <2>2, SameCode DEF ObjectInv
<1>2. CASE FirstPassStep
  BY <1>2, FirstPassStepStays DEF ObjectInv, BeforeOutput
<1>3. CASE LaterStep
  BY <1>3, HeaderKeepsObject, LineKeepsObject, DataKeepsObject, OtherStepsKeepObject
     DEF LaterStep
<1> QED BY <1>1, <1>2, <1>3, StepCases

(* What is in an object file that is kept.                                 *)
LEMMA ProducedObject ==
    ASSUME "fprintf" \notin Faults, BaseInv, ObjectInv, Produced
    PROVE  /\ FirstPassResult /\ ~hasErrors
           /\ disk["ob"].header = Header
           /\ \E code : /\ CodeRows(code, Len(src) + 1)
                        /\ disk["ob"].rows = code \o DataRows(dataImage)
<1>1. pc = "done" /\ error = GOOD /\ ~failed /\ ~hasErrors /\ NoUnknownDirective
  BY ProducedMeansGood DEF BaseInv
<1> QED BY <1>1 DEF ObjectInv, BaseInv, ResultInv

(* The smaller of two numbers.                                             *)
LEMMA MinOfTwo ==
    \A a, b \in Int : Min({a, b}) = IF a <= b THEN a ELSE b
<1> SUFFICES ASSUME NEW a \in Int, NEW b \in Int
             PROVE  Min({a, b}) = IF a <= b THEN a ELSE b
  OBVIOUS
<1> DEFINE m == IF a <= b THEN a ELSE b
<1>1. m \in {a, b} /\ \A y \in {a, b} : m <= y
  OBVIOUS
<1>2. \A x \in {a, b} : (\A y \in {a, b} : x <= y) => x = m
  OBVIOUS
<1> HIDE DEF m
<1>3. (CHOOSE x \in {a, b} : \A y \in {a, b} : x <= y) = m
  BY <1>1, <1>2
<1> QED BY <1>3 DEF Min, m

(* The rows hold the data image from ic on, four bytes in each but the last. *)
DataLayout(rows, image) ==
    LET n == Len(image)
        count == (n + 3) \div 4
    IN  /\ rows \in Seq(ObjectRow) /\ Len(rows) = count
        /\ \A r \in 1..count :
             /\ rows[r].address = ic + 4 * (r - 1)
             /\ Len(rows[r].bytes) = IF 4 <= n - 4 * (r - 1) THEN 4 ELSE n - 4 * (r - 1)
             /\ \A k \in 1..Len(rows[r].bytes) : rows[r].bytes[k] = image[4 * (r - 1) + k]

(* Where the data image is in the rows that are written for it.            *)
LEMMA DataRowsLayout ==
    ASSUME NEW image \in Seq(Char), ic \in Nat, ic % 4 = 0
    PROVE  DataLayout(DataRows(image), image)
<1> DEFINE n == Len(image)
           count == (n + 3) \div 4
           last(r) == Min({4 * (r - 1) + 4, n})
           part(r) == SubSeq(image, 4 * (r - 1) + 1, last(r))
<1>1. n \in Nat /\ count \in Nat
  OBVIOUS
<1>2. DataRows(image) = [r \in 1..count |-> [address |-> ic + 4 * (r - 1), bytes |-> part(r)]]
  <2>1. n + 4 - 1 = n + 3
    BY <1>1
  <2> QED BY <2>1 DEF DataRows, BYTES_PER_LINE
<1> HIDE DEF count
<1>3. ASSUME NEW r \in 1..count
      PROVE  /\ part(r) \in Seq(Byte)
             /\ Len(part(r)) = IF 4 <= n - 4 * (r - 1) THEN 4 ELSE n - 4 * (r - 1)
             /\ Len(part(r)) \in 1..4
             /\ \A k \in 1..Len(part(r)) : part(r)[k] = image[4 * (r - 1) + k]
             /\ ic + 4 * (r - 1) \in Nat /\ (ic + 4 * (r - 1)) % 4 = 0
  <2>1. r \in Nat \ {0} /\ 4 * (r - 1) \in Nat /\ 4 * (r - 1) < n
    BY <1>1 DEF count
  <2>2. last(r) = IF 4 * (r - 1) + 4 <= n THEN 4 * (r - 1) + 4 ELSE n
    BY <1>1, <2>1, MinOfTwo
  <2> DEFINE a == 4 * (r - 1)
             b == last(r)
  <2>3. a \in Nat /\ b \in Nat /\ a < b /\ b <= n
    BY <1>1, <2>1, <2>2
  <2>4. /\ b - a = IF 4 <= n - 4 * (r - 1) THEN 4 ELSE n - 4 * (r - 1)
        /\ b - a \in 1..4
    BY <1>1, <2>1, <2>2
  <2>5. ic + a \in Nat /\ (ic + a) % 4 = 0
    BY <2>1, <2>3
  <2> HIDE DEF a, b
  <2>6. /\ SubSeq(image, a + 1, b) \in Seq(Char) /\ Len(SubSeq(image, a + 1, b)) = b - a
        /\ \A k \in 1..b - a : SubSeq(image, a + 1, b)[k] = image[a + k]
    BY <1>1, <2>3
  <2> QED BY <2>4, <2>5, <2>6 DEF a, b, Byte, Char
<1> HIDE DEF last, part
<1>4. \A r \in 1..count : DataRows(image)[r] = [address |-> ic + 4 * (r - 1), bytes |-> part(r)]
  BY <1>2
<1>5. DataRows(image) \in Seq(ObjectRow) /\ Len(DataRows(image)) = count
  BY <1>1, <1>2, <1>3 DEF ObjectRow, BYTES_PER_LINE
<1> QED BY <1>3, <1>4, <1>5 DEF count, part, DataLayout

(* Whole words in front of n bytes: where byte k is, and how many rows.    *)
LEMMA PaddedCode ==
    \A m, k \in Nat :
      /\ (4 * m + k + 3) \div 4 = m + (k + 3) \div 4
      /\ k > 0 => /\ (4 * m + k - 1) \div 4 = m + (k - 1) \div 4
                  /\ (4 * m + k - 1) % 4 = (k - 1) % 4
                  /\ (k - 1) \div 4 \in Nat /\ (k - 1) % 4 \in 0..3
                  /\ k = 4 * ((k - 1) \div 4) + ((k - 1) % 4) + 1
  BY SMT

(* The header and the rows of the file, from the two parts it is made of.  *)
LEMMA PartsMakeLayout ==
    ASSUME FirstPassResult, ~hasErrors, disk["ob"].header = Header,
           NEW codeRows, CodeRows(codeRows, Len(src) + 1),
           disk["ob"].rows = codeRows \o DataRows(dataImage)
    PROVE  LET code == BYTES_IN_CODE_LINE * Cardinality(CodeLines)
               data == DataOffset(Len(src) + 1)
               rows == disk["ob"].rows
               at(a) == rows[(a \div 4) + 1].bytes[(a % 4) + 1]
           IN  /\ disk["ob"].header = <<code, data>>
               /\ Len(rows) = (code + data + 3) \div 4
               /\ \A k \in DOMAIN rows :
                    /\ rows[k].address = FIRST_MEMORY_ADDRESS + 4 * (k - 1)
                    /\ Len(rows[k].bytes) = Min({4, code + data - 4 * (k - 1)})
               /\ \A k \in 1..data : at(code + k - 1) = dataImage[k]
<1> DEFINE m == Cardinality(CodeLines)
           n == Len(dataImage)
           rows == disk["ob"].rows
           tail == DataRows(dataImage)
           count == (n + 3) \div 4
<1>1. /\ ic = CodeAddress(Len(src) + 1) /\ dc = n /\ DataOffset(Len(src) + 1) = n
      /\ dataImage \in Seq(Char) /\ n \in Nat
  BY DEF FirstPassResult
<1>2. /\ Len(src) \in Nat /\ m \in Nat
      /\ CodeAddress(Len(src) + 1) = FIRST_MEMORY_ADDRESS + BYTES_IN_CODE_LINE * m
  <2>1. Len(src) \in Nat /\ DOMAIN src = 1..Len(src)
    BY SourcesAssumption DEF FirstPassResult
  <2>2. CodeLines = {j \in 1..(Len(src) + 1) - 1 : CountsAsCode(src[j])}
    BY <2>1 DEF CodeLines
  <2>3. IsFiniteSet(CodeLines)
    <3>1. IsFiniteSet(1..Len(src)) /\ CodeLines \subseteq 1..Len(src)
      BY <2>1, FS_Interval DEF CodeLines
    <3> QED BY <3>1, FS_Subset
  <2> QED BY <2>1, <2>2, <2>3, FS_CardinalityType DEF CodeAddress
<1>3. ic = 100 + 4 * m /\ ic \in Nat /\ ic % 4 = 0
  BY <1>1, <1>2 DEF FIRST_MEMORY_ADDRESS, BYTES_IN_CODE_LINE
<1>4. /\ codeRows \in Seq(ObjectRow) /\ Len(codeRows) = m
      /\ \A k \in DOMAIN codeRows : /\ codeRows[k].address = 100 + 4 * (k - 1)
                                    /\ Len(codeRows[k].bytes) = 4
  <2>1. /\ codeRows \in Seq(ObjectRow)
        /\ FIRST_MEMORY_ADDRESS + BYTES_IN_CODE_LINE * Len(codeRows)
             = FIRST_MEMORY_ADDRESS + BYTES_IN_CODE_LINE * m
        /\ \A k \in DOMAIN codeRows :
             /\ codeRows[k].address = FIRST_MEMORY_ADDRESS + BYTES_IN_CODE_LINE * (k - 1)
             /\ Len(codeRows[k].bytes) = 4
    BY <1>2 DEF CodeRows
  <2>2. Len(codeRows) \in Nat
    BY <2>1
  <2> HIDE DEF m
  <2> QED BY <1>2, <2>1, <2>2 DEF FIRST_MEMORY_ADDRESS, BYTES_IN_CODE_LINE
<1>5. /\ tail \in Seq(ObjectRow) /\ Len(tail) = count /\ count \in Nat
      /\ \A r \in 1..count :
           /\ tail[r].address = ic + 4 * (r - 1)
           /\ Len(tail[r].bytes) = IF 4 <= n - 4 * (r - 1) THEN 4 ELSE n - 4 * (r - 1)
           /\ \A k \in 1..Len(tail[r].bytes) : tail[r].bytes[k] = dataImage[4 * (r - 1) + k]
  <2>1. DataLayout(tail, dataImage)
    BY <1>1, <1>3, DataRowsLayout
  <2>2. count \in Nat
    BY <1>1
  <2> HIDE DEF tail
  <2> QED BY <2>1, <2>2 DEF DataLayout
<1>6. disk["ob"].header = <<4 * m, n>>
  <2>1. ic - 100 = 4 * m
    BY <1>2, <1>3
  <2> QED BY <1>1, <2>1 DEF Header, FIRST_MEMORY_ADDRESS
<1> HIDE DEF m, tail
<1>7. /\ Len(rows) = m + count /\ DOMAIN rows = 1..m + count
      /\ \A k \in 1..m : rows[k] = codeRows[k] /\ k \in DOMAIN codeRows
      /\ \A k \in 1..count : rows[m + k] = tail[k]
  <2>1. rows = codeRows \o tail
    BY DEF tail
  <2>2. /\ codeRows \in Seq(ObjectRow) /\ Len(codeRows) = m /\ m \in Nat
        /\ tail \in Seq(ObjectRow) /\ Len(tail) = count /\ count \in Nat
    BY <1>2, <1>4, <1>5
  <2> HIDE DEF rows, count
  <2>3. Len(rows) = m + count /\ rows \in Seq(ObjectRow)
    BY <2>1, <2>2
  <2>4. \A k \in 1..m : rows[k] = codeRows[k] /\ k \in DOMAIN codeRows
    BY <2>1, <2>2
  <2>5. \A k \in 1..count : rows[m + k] = tail[k]
    BY <2>1, <2>2
  <2> QED BY <2>3, <2>4, <2>5
<1> HIDE DEF rows
<1>8. Len(rows) = (4 * m + n + 3) \div 4
  <2>1. count = (n + 3) \div 4 /\ Len(rows) = m + count
    BY <1>7
  <2> HIDE DEF n, count
  <2> QED BY <1>1, <1>2, <2>1, PaddedCode
<1>9. ASSUME NEW k \in DOMAIN rows
      PROVE  /\ rows[k].address = 100 + 4 * (k - 1)
             /\ Len(rows[k].bytes) = Min({4, 4 * m + n - 4 * (k - 1)})
  <2>1. k \in 1..m + count
    BY <1>7
  <2>2. k \in Nat \ {0} /\ 4 * m + n - 4 * (k - 1) \in Int
    BY <1>1, <1>2, <2>1
  <2>3. Min({4, 4 * m + n - 4 * (k - 1)})
          = IF 4 <= 4 * m + n - 4 * (k - 1) THEN 4 ELSE 4 * m + n - 4 * (k - 1)
    <3> DEFINE z == 4 * m + n - 4 * (k - 1)
    <3>1. z \in Int /\ 4 \in Int
      BY <2>2
    <3> HIDE DEF z
    <3>2. Min({4, z}) = IF 4 <= z THEN 4 ELSE z
      BY <3>1, MinOfTwo, Zenon
    <3> QED BY <3>2 DEF z
  <2>4. CASE k \in 1..m
    <3>1. 4 <= 4 * m + n - 4 * (k - 1)
      BY <1>1, <1>2, <2>4
    <3> QED BY <1>4, <1>7, <2>3, <2>4, <3>1
  <2>5. CASE k \notin 1..m
    <3> DEFINE r == k - m
    <3>1. r \in 1..count /\ k = m + r /\ r \in Int
      BY <1>2, <1>5, <2>1, <2>5
    <3> HIDE DEF r
    <3>2. rows[k] = tail[r]
      BY <1>7, <3>1
    <3>3. /\ tail[r].address = ic + 4 * (r - 1)
          /\ Len(tail[r].bytes) = IF 4 <= n - 4 * (r - 1) THEN 4 ELSE n - 4 * (r - 1)
      BY <1>5, <3>1
    <3>4. ic + 4 * (r - 1) = 100 + 4 * (k - 1)
      BY <1>2, <1>3, <3>1
    <3>5. n - 4 * (r - 1) = 4 * m + n - 4 * (k - 1)
      BY <1>1, <1>2, <3>1
    <3> QED BY <2>3, <3>2, <3>3, <3>4, <3>5
  <2> QED BY <2>4, <2>5
<1>10. ASSUME NEW k \in 1..n
       PROVE  rows[((4 * m + k - 1) \div 4) + 1].bytes[((4 * m + k - 1) % 4) + 1] = dataImage[k]
  <2> DEFINE q == (k - 1) \div 4
             c == (k - 1) % 4
  <2>1. /\ q \in Nat /\ c \in 0..3 /\ k = 4 * q + c + 1
        /\ (4 * m + k - 1) \div 4 = m + q /\ (4 * m + k - 1) % 4 = c
    <3>1. k \in Nat /\ k > 0 /\ m \in Nat
      BY <1>1, <1>2
    <3> QED BY <3>1, PaddedCode, Zenon
  <2> HIDE DEF q, c
  <2>2. q + 1 \in 1..count
    BY <1>1, <2>1
  <2>3. rows[m + q + 1] = tail[q + 1]
    <3>1. m + q + 1 = m + (q + 1)
      BY <1>2, <2>1
    <3> QED BY <1>7, <2>2, <3>1
  <2>4. c + 1 \in 1..Len(tail[q + 1].bytes)
    <3>1. Len(tail[q + 1].bytes) = IF 4 <= n - 4 * q THEN 4 ELSE n - 4 * q
      <4>1. (q + 1) - 1 = q
        BY <2>1
      <4> QED BY <1>5, <2>2, <4>1
    <3> QED BY <1>1, <2>1, <3>1
  <2>5. tail[q + 1].bytes[c + 1] = dataImage[4 * q + c + 1]
    <3>1. 4 * ((q + 1) - 1) + (c + 1) = 4 * q + c + 1
      BY <2>1
    <3>2. tail[q + 1].bytes[c + 1] = dataImage[4 * ((q + 1) - 1) + (c + 1)]
      BY <1>5, <2>2, <2>4
    <3> QED BY <3>1, <3>2
  <2> QED BY <2>1, <2>3, <2>5
<1> QED BY <1>1, <1>6, <1>8, <1>9, <1>10
        DEF m, rows, FIRST_MEMORY_ADDRESS, BYTES_IN_CODE_LINE

(* The layout of an object file that is kept.                              *)
LEMMA ObjectIsLaidOut ==
    ASSUME "fprintf" \notin Faults, BaseInv, ObjectInv
    PROVE  ObjectLayout
<1> SUFFICES ASSUME BaseInv, ObjectInv, Produced PROVE ObjectLayout
  BY DEF ObjectLayout
<1>1. PICK code : /\ CodeRows(code, Len(src) + 1)
                  /\ disk["ob"].rows = code \o DataRows(dataImage)
  BY ProducedObject
<1>2. FirstPassResult /\ ~hasErrors /\ disk["ob"].header = Header
  BY ProducedObject
<1> QED BY <1>1, <1>2, PartsMakeLayout DEF ObjectLayout

(* Two's complement in 16 bits, read back.                                 *)
LEMMA SignedOffset ==
    \A d \in Int :
      d >= -(2^15) /\ d < 2^15 => d = IF d % 2^16 < 2^15 THEN d % 2^16 ELSE (d % 2^16) - 2^16
BY SMT

(* The symbol behind a label that is used: it has the address the program  *)
(* gives the label, or is one of another file, at 0.                       *)
LEMMA UsedSymbol ==
    ASSUME FirstPassResult, ~hasErrors, NEW n \in Names,
           findSymbolInTable(symbolTable, n) # 0
    PROVE  LET s == symbolTable[findSymbolInTable(symbolTable, n)]
           IN  /\ s.address \in Int
               /\ DefinedAt(n) # {} => s.address = AddressInProgram(n) /\ s.address \in Nat
               /\ DefinedAt(n) = {} /\ ~Mentions(".entry", n) =>
                    "EXTERNAL" \in s.attributes /\ s.address = 0
<1> DEFINE k == findSymbolInTable(symbolTable, n)
           s == symbolTable[k]
<1>1. k \in DOMAIN symbolTable /\ s.label = n /\ s \in Symbol /\ OneMeaning(s)
  BY FirstSymbol DEF FirstPassResult
<1>2. DefinedAt(n) # {} => s.address = AddressInProgram(n) /\ s.address \in Nat
  BY DefinitionsAreFound
<1>3. ASSUME DefinedAt(n) = {}, ~Mentions(".entry", n)
      PROVE  "EXTERNAL" \in s.attributes /\ s.address = 0
  <2>1. /\ ~Marked(symbolTable, n, "DATA") /\ ~Marked(symbolTable, n, "CODE")
        /\ ~Marked(symbolTable, n, "ENTRY")
    BY <1>3, DefinitionsAreFound, MentionsAreMarks
  <2> HIDE DEF k
  <2>2. "EXTERNAL" \in s.attributes
    BY <1>1, <2>1 DEF Marked, OneMeaning, Symbol, Flags
  <2> QED BY <1>1, <2>2 DEF OneMeaning
<1>4. s.address \in Int
  <2> HIDE DEF s
  <2> QED BY <1>1 DEF Symbol
<1> QED BY <1>2, <1>3, <1>4

(* What the row of a line must show of its label, once the row has bytes b. *)
Refers(i, b) ==
    LET l == src[i]
        n == Target(l)
        here == n # NULL /\ DefinedAt(n) # {} /\ InReach(i, n)
        elsewhere == n # NULL /\ DefinedAt(n) = {} /\ ~Mentions(".entry", n)
    IN  /\ n = NULL \/ here \/ elsewhere => Opcode(b) = INSTRUCTIONS[l.head].opcode
        /\ here => AddressInProgram(n) = IF INSTRUCTIONS[l.head].type = "J" THEN Address25(b)
                                         ELSE CodeAddress(i) + Offset16(b)
        /\ elsewhere => Address25(b) = 0

(* A jump to a label.                                                      *)
LEMMA JumpRefers ==
    ASSUME FirstPassResult, ~hasErrors, NEW i \in DOMAIN src,
           src[i].head \in LabelJumps \cup {"jmp"}, src[i].head \in DOMAIN INSTRUCTIONS,
           LabelAt(src[i].params, 1),
           LET k == findSymbolInTable(symbolTable, src[i].params[1].val) IN k # 0
    PROVE  LET k == findSymbolInTable(symbolTable, src[i].params[1].val)
           IN  Refers(i, printInstruction(JWord(INSTRUCTIONS[src[i].head], 0,
                                                symbolTable[k].address)))
<1> DEFINE l == src[i]
           p == l.params
           n == p[1].val
           inst == INSTRUCTIONS[l.head]
           s == symbolTable[findSymbolInTable(symbolTable, n)]
           b == printInstruction(JWord(inst, 0, s.address))
<1>0. l \in Line
  BY SourcesAssumption DEF FirstPassResult
<1>1. p \in Seq(Operand)
  BY <1>0 DEF Line
<1>2. n \in Names /\ n # NULL /\ LabelOf(p[1]) = n
  BY <1>1, LabelTextGood
<1>3. Target(l) = n
  BY <1>2 DEF Target, LabelJumps
<1>4. inst.opcode \in 0..63 /\ inst.type = "J"
  BY CodesFit
<1>5. /\ s.address \in Int
      /\ DefinedAt(n) # {} => s.address = AddressInProgram(n) /\ s.address \in Nat
      /\ DefinedAt(n) = {} /\ ~Mentions(".entry", n) => s.address = 0
  BY <1>2, UsedSymbol
<1>6. InReach(i, n) => AddressInProgram(n) < 2^25
  BY <1>4 DEF InReach
<1> HIDE DEF l, p, n, s, inst
<1>7. s.address \in Nat /\ s.address < 2^25
        => Opcode(b) = inst.opcode /\ Address25(b) = s.address
  <2> SUFFICES ASSUME s.address \in Nat, s.address < 2^25
               PROVE  Opcode(b) = inst.opcode /\ Address25(b) = s.address
    OBVIOUS
  <2>1. /\ b[4] \div 4 = inst.opcode
        /\ b[1] + 2^8 * b[2] + 2^16 * b[3] + 2^24 * (b[4] % 2) = s.address
    BY <1>4, JumpReadsBack
  <2> QED BY <2>1, Zenon DEF Opcode, Address25
<1>8. 0 \in Nat /\ 0 < 2^25
  BY SMT
<1> HIDE DEF b
<1>9. ASSUME DefinedAt(n) # {}, InReach(i, n)
      PROVE  Opcode(b) = inst.opcode /\ AddressInProgram(n) = Address25(b)
  BY <1>5, <1>6, <1>7, <1>9, Zenon
<1>10. ASSUME DefinedAt(n) = {}, ~Mentions(".entry", n)
       PROVE  Opcode(b) = inst.opcode /\ Address25(b) = 0
  BY <1>5, <1>7, <1>8, <1>10, Zenon
<1>11. Refers(i, b)
  BY <1>2, <1>3, <1>4, <1>9, <1>10 DEF Refers, l, inst
<1> QED BY <1>11 DEF l, n, p, inst, b, s

(* A branch to a label; one of another file is not accepted.               *)
LEMMA BranchRefers ==
    ASSUME FirstPassResult, ~hasErrors, NEW i \in DOMAIN src, CodeAddress(i) \in Nat,
           src[i].head \in LabelBranches, src[i].head \in DOMAIN INSTRUCTIONS,
           RegisterAt(src[i].params, 1), RegisterAt(src[i].params, 2),
           LabelAt(src[i].params, 3),
           LET k == findSymbolInTable(symbolTable, src[i].params[3].val)
           IN  k # 0 /\ "EXTERNAL" \notin symbolTable[k].attributes
    PROVE  LET p == src[i].params
               k == findSymbolInTable(symbolTable, p[3].val)
           IN  Refers(i, printInstruction(IWord(INSTRUCTIONS[src[i].head], p[1].val, p[2].val,
                                                symbolTable[k].address - CodeAddress(i))))
<1> DEFINE l == src[i]
           p == l.params
           n == p[3].val
           inst == INSTRUCTIONS[l.head]
           s == symbolTable[findSymbolInTable(symbolTable, n)]
           a == CodeAddress(i)
           d == s.address - a
           b == printInstruction(IWord(inst, p[1].val, p[2].val, d))
<1>0. l \in Line
  BY SourcesAssumption DEF FirstPassResult
<1>1. p \in Seq(Operand)
  BY <1>0 DEF Line
<1>2. n \in Names /\ n # NULL /\ LabelOf(p[3]) = n
  BY <1>1, LabelTextGood
<1>3. Target(l) = n
  BY <1>2 DEF Target, LabelBranches
<1>4. inst.opcode \in 0..63 /\ inst.type # "J"
  BY CodesFit
<1>5. /\ s.address \in Int
      /\ DefinedAt(n) # {} => s.address = AddressInProgram(n) /\ s.address \in Nat
      /\ ~(DefinedAt(n) = {} /\ ~Mentions(".entry", n))
  BY <1>2, UsedSymbol
<1>6. InReach(i, n) => AddressInProgram(n) - a \in -(2^15)..2^15 - 1
  BY <1>4 DEF InReach
<1>7. p[1].val \in 0..31 /\ p[2].val \in 0..31
  BY DEF RegisterAt
<1>8. d \in Int
  BY <1>5
<1> HIDE DEF l, p, n, s, inst, a, d
<1>9. /\ Opcode(b) = inst.opcode /\ b[1] + 2^8 * b[2] = d % 2^16
  BY <1>4, <1>7, <1>8, ImmediateReadsBack, Zenon DEF Opcode
<1>10. d \in -(2^15)..2^15 - 1 => Offset16(b) = d
  <2>1. d \in -(2^15)..2^15 - 1 => d >= -(2^15) /\ d < 2^15
    BY <1>8, SMT
  <2>2. Offset16(b) = IF d % 2^16 < 2^15 THEN d % 2^16 ELSE (d % 2^16) - 2^16
    BY <1>9, Zenon DEF Offset16
  <2> QED BY <1>8, <2>1, <2>2, SignedOffset, Zenon
<1>11. s.address = a + d /\ d = s.address - a
  BY <1>5 DEF a, d
<1> HIDE DEF b
<1> QED BY <1>3, <1>4, <1>5, <1>6, <1>9, <1>10, <1>11, Zenon DEF Refers, l, n, p, inst, b, s, a, d

(* The opcode of an R instruction reads back.                              *)
LEMMA RegistersOpcode ==
    \A inst : inst.opcode \in 0..63 /\ inst.funct \in 0..31 =>
      \A rs, rt, rd \in 0..31 : printInstruction(RWord(inst, rs, rt, rd))[4] \div 4 = inst.opcode
<1> SUFFICES ASSUME NEW inst, inst.opcode \in 0..63, inst.funct \in 0..31,
                    NEW rs \in 0..31, NEW rt \in 0..31, NEW rd \in 0..31
             PROVE  printInstruction(RWord(inst, rs, rt, rd))[4] \div 4 = inst.opcode
  BY Zenon
<1> QED BY RegistersReadBack

(* The row of an accepted line shows the opcode and the label.             *)
LEMMA RowRefers ==
    ASSUME FirstPassResult, ~hasErrors, NEW i \in CodeLines, NEW row, LineRow(i, row)
    PROVE  row.address = CodeAddress(i) /\ Refers(i, row.bytes)
<1> DEFINE l == src[i]
           p == l.params
           inst == INSTRUCTIONS[l.head]
           a == CodeAddress(i)
           r == parseInstruction(l, symbolTable, a)
           b == printInstruction(r.word)
<1>0. l \in Line /\ i \in DOMAIN src /\ i \in Nat \ {0}
  BY SourcesAssumption DEF FirstPassResult, CodeLines
<1>1. l \in Line /\ i \in DOMAIN src /\ i \in Nat \ {0} /\ p \in Seq(Operand)
  BY <1>0 DEF Line
<1>2. r.ec = GOOD /\ row = [address |-> a, bytes |-> b]
  BY DEF LineRow
<1>3. row.address = a /\ row.bytes = b
  BY <1>2
<1>4. l.head \in DOMAIN INSTRUCTIONS /\ Accepted(l, symbolTable, a, r)
  BY <1>1, <1>2, AcceptedInstruction
<1>5. a \in Nat
  BY <1>1, NextCodeAddress
<1>6. inst.opcode \in 0..63 /\ inst.funct \in 0..31
  BY <1>4, CodesFit
<1>7. ASSUME l.head \notin LabelBranches \cup LabelJumps \cup {"jmp"} PROVE Target(l) = NULL
  BY <1>7 DEF Target, LabelBranches, LabelJumps
<1>8. Target(l) = NULL /\ b[4] \div 4 = inst.opcode => Refers(i, b)
  BY DEF Refers, Opcode
<1>9. Refers(i, b)
  <2> HIDE DEF r
  <2>1. CASE l.head \in RegisterMoves
    <3>1. /\ RegisterAt(p, 1) /\ RegisterAt(p, 2)
          /\ r.word = RWord(inst, p[1].val, 0, p[2].val)
      BY <1>4, <2>1 DEF Accepted
    <3>2. p[1].val \in 0..31 /\ p[2].val \in 0..31 /\ 0 \in 0..31
      BY <3>1 DEF RegisterAt
    <3>3. Target(l) = NULL
      BY <1>7, <2>1 DEF RegisterMoves, LabelBranches, LabelJumps
    <3>4. b[4] \div 4 = inst.opcode
      <4> HIDE DEF l, p, inst
      <4>1. printInstruction(RWord(inst, p[1].val, 0, p[2].val))[4] \div 4 = inst.opcode
        BY <1>6, <3>2, RegistersOpcode, Zenon
      <4> QED BY <1>6, <3>1, <3>2, <4>1
    <3> QED BY <1>8, <3>3, <3>4
  <2>2. CASE l.head \in LabelBranches
    <3>1. /\ RegisterAt(p, 1) /\ RegisterAt(p, 2) /\ LabelAt(p, 3)
          /\ findSymbolInTable(symbolTable, p[3].val) # 0
          /\ "EXTERNAL" \notin symbolTable[findSymbolInTable(symbolTable, p[3].val)].attributes
          /\ r.word = IWord(inst, p[1].val, p[2].val,
                            symbolTable[findSymbolInTable(symbolTable, p[3].val)].address - a)
      BY <1>4, <2>2, Zenon DEF Accepted
    <3> QED BY <1>1, <1>4, <1>5, <2>2, <3>1, BranchRefers, Zenon
  <2>3. CASE l.head \in LabelJumps \cup {"jmp"}
    <3>1. \/ /\ LabelAt(p, 1) /\ findSymbolInTable(symbolTable, p[1].val) # 0
             /\ r.word = JWord(inst, 0,
                               symbolTable[findSymbolInTable(symbolTable, p[1].val)].address)
          \/ /\ l.head = "jmp" /\ RegisterAt(p, 1) /\ r.word = JWord(inst, 1, p[1].val)
      BY <1>4, <2>3, Zenon DEF Accepted
    <3>2. CASE LabelAt(p, 1) /\ findSymbolInTable(symbolTable, p[1].val) # 0
               /\ r.word = JWord(inst, 0,
                                 symbolTable[findSymbolInTable(symbolTable, p[1].val)].address)
      BY <1>1, <1>4, <2>3, <3>2, JumpRefers, Zenon
    <3>3. CASE l.head = "jmp" /\ RegisterAt(p, 1) /\ r.word = JWord(inst, 1, p[1].val)
      <4>0. p[1].val \in 0..31 /\ p[1].kind = "reg"
        BY <3>3 DEF RegisterAt
      <4>1. p[1].val \in Nat /\ p[1].val < 2^25 /\ 1 \in {0, 1} /\ p[1].kind = "reg"
        <5> HIDE DEF p
        <5> QED BY <4>0, SMT
      <4>2. Target(l) = NULL
        BY <3>3, <4>1 DEF Target, LabelOf
      <4>3. b[4] \div 4 = inst.opcode
        BY <1>6, <3>3, <4>1, JumpReadsBack, Zenon
      <4> QED BY <1>8, <4>2, <4>3
    <3> QED BY <3>1, <3>2, <3>3
  <2>4. CASE l.head = "stop"
    <3>1. r.word = Shl(inst.opcode, 26)
      BY <1>4, <2>4, Zenon DEF Accepted
    <3>2. Target(l) = NULL
      BY <1>7, <2>4 DEF LabelBranches, LabelJumps
    <3>3. b[4] \div 4 = inst.opcode
      BY <1>6, <3>1, StopReadsBack, Zenon
    <3> QED BY <1>8, <3>2, <3>3
  <2>5. CASE l.head \notin RegisterMoves \cup LabelBranches \cup LabelJumps \cup {"jmp", "stop"}
    <3>1. IF inst.type = "R"
          THEN /\ RegisterAt(p, 1) /\ RegisterAt(p, 2) /\ RegisterAt(p, 3)
               /\ r.word = RWord(inst, p[1].val, p[2].val, p[3].val)
          ELSE /\ RegisterAt(p, 1) /\ NumberAt(p, 2) /\ RegisterAt(p, 3)
               /\ r.word = IWord(inst, p[1].val, p[3].val, to16bit(p[2].val))
      BY <1>4, <2>5, Zenon DEF Accepted
    <3>2. Target(l) = NULL
      BY <1>7, <2>5
    <3>3. CASE inst.type = "R"
      <4>1. p[1].val \in 0..31 /\ p[2].val \in 0..31 /\ p[3].val \in 0..31
        BY <3>1, <3>3 DEF RegisterAt
      <4>2. r.word = RWord(inst, p[1].val, p[2].val, p[3].val)
        BY <3>1, <3>3
      <4>3. b[4] \div 4 = inst.opcode
        <5> HIDE DEF l, p, inst
        <5>1. printInstruction(RWord(inst, p[1].val, p[2].val, p[3].val))[4] \div 4 = inst.opcode
          BY <1>6, <4>1, RegistersOpcode, Zenon
        <5> QED BY <1>6, <4>1, <4>2, <5>1
      <4> QED BY <1>8, <3>2, <4>3
    <3>4. CASE inst.type # "R"
      <4>1. /\ p[1].val \in 0..31 /\ p[3].val \in 0..31
            /\ r.word = IWord(inst, p[1].val, p[3].val, to16bit(p[2].val))
        BY <3>1, <3>4 DEF RegisterAt
      <4>2. to16bit(p[2].val) \in Int
        <5>1. p[2].val \in Int
          BY <3>1, <3>4, SMT DEF NumberAt, Immed
        <5> QED BY <5>1, SMT DEF to16bit
      <4>3. b[4] \div 4 = inst.opcode
        <5> HIDE DEF l, p, inst
        <5>1. printInstruction(IWord(inst, p[1].val, p[3].val, to16bit(p[2].val)))[4] \div 4 = inst.opcode
          BY <1>6, <4>1, <4>2, ImmediateReadsBack
        <5> QED BY <1>6, <4>1, <4>2, <5>1
      <4> QED BY <1>8, <3>2, <4>3
    <3> QED BY <3>3, <3>4
  <2> QED BY <2>1, <2>2, <2>3, <2>4, <2>5
<1> QED BY <1>3, <1>9

(* The references in an object file that is kept.                          *)
LEMMA ReferencesAreResolved ==
    ASSUME "fprintf" \notin Faults, BaseInv, ObjectInv
    PROVE  ReferencesResolved
<1> SUFFICES ASSUME BaseInv, ObjectInv, Produced, NEW i \in CodeLines
             PROVE  \E row \in Range(disk["ob"].rows) :
                      row.address = CodeAddress(i) /\ Refers(i, row.bytes)
  BY DEF ReferencesResolved, Refers
<1>1. FirstPassResult /\ ~hasErrors
  BY ProducedObject
<1>2. PICK code : /\ CodeRows(code, Len(src) + 1)
                  /\ disk["ob"].rows = code \o DataRows(dataImage)
  BY ProducedObject
<1>3. i \in 1..Len(src) /\ Len(src) \in Nat
  BY <1>1, SourcesAssumption DEF FirstPassResult, CodeLines
<1>4. PICK k \in DOMAIN code : LineRow(i, code[k])
  BY <1>2, <1>3 DEF CodeRows
<1>5. code[k] \in Range(disk["ob"].rows)
  <2> DEFINE tail == DataRows(dataImage)
             rows == disk["ob"].rows
  <2>1. code \in Seq(ObjectRow) /\ rows = code \o tail
    BY <1>2 DEF CodeRows
  <2>2. tail \in Seq(ObjectRow)
    <3>1. DataLayout(tail, dataImage)
      <4>1. ic \in Nat /\ ic % 4 = 0 /\ dataImage \in Seq(Char)
        <5>1. Len(src) + 1 \in Nat \ {0}
          BY <1>3
        <5> QED BY <1>1, <5>1, CodeIsBehindStart DEF FirstPassResult
      <4> QED BY <4>1, DataRowsLayout
    <3> HIDE DEF tail
    <3> QED BY <3>1 DEF DataLayout
  <2> HIDE DEF tail, rows
  <2>3. k \in DOMAIN rows /\ rows[k] = code[k]
    BY <2>1, <2>2
  <2> QED BY <2>3 DEF Range, rows
<1> QED BY <1>1, <1>4, <1>5, RowRefers

-------------------------------------------------------------------------------
(* The output, as a whole.                                                 *)
ContentInv == BaseInv /\ VerdictInv /\ EntriesInv /\ ExternalsInv /\ ObjectInv

(* Nothing is said of the output when a call begins.                       *)
LEMMA BegunHasContent == ASSUME Begun PROVE ContentInv
<1>1. pc = "firstPass" /\ externalTable = <<>> /\ ec = GOOD
  BY DEF Begun, Init
<1> QED BY <1>1, BegunIsBase, BegunHasVerdict
        DEF ContentInv, EntriesInv, ExternalsInv, ObjectInv, BeforeOutput

(* Each step keeps the invariants.                                         *)
LEMMA StepKeepsContent ==
    ASSUME ContentInv, Step \/ UNCHANGED vars PROVE ContentInv'
BY StepKeepsBase, StepKeepsVerdict, StepKeepsEntries, StepKeepsExternals, StepKeepsObject
   DEF ContentInv, BaseInv

(* The invariant of assembleFile, for any program.                         *)
THEOREM AssemblerInvariant == Spec => []ContentInv
<1>1. AsmInit => ContentInv
  BY InitIsBegun, BegunHasContent
<1>2. ContentInv /\ [Step \/ Over]_vars => ContentInv'
  BY StepKeepsContent DEF Over
<1> QED BY <1>1, <1>2, PTL DEF Spec

(* The .ent file has a row for each name .entry mentions, and no other,    *)
(* with the address of its definition.                                     *)
THEOREM AssemblerListsEntries == Spec => []EntriesComplete
<1>1. ContentInv => EntriesComplete
  BY EntriesAreListed DEF ContentInv, BaseInv
<1> QED BY <1>1, AssemblerInvariant, PTL

(* The file of externals says nothing that is not true.                    *)
THEOREM AssemblerExternalsAreTrue == Spec => []ExternalsSound
<1>1. ContentInv => ExternalsSound
  BY ExternalsAreTrue DEF ContentInv
<1> QED BY <1>1, AssemblerInvariant, PTL

(* The file of externals says all there is to say, unless memory runs out: *)
(* a row for each instruction that uses a label of another file.           *)
THEOREM AssemblerListsExternals ==
    ASSUME "malloc" \notin Faults
    PROVE  Spec => []ExternalsComplete
<1>1. ContentInv => ExternalsComplete
  BY ExternalsAreListed DEF ContentInv
<1> QED BY <1>1, AssemblerInvariant, PTL

(* The layout of the object file: header, code, data, without gap.         *)
THEOREM AssemblerLaysOut ==
    ASSUME "fprintf" \notin Faults
    PROVE  Spec => []ObjectLayout
<1>1. ContentInv => ObjectLayout
  BY ObjectIsLaidOut DEF ContentInv
<1> QED BY <1>1, AssemblerInvariant, PTL

(* Every label has become the address the program gives it, wherever it is *)
(* defined; the row of each instruction is there.                          *)
THEOREM AssemblerResolvesReferences ==
    ASSUME "fprintf" \notin Faults
    PROVE  Spec => []ReferencesResolved
<1>1. ContentInv => ReferencesResolved
  BY ReferencesAreResolved DEF ContentInv
<1> QED BY <1>1, AssemblerInvariant, PTL

-------------------------------------------------------------------------------
(* The types.                                                              *)

(* What is in a file of each kind.                                         *)
FileType(e, f) ==
    /\ f.state \in {"absent", "stale", "new"}
    /\ f.header \in {<<>>} \cup Nat \X Nat
    /\ f.rows \in Seq(IF e = "ob" THEN ObjectRow ELSE TableRow)
    /\ e # "ob" => f.header = <<>>

FileTypes(d) == \A e \in Extensions : FileType(e, d[e])

(* The types of the variables that assembleFile itself keeps.              *)
OutputType ==
    /\ codeIc \in Nat /\ codeIc % BYTES_IN_CODE_LINE = 0
    /\ ec \in {GOOD, "GENERIC_ERROR"}
    /\ externalTable \in Seq(TableRow)
    /\ failed \in BOOLEAN
    /\ FileTypes(disk)

TypeInv == DataTypeOK /\ OutputType

(* The types of a file that is not there, and of one from an earlier run.  *)
LEMMA AbsentType == \A e \in Extensions : FileType(e, Absent) /\ FileType(e, Stale)
<1>1. <<>> \in Seq(ObjectRow) /\ <<>> \in Seq(TableRow)
  OBVIOUS
<1>2. \A f \in {Absent, Stale} :
        f.state \in {"absent", "stale"} /\ f.header = <<>> /\ f.rows = <<>>
  BY DEF Absent, Stale, File
<1>3. \A f \in {Absent, Stale} : \A e \in Extensions : FileType(e, f)
  BY <1>1, <1>2, Zenon DEF FileType
<1> QED BY <1>3

(* Writing a file that has the type of its kind.                           *)
LEMMA WriteType ==
    ASSUME FilesInv, FileTypes(disk), NEW e \in Extensions, NEW f, IsFile(f), FileType(e, f),
           Write(e, f)
    PROVE  FileTypes(disk')
<1>1. IsDisk(disk)
  BY DEF FilesInv, OutputInv
<1>2. disk'[e] = f /\ \A d \in Extensions \ {e} : disk'[d] = disk[d]
  BY <1>1, WriteOne
<1> QED BY <1>2 DEF FileTypes

(* Writing more rows at the end of the object file.                        *)
LEMMA AppendType ==
    ASSUME FilesInv, FileTypes(disk), NEW rows \in Seq(ObjectRow),
           Write("ob", [disk["ob"] EXCEPT !.rows = @ \o rows])
    PROVE  FileTypes(disk')
<1> DEFINE f == disk["ob"]
           all == f.rows \o rows
           g == File(f.state, f.header, all)
<1>1. f = File(f.state, f.header, f.rows) /\ FileType("ob", f)
  BY DEF FilesInv, OutputInv, IsDisk, IsFile, Extensions, FileTypes
<1>2. all \in Seq(ObjectRow)
  BY <1>1 DEF FileType
<1>3. [f EXCEPT !.rows = @ \o rows] = g
  <2> DEFINE state == f.state
             header == f.header
             old == f.rows
  <2>1. f = [state |-> state, header |-> header, rows |-> old]
    BY <1>1 DEF File
  <2> HIDE DEF f, state, header, old
  <2>2. f.rows = old
    BY DEF old
  <2>3. [f EXCEPT !.rows = old \o rows] = [state |-> state, header |-> header, rows |-> old \o rows]
    <3> DEFINE new == old \o rows
    <3> HIDE DEF new
    <3>1. [f EXCEPT !.rows = new] = [state |-> state, header |-> header, rows |-> new]
      BY <2>1
    <3> QED BY <3>1 DEF new
  <2> QED BY <2>2, <2>3 DEF File, f, state, header, old
<1> HIDE DEF all
<1>4. IsFile(g) /\ g.state = f.state /\ g.header = f.header /\ g.rows = all
  BY DEF IsFile, File
<1> HIDE DEF g, f
<1>5. FileType("ob", g)
  BY <1>1, <1>2, <1>4 DEF FileType
<1> QED BY <1>3, <1>4, <1>5, WriteType DEF Extensions, f

(* The rows of the entries.                                                *)
LEMMA EntryRowsType ==
    ASSUME FirstPassResult PROVE EntryRows \in Seq(TableRow)
<1> DEFINE entries == {i \in DOMAIN symbolTable : "ENTRY" \in symbolTable[i].attributes}
           count == Cardinality(entries)
           row(k) == [label |-> symbolTable[Nth(entries, k)].label,
                      address |-> symbolTable[Nth(entries, k)].address]
<1>1. /\ symbolTable \in Seq(Symbol) /\ Len(symbolTable) \in Nat
      /\ DOMAIN symbolTable = 1..Len(symbolTable)
  BY DEF FirstPassResult, TableOK
<1>2. count \in Nat /\ \A k \in 1..count : Nth(entries, k) \in entries
  <2>1. entries \in SUBSET (1..Len(symbolTable))
    BY <1>1
  <2> HIDE DEF entries
  <2> QED BY <1>1, <2>1, NthMeetsEach
<1>3. EntryRows = [k \in 1..count |-> row(k)]
  BY DEF EntryRows
<1>4. \A k \in 1..count : row(k) \in TableRow
  <2> SUFFICES ASSUME NEW k \in 1..count PROVE row(k) \in TableRow
    OBVIOUS
  <2> DEFINE s == symbolTable[Nth(entries, k)]
  <2>1. s \in Symbol
    BY <1>1, <1>2
  <2> HIDE DEF s
  <2>2. [label |-> s.label, address |-> s.address] \in TableRow
    BY LabelsAreNames, <2>1 DEF Symbol, TableRow
  <2> QED BY <2>2 DEF s
<1> HIDE DEF count, row
<1> QED BY <1>2, <1>3, <1>4

(* The table files.                                                        *)
LEMMA TablesKeepType ==
    ASSUME BaseInv, OutputType, generateEntriesFile \/ generateExternalsFile
    PROVE  OutputType'
<1>1. /\ pc \in {"entries", "externals"}
      /\ UNCHANGED <<codeIc, ec, externalTable>>
  BY DEF generateEntriesFile, generateExternalsFile
<1>2. FirstPassResult
  BY <1>1 DEF BaseInv, ResultInv
<1>3. PICK e \in {"ent", "ext"}, rows \in Seq(TableRow) : GenerateFile(e, rows)
  BY <1>2, EntryRowsType DEF generateEntriesFile, generateExternalsFile, OutputType
<1>4. failed' \in BOOLEAN
  BY <1>3 DEF GenerateFile, OutputType
<1>5. PICK f : /\ f = Absent \/ f = New(<<>>, rows)
               /\ Write(e, f)
  BY <1>3 DEF GenerateFile
<1>6. IsFile(f) /\ FileType(e, f) /\ e \in Extensions
  <2>1. /\ IsFile(Absent) /\ FileType(e, Absent)
        /\ IsFile(New(<<>>, rows)) /\ FileType(e, New(<<>>, rows))
    BY <1>3 DEF IsFile, FileType, Absent, New, File
  <2> QED BY <1>5, <2>1 DEF Extensions
<1>7. FileTypes(disk')
  BY <1>5, <1>6, WriteType DEF BaseInv, OutputType
<1> QED BY <1>1, <1>4, <1>7 DEF OutputType

(* A line of the second pass.                                              *)
LEMMA LineKeepsType ==
    ASSUME BaseInv, OutputType, SecondPassLine
    PROVE  OutputType'
<1> DEFINE r == parseInstruction(cur, symbolTable, codeIc)
           row == [address |-> codeIc, bytes |-> printInstruction(r.word)]
<1>1. /\ pc = "secondPass" /\ pos <= Len(src) /\ codeIc' = codeIc + BYTES_IN_CODE_LINE
      /\ failed' = failed /\ ec' = Remember(ec, r.ec)
      /\ externalTable' \in IF r.ext = NULL THEN {externalTable}
                            ELSE addExternal(externalTable, r.ext, codeIc)
      /\ disk' = disk \/ Write("ob", [disk["ob"] EXCEPT !.rows = Append(@, row)])
  BY Zenon DEF SecondPassLine
<1>2. cur \in Line /\ cur.params \in Seq(Operand)
  <2>1. src \in Sources /\ pos \in 1..Len(src) + 1
    BY <1>1 DEF BaseInv, AddressInv
  <2>2. pos \in DOMAIN src
    BY <1>1, <2>1, SourcesAssumption
  <2>3. cur \in Line
    BY <2>1, <2>2, SourcesAssumption DEF cur
  <2> QED BY <2>3 DEF Line
<1>3. codeIc' \in Nat /\ codeIc' % BYTES_IN_CODE_LINE = 0
  BY <1>1 DEF OutputType, BYTES_IN_CODE_LINE
<1>4. ec' \in {GOOD, "GENERIC_ERROR"}
  BY <1>1 DEF Remember, OutputType
<1>5. r.ext # NULL => r.ext \in Names
  <2>1. r.ext # NULL => LabelAt(cur.params, 1) /\ r.ext = cur.params[1].val
    BY <1>2, NotedUse
  <2> HIDE DEF r
  <2> QED BY <1>2, <2>1, LabelTextGood
<1>6. externalTable' \in Seq(TableRow)
  <2> DEFINE new == [label |-> r.ext, address |-> codeIc]
  <2>1. externalTable' = externalTable
          \/ (r.ext # NULL /\ externalTable' = Append(externalTable, new))
    BY <1>1 DEF addExternal
  <2> HIDE DEF r
  <2>2. r.ext # NULL => new \in TableRow
    BY <1>5 DEF TableRow, OutputType
  <2> HIDE DEF new
  <2> QED BY <2>1, <2>2 DEF OutputType
<1>7. FileTypes(disk')
  <2>1. row \in ObjectRow
    <3> DEFINE b == printInstruction(r.word)
    <3>1. b \in Seq(0..255) /\ Len(b) = 4
      BY PrintedBytes
    <3> HIDE DEF b, r
    <3>2. [address |-> codeIc, bytes |-> b] \in ObjectRow
      BY <3>1 DEF ObjectRow, Byte, OutputType, BYTES_PER_LINE, BYTES_IN_CODE_LINE
    <3> QED BY <3>2 DEF b
  <2> HIDE DEF row, r
  <2>2. CASE disk' = disk
    BY <2>2 DEF OutputType
  <2>3. CASE Write("ob", [disk["ob"] EXCEPT !.rows = Append(@, row)])
    <3>1. disk["ob"].rows \in Seq(ObjectRow)
      BY DEF OutputType, FileTypes, FileType, Extensions
    <3>2. Append(disk["ob"].rows, row) = disk["ob"].rows \o <<row>> /\ <<row>> \in Seq(ObjectRow)
      BY <2>1, <3>1
    <3>3. Write("ob", [disk["ob"] EXCEPT !.rows = @ \o <<row>>])
      BY <2>3, <3>2
    <3> QED BY <3>2, <3>3, AppendType DEF BaseInv, OutputType
  <2> QED BY <1>1, <2>2, <2>3 DEF row, r
<1> QED BY <1>1, <1>3, <1>4, <1>6, <1>7 DEF OutputType

(* Every other statement behind the first pass.                            *)
LEMMA OtherStepsKeepType ==
    ASSUME BaseInv, OutputType,
           \/ FirstPassFailed \/ OpenObject \/ writeObjFileHeader \/ SecondPassSkip
           \/ SecondPassEnd \/ appendDataImageToFile \/ removeOutputFiles
    PROVE  OutputType'
<1>1. CASE FirstPassFailed \/ SecondPassSkip
  BY <1>1 DEF FirstPassFailed, SecondPassSkip, outputVars, OutputType
<1>2. CASE OpenObject
  <2>1. UNCHANGED <<codeIc, ec, externalTable>>
    BY <1>2 DEF OpenObject
  <2>2. \/ Write("ob", New(<<>>, <<>>)) /\ failed' = failed
        \/ failed' = TRUE /\ disk' = disk
    BY <1>2 DEF OpenObject
  <2>3. IsFile(New(<<>>, <<>>)) /\ FileType("ob", New(<<>>, <<>>))
    BY DEF IsFile, FileType, New, File
  <2>4. FileTypes(disk')
    BY <2>2, <2>3, WriteType DEF BaseInv, OutputType, Extensions
  <2> QED BY <2>1, <2>2, <2>4 DEF OutputType
<1>3. CASE writeObjFileHeader
  <2> DEFINE f == New(<<ic - FIRST_MEMORY_ADDRESS, dc>>, <<>>)
  <2>1. pc = "header" /\ UNCHANGED <<codeIc, ec, externalTable>>
    BY <1>3 DEF writeObjFileHeader
  <2>2. \/ Write("ob", f) /\ failed' = failed
        \/ failed' = TRUE /\ disk' = disk
    BY <1>3 DEF writeObjFileHeader
  <2>3. ic - FIRST_MEMORY_ADDRESS \in Nat /\ dc \in Nat
    <3>1. FirstPassResult
      BY <2>1 DEF BaseInv, ResultInv
    <3>2. Len(src) + 1 \in Nat \ {0}
      BY <3>1, SourcesAssumption DEF FirstPassResult
    <3> QED BY <3>1, <3>2, CodeIsBehindStart DEF FirstPassResult
  <2>4. IsFile(f) /\ FileType("ob", f)
    BY <2>3 DEF IsFile, FileType, New, File
  <2> HIDE DEF f
  <2>5. FileTypes(disk')
    BY <2>2, <2>4, WriteType DEF BaseInv, OutputType, Extensions
  <2> QED BY <2>1, <2>2, <2>5 DEF OutputType
<1>4. CASE SecondPassEnd
  BY <1>4 DEF SecondPassEnd, OutputType
<1>5. CASE appendDataImageToFile
  <2>1. pc = "appendData" /\ UNCHANGED <<codeIc, ec, externalTable>> /\ failed' \in BOOLEAN
    BY <1>5 DEF appendDataImageToFile, OutputType
  <2>2. PICK n \in 0..Len(dataImage) :
          Write("ob", [disk["ob"] EXCEPT !.rows = @ \o DataRows(SubSeq(dataImage, 1, n))])
    BY <1>5 DEF appendDataImageToFile
  <2>3. DataRows(SubSeq(dataImage, 1, n)) \in Seq(ObjectRow)
    <3> DEFINE image == SubSeq(dataImage, 1, n)
    <3>1. FirstPassResult
      BY <2>1 DEF BaseInv, ResultInv
    <3>2. ic \in Nat /\ ic % 4 = 0
      <4>1. Len(src) + 1 \in Nat \ {0}
        BY <3>1, SourcesAssumption DEF FirstPassResult
      <4> QED BY <3>1, <4>1, CodeIsBehindStart DEF FirstPassResult
    <3>3. image \in Seq(Char)
      BY <3>1 DEF FirstPassResult
    <3> HIDE DEF image
    <3>4. DataLayout(DataRows(image), image)
      BY <3>2, <3>3, DataRowsLayout
    <3> QED BY <3>4 DEF DataLayout, image
  <2>4. FileTypes(disk')
    BY <2>2, <2>3, AppendType DEF BaseInv, OutputType
  <2> QED BY <2>1, <2>4 DEF OutputType
<1>6. CASE removeOutputFiles
  <2>1. /\ UNCHANGED <<codeIc, ec, externalTable, failed>>
        /\ disk' = [e \in Extensions |-> Absent]
    BY <1>6 DEF removeOutputFiles
  <2>2. FileTypes(disk')
    BY <2>1, AbsentType DEF FileTypes
  <2> QED BY <2>1, <2>2 DEF OutputType
<1> QED BY <1>1, <1>2, <1>3, <1>4, <1>5, <1>6

(* The variables the first pass has left.                                  *)
LEMMA StepKeepsDataType ==
    ASSUME BaseInv, DataTypeOK, Step \/ UNCHANGED vars PROVE DataTypeOK'
<1>1. CASE UNCHANGED vars
  <2>1. UNCHANGED <<src, pos, symbolTable, ic, dc, dataImage, error, hasErrors>>
    BY <1>1 DEF vars, firstPassVars
  <2> QED BY <2>1 DEF DataTypeOK
<1>2. CASE FirstPassStep
  <2>1. Inv /\ Pass1
    BY <1>2, FirstPassStepStays DEF BaseInv, ResultInv, FirstPassStep
  <2>2. Inv'
    BY <2>1, Pass1KeepsInv
  <2> QED BY <2>2 DEF Inv, TypeOK
<1>3. CASE LaterStep
  <2>1. UNCHANGED <<src, symbolTable, ic, dc, dataImage, error, hasErrors>>
    BY <1>3, LaterStepLeaves DEF resultVars
  <2>2. Len(src)' = Len(src) /\ Len(src) \in Nat
    BY <2>1, SourcesAssumption DEF DataTypeOK
  <2>3. pos' \in {pos, 1} \/ (pos <= Len(src) /\ pos' = pos + 1)
    BY <1>3 DEF LaterStep, FirstPassFailed, OpenObject, writeObjFileHeader, SecondPassSkip,
                SecondPassLine, SecondPassEnd, appendDataImageToFile, generateEntriesFile,
                generateExternalsFile, removeOutputFiles
  <2>4. pos' \in 1..Len(src) + 1
    BY <2>2, <2>3 DEF DataTypeOK
  <2> QED BY <2>1, <2>2, <2>4 DEF DataTypeOK
<1> QED BY <1>1, <1>2, <1>3, StepCases

(* Where assembleFile can be.                                              *)
Statement == {"firstPass", "crashed", "firstPassDone", "header", "secondPass",
              "appendData", "entries", "externals", "cleanup", "done"}

(* Each step keeps the types.                                              *)
LEMMA StepKeepsType ==
    ASSUME BaseInv, TypeInv, pc \in Statement, Step \/ UNCHANGED vars
    PROVE  TypeInv' /\ pc' \in Statement
<1>1. DataTypeOK'
  BY StepKeepsDataType DEF TypeInv
<1>2. pc' \in Statement
  <2>1. CASE UNCHANGED vars
    BY <2>1 DEF vars, firstPassVars
  <2>2. CASE FirstPassStep
    BY <2>2, FirstPassStepStays DEF BeforeOutput, Statement
  <2>3. CASE LaterStep
    BY <2>3 DEF LaterStep, FirstPassFailed, OpenObject, writeObjFileHeader, SecondPassSkip,
                SecondPassLine, SecondPassEnd, appendDataImageToFile, generateEntriesFile,
                generateExternalsFile, removeOutputFiles, Goto, Statement
  <2> QED BY <2>1, <2>2, <2>3, StepCases
<1>3. OutputType'
  <2>1. CASE UNCHANGED vars \/ FirstPassStep
    BY <2>1 DEF vars, FirstPassStep, outputVars, OutputType, TypeInv
  <2>2. CASE LaterStep
    BY <2>2, TablesKeepType, LineKeepsType, OtherStepsKeepType DEF LaterStep, TypeInv
  <2> QED BY <2>1, <2>2, StepCases
<1> QED BY <1>1, <1>2, <1>3 DEF TypeInv

(* The types, with the statements.                                         *)
TypesInv == BaseInv /\ TypeInv /\ pc \in Statement

(* They are right when a call begins, if those of the files are ...        *)
LEMMA BegunHasTypes == ASSUME Begun, FileTypes(disk) PROVE TypesInv
<1>1. BaseInv
  BY BegunIsBase
<1>2. DataTypeOK /\ pc \in Statement
  BY InitIsInv DEF Begun, Init, Inv, TypeOK, Statement
<1>3. codeIc \in Nat /\ codeIc % BYTES_IN_CODE_LINE = 0
  BY DEF Begun, FIRST_MEMORY_ADDRESS, BYTES_IN_CODE_LINE
<1>4. externalTable = <<>> /\ ec = GOOD /\ failed = FALSE
  BY DEF Begun
<1>5. <<>> \in Seq(TableRow)
  OBVIOUS
<1>6. OutputType
  <2> HIDE DEF Begun
  <2> QED BY <1>3, <1>4, <1>5, Zenon DEF OutputType
<1> QED BY <1>1, <1>2, <1>6 DEF TypeInv, TypesInv

(* ... and each step keeps them.                                           *)
LEMMA StepKeepsTypes == ASSUME TypesInv, Step \/ UNCHANGED vars PROVE TypesInv'
BY StepKeepsBase, StepKeepsType DEF TypesInv

(* They are those of AsmTypeOK.                                            *)
LEMMA TypesAreRight == ASSUME TypesInv PROVE AsmTypeOK
BY DEF TypesInv, TypeInv, OutputType, FileTypes, FileType, Statement, AsmTypeOK

(* The variables of assembleFile keep their types.                         *)
THEOREM AssemblerTypes == Spec => []AsmTypeOK
<1>1. AsmInit => TypesInv
  <2> SUFFICES ASSUME AsmInit PROVE TypesInv
    OBVIOUS
  <2>1. FileTypes(disk)
    BY AbsentType DEF AsmInit, FileTypes
  <2> QED BY <2>1, InitIsBegun, BegunHasTypes
<1>2. TypesInv /\ [Step \/ Over]_vars => TypesInv'
  BY StepKeepsTypes DEF Over
<1>3. TypesInv => AsmTypeOK
  BY TypesAreRight
<1> QED BY <1>1, <1>2, <1>3, PTL DEF Spec
===============================================================================
