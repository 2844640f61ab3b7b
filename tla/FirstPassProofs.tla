--------------------------- MODULE FirstPassProofs ---------------------------
(***************************************************************************)
(* Proofs about the first pass, for every program, every set of names and  *)
(* every choice of failing calls: its variables keep their types, no       *)
(* sequence of lines makes the symbol table define a name twice or give it *)
(* two kinds of meaning, and the instruction counter counts instructions.  *)
(***************************************************************************)
EXTENDS FirstPass, OperatorProofs

(* The invariant.  The type of the table is part of TableOK, and so is     *)
(* that no address is below -1, which neither TypeOK nor OneKind says.     *)
Inv == TypeOK /\ TableOK(symbolTable)

-------------------------------------------------------------------------------
(* The line the loop is at is one strToLine can return.                    *)
LEMMA LineAtPos ==
    ASSUME TypeOK, AtLine
    PROVE  cur \in Line /\ WellFormed(cur) /\ pos \in 1..Len(src) /\ Len(src) \in Nat
<1>1. src \in Sources /\ src \in Seq(Line) /\ Len(src) \in Nat /\ DOMAIN src = 1..Len(src)
  BY SourcesAssumption DEF TypeOK, DataTypeOK
<1>2. pos \in DOMAIN src
  BY <1>1 DEF TypeOK, DataTypeOK, AtLine
<1> QED BY <1>1, <1>2, SourcesAssumption DEF cur

(* The loop moves to the next line, or behind the last one.                *)
LEMMA AdvanceType ==
    ASSUME TypeOK, AtLine, Advance
    PROVE  /\ src' \in Sources /\ pos' \in 1..Len(src') + 1
           /\ pc' \in {"firstPass", "firstPassDone", "crashed"}
BY LineAtPos DEF TypeOK, DataTypeOK, Advance

(* What is logged is an error code.                                        *)
LEMMA LogType ==
    ASSUME TypeOK, NEW e \in ErrorCode, Log(e)
    PROVE  error' \in ErrorCode /\ hasErrors' \in BOOLEAN
BY DEF TypeOK, DataTypeOK, Log

(* The label of a line is entered like any other symbol.                   *)
LEMMA LabelType ==
    ASSUME TableOK(symbolTable), NEW label, NEW address, NEW flag,
           Call(address, flag), NEW r \in LabelOutcomes(label, address, flag)
    PROVE  r.ec \in ErrorCode /\ TableOK(r.table)
<1>1. CASE label = NULL
  BY <1>1 DEF LabelOutcomes, ErrorCode
<1>2. CASE label # NULL
  <2>1. r \in AddSymbolOutcomes(symbolTable, label, address, flag)
    BY <1>2 DEF LabelOutcomes
  <2> QED BY <2>1, AddSymbolKeepsTable
<1> QED BY <1>1, <1>2

-------------------------------------------------------------------------------
(* Each kind of line keeps the invariant.                                  *)

(* A skipped line keeps the invariant.                                     *)
LEMMA SkipLineKeepsInv == ASSUME Inv, SkipLine PROVE Inv'
<1>1. TypeOK'
  BY AdvanceType DEF Inv, SkipLine, TypeOK, DataTypeOK
<1> QED BY <1>1 DEF Inv, SkipLine

(* What DirectiveLine does with the results of its three calls.            *)
DirectiveEffect(labelled, encoded, appended) ==
    /\ symbolTable' = labelled.table
    /\ IF encoded.ec # GOOD
       THEN Log(encoded.ec) /\ UNCHANGED <<dc, dataImage>>
       ELSE /\ Log(appended)
            /\ dc' = dc + Len(encoded.bytes)
            /\ dataImage' = IF appended = GOOD THEN dataImage \o encoded.bytes
                            ELSE dataImage

(* processDirective keeps the invariant.                                   *)
LEMMA DirectiveLineKeepsInv == ASSUME Inv, DirectiveLine PROVE Inv'
<1>1. cur \in Line /\ WellFormed(cur) /\ cur.error = GOOD /\ AtLine
  BY LineAtPos DEF Inv, DirectiveLine, AtUsableLine
<1>2. PICK labelled \in LabelOutcomes(cur.label, dc, "DATA") :
        \E encoded \in directiveToBytes(cur, labelled.ec) :
        \E appended \in addBytesToImage :
          DirectiveEffect(labelled, encoded, appended)
  BY DEF DirectiveLine, DirectiveEffect, KeepBytes
<1>3. labelled.ec \in ErrorCode /\ TableOK(labelled.table)
  <2>1. Call(dc, "DATA")
    BY DEF Call, Inv, TypeOK, DataTypeOK
  <2> QED BY <2>1, LabelType DEF Inv
<1>4. PICK encoded \in directiveToBytes(cur, labelled.ec) :
        \E appended \in addBytesToImage :
          DirectiveEffect(labelled, encoded, appended)
  BY <1>2
<1>5. PICK appended \in addBytesToImage :
        DirectiveEffect(labelled, encoded, appended)
  BY <1>4
<1>6. encoded.ec \in ErrorCode /\ encoded.bytes \in Seq(Char)
  BY <1>1, <1>3, DirectiveBytes DEF DirectiveLine
<1>7. appended \in ErrorCode
  BY DEF addBytesToImage, ErrorCode
<1>8. error' \in ErrorCode /\ hasErrors' \in BOOLEAN
  BY <1>5, <1>6, <1>7, LogType DEF Inv, DirectiveEffect
<1>9. dc' \in Nat /\ dataImage' \in Seq(Char)
  <2>1. dc \in Nat /\ dataImage \in Seq(Char)
    BY DEF Inv, TypeOK, DataTypeOK
  <2>2. dc + Len(encoded.bytes) \in Nat /\ dataImage \o encoded.bytes \in Seq(Char)
    BY <1>6, <2>1
  <2>3. dc' \in {dc, dc + Len(encoded.bytes)}
        /\ dataImage' \in {dataImage, dataImage \o encoded.bytes}
    BY <1>5 DEF DirectiveEffect
  <2> QED BY <2>1, <2>2, <2>3
<1>10. TableOK(symbolTable')
  BY <1>3, <1>5 DEF DirectiveEffect
<1>11. src' \in Sources /\ pos' \in 1..Len(src') + 1
       /\ pc' \in {"firstPass", "firstPassDone", "crashed"}
  BY <1>1, AdvanceType DEF Inv, DirectiveLine
<1> QED BY <1>8, <1>9, <1>10, <1>11 DEF Inv, TypeOK, DataTypeOK, TableOK, DirectiveLine

(* .entry keeps the invariant.                                             *)
LEMMA EntryLineKeepsInv == ASSUME Inv, EntryLine PROVE Inv'
<1>1. PICK r \in AddSymbolOutcomes(symbolTable, LabelOf(cur.params[1]), -1, "ENTRY") :
        symbolTable' = r.table /\ Log(r.ec)
  BY DEF EntryLine
<1>2. r.ec \in ErrorCode /\ TableOK(r.table)
  <2>1. Call(-1, "ENTRY")
    BY DEF Call
  <2> QED BY <2>1, AddSymbolKeepsTable DEF Inv
<1>3. error' \in ErrorCode /\ hasErrors' \in BOOLEAN
  BY <1>1, <1>2, LogType DEF Inv
<1>4. src' \in Sources /\ pos' \in 1..Len(src') + 1
      /\ pc' \in {"firstPass", "firstPassDone", "crashed"}
  BY AdvanceType DEF Inv, EntryLine, AtUsableLine
<1> QED BY <1>1, <1>2, <1>3, <1>4 DEF Inv, TypeOK, DataTypeOK, TableOK, EntryLine

(* processExtern keeps the invariant.                                      *)
LEMMA ExternLineKeepsInv == ASSUME Inv, ExternLine PROVE Inv'
<1>1. PICK r \in processExtern(cur.params) : symbolTable' = r.table /\ Log(r.ec)
  BY DEF ExternLine
<1>2. r.ec \in ErrorCode /\ TableOK(r.table)
  <2>1. CASE \E e \in {"MISSING_OPERAND", "TOO_MANY_ARGUMENTS", "INVALID_LABEL"} :
               r = [ec |-> e, table |-> symbolTable]
    BY <2>1 DEF Inv, ErrorCode
  <2>2. CASE r \in AddSymbolOutcomes(symbolTable, LabelOf(cur.params[1]), 0, "EXTERNAL")
    <3>1. Call(0, "EXTERNAL")
      BY DEF Call
    <3> QED BY <2>2, <3>1, AddSymbolKeepsTable DEF Inv
  <2> QED BY <2>1, <2>2 DEF processExtern
<1>3. error' \in ErrorCode /\ hasErrors' \in BOOLEAN
  BY <1>1, <1>2, LogType DEF Inv
<1>4. src' \in Sources /\ pos' \in 1..Len(src') + 1
      /\ pc' \in {"firstPass", "firstPassDone", "crashed"}
  BY AdvanceType DEF Inv, ExternLine, AtUsableLine
<1> QED BY <1>1, <1>2, <1>3, <1>4 DEF Inv, TypeOK, DataTypeOK, TableOK, ExternLine

(* An instruction line keeps the invariant.                                *)
LEMMA InstructionLineKeepsInv == ASSUME Inv, InstructionLine PROVE Inv'
<1>1. PICK r \in LabelOutcomes(cur.label, ic, "CODE") :
        /\ symbolTable' = r.table
        /\ IF cur.label = NULL THEN UNCHANGED <<error, hasErrors>> ELSE Log(r.ec)
  BY DEF InstructionLine
<1>2. r.ec \in ErrorCode /\ TableOK(r.table)
  <2>1. Call(ic, "CODE")
    BY DEF Call, Inv, TypeOK, DataTypeOK
  <2> QED BY <2>1, LabelType DEF Inv
<1>3. error' \in ErrorCode /\ hasErrors' \in BOOLEAN
  <2>1. CASE cur.label = NULL
    BY <1>1, <2>1 DEF Inv, TypeOK, DataTypeOK
  <2>2. CASE cur.label # NULL
    BY <1>1, <1>2, <2>2, LogType DEF Inv
  <2> QED BY <2>1, <2>2
<1>4. src' \in Sources /\ pos' \in 1..Len(src') + 1
      /\ pc' \in {"firstPass", "firstPassDone", "crashed"}
  BY AdvanceType DEF Inv, InstructionLine, AtUsableLine
<1>5. ic' \in Nat /\ ic' % BYTES_IN_CODE_LINE = 0
  BY DEF Inv, TypeOK, DataTypeOK, InstructionLine, BYTES_IN_CODE_LINE
<1>6. dc' \in Nat /\ dataImage' \in Seq(Char)
  BY DEF Inv, TypeOK, DataTypeOK, InstructionLine
<1>7. TableOK(symbolTable')
  BY <1>1, <1>2
<1> QED BY <1>3, <1>4, <1>5, <1>6, <1>7 DEF Inv, TypeOK, DataTypeOK, TableOK

(* The death of the process and the relocation keep the invariant.         *)
LEMMA LastStepKeepsInv == ASSUME Inv, CrashLine \/ EndFirstPass PROVE Inv'
<1>1. CASE CrashLine
  BY <1>1 DEF Inv, TypeOK, DataTypeOK, CrashLine
<1>2. CASE EndFirstPass
  <2>1. symbolTable' = Relocate(symbolTable, ic) /\ TableOK(symbolTable')
    BY <1>2, RelocateKeepsTable DEF EndFirstPass, Inv, TypeOK, DataTypeOK
  <2>2. UNCHANGED <<src, pos, ic, dc, dataImage, error, hasErrors>>
        /\ pc' = "firstPassDone"
    BY <1>2 DEF EndFirstPass
  <2> QED BY <2>1, <2>2 DEF Inv, TypeOK, DataTypeOK, TableOK
<1> QED BY <1>1, <1>2

-------------------------------------------------------------------------------
(* The invariant holds before the first line.                              *)
LEMMA InitIsInv == ASSUME Init PROVE Inv
<1>1. Len(src) \in Nat
  BY SourcesAssumption DEF Init
<1>2. TableOK(<<>>)
  BY EmptySeq DEF TableOK, OneDefinition
<1>3. <<>> \in Seq(Char)
  BY EmptySeq
<1>4. FIRST_MEMORY_ADDRESS \in Nat /\ FIRST_MEMORY_ADDRESS % BYTES_IN_CODE_LINE = 0
  BY DEF FIRST_MEMORY_ADDRESS, BYTES_IN_CODE_LINE
<1>5. TableOK(symbolTable) /\ symbolTable \in Seq(Symbol)
  BY <1>2 DEF Init, TableOK
<1>6. ic \in Nat /\ ic % BYTES_IN_CODE_LINE = 0
  BY <1>4 DEF Init
<1>7. dataImage \in Seq(Char) /\ error \in ErrorCode
  BY <1>3 DEF Init, ErrorCode
<1>8. src \in Sources /\ dc \in Nat /\ pc = "firstPass"
  BY DEF Init
<1>9. pos \in 1..Len(src) + 1
  BY <1>1 DEF Init
<1>10. hasErrors \in BOOLEAN
  BY Zenon DEF Init
<1> QED BY <1>5, <1>6, <1>7, <1>8, <1>9, <1>10 DEF Inv, TypeOK, DataTypeOK

(* Each line keeps it.                                                     *)
LEMMA Pass1KeepsInv == ASSUME Inv, Pass1 PROVE Inv'
BY SkipLineKeepsInv, DirectiveLineKeepsInv, EntryLineKeepsInv, ExternLineKeepsInv,
   InstructionLineKeepsInv, LastStepKeepsInv DEF Pass1

(* The invariant of the first pass, for any program.                       *)
THEOREM FirstPassInvariant == FirstPassSpec => []Inv
<1>1. Init => Inv
  BY InitIsInv
<1>2. Inv /\ [Pass1 \/ FirstPassOver]_firstPassVars => Inv'
  <2> SUFFICES ASSUME Inv, [Pass1 \/ FirstPassOver]_firstPassVars PROVE Inv'
    OBVIOUS
  <2>1. CASE UNCHANGED firstPassVars
    BY <2>1 DEF Inv, TypeOK, DataTypeOK, firstPassVars
  <2>2. CASE Pass1
    BY <2>2, Pass1KeepsInv
  <2> QED BY <2>1, <2>2 DEF FirstPassOver
<1> QED BY <1>1, <1>2, PTL DEF FirstPassSpec

(* The variables of firstPass keep their types and the table holds only    *)
(* symbols with a name that may be a label.                                *)
THEOREM FirstPassTypes == FirstPassSpec => []TypeOK
<1>1. Inv => TypeOK
  BY DEF Inv
<1> QED BY <1>1, FirstPassInvariant, PTL

(* addSymbol never gives a name a second definition: behind the first      *)
(* symbol with a label there are only .extern declarations of it.          *)
THEOREM FirstPassDefinesOnce == FirstPassSpec => []DefinedOnce
<1>1. Inv => DefinedOnce
  BY DEF Inv, TableOK, OneDefinition, DefinedOnce
<1> QED BY <1>1, FirstPassInvariant, PTL

(* No symbol is code, data and external at once in any combination, and    *)
(* -1 marks exactly the names that only .entry has mentioned.              *)
THEOREM FirstPassOneKind == FirstPassSpec => []OneKind
<1>1. Inv => OneKind
  <2> SUFFICES ASSUME Inv, NEW s \in Range(symbolTable) PROVE OneMeaning(s)
    BY DEF OneKind, OneMeaning
  <2> QED BY DEF Inv, TableOK, Range
<1> QED BY <1>1, FirstPassInvariant, PTL

-------------------------------------------------------------------------------
(* Behind a line there is one more instruction line if it is one.          *)
LEMMA NextCodeAddress ==
    ASSUME NEW i \in Nat \ {0}
    PROVE  /\ CodeAddress(i) \in Nat
           /\ CodeAddress(i + 1) =
                CodeAddress(i) + IF CountsAsCode(src[i]) THEN BYTES_IN_CODE_LINE ELSE 0
<1> DEFINE C(k) == {j \in 1..k - 1 : CountsAsCode(src[j])}
<1>1. IsFiniteSet(C(i))
  <2>1. IsFiniteSet(1..i - 1) /\ C(i) \subseteq 1..i - 1
    BY FS_Interval
  <2> QED BY <2>1, FS_Subset
<1>2. Cardinality(C(i)) \in Nat
  BY <1>1, FS_CardinalityType
<1>3. \A k : CodeAddress(k) = FIRST_MEMORY_ADDRESS + BYTES_IN_CODE_LINE * Cardinality(C(k))
  BY DEF CodeAddress
<1>4. Cardinality(C(i + 1)) = Cardinality(C(i)) + IF CountsAsCode(src[i]) THEN 1 ELSE 0
  <2>1. CASE CountsAsCode(src[i])
    <3>1. C(i + 1) = C(i) \cup {i} /\ i \notin C(i)
      BY <2>1
    <3> HIDE DEF C
    <3> QED BY <1>1, <2>1, <3>1, FS_AddElement
  <2>2. CASE ~CountsAsCode(src[i])
    <3>1. C(i + 1) = C(i)
      BY <2>2
    <3> HIDE DEF C
    <3> QED BY <1>2, <2>2, <3>1
  <2> QED BY <2>1, <2>2
<1> HIDE DEF C
<1> QED BY <1>2, <1>3, <1>4 DEF FIRST_MEMORY_ADDRESS, BYTES_IN_CODE_LINE

Counted == CodeCounted /\ dc >= Len(dataImage)

(* The counters agree with the program before the first line.              *)
LEMMA InitIsCounted == ASSUME Init PROVE Counted
<1>1. {j \in 1..1 - 1 : CountsAsCode(src[j])} = {}
  OBVIOUS
<1>2. CodeAddress(pos) = FIRST_MEMORY_ADDRESS
  BY <1>1, FS_EmptySet DEF Init, CodeAddress, FIRST_MEMORY_ADDRESS, BYTES_IN_CODE_LINE
<1> QED BY <1>2, EmptySeq DEF Init, Counted, CodeCounted

(* Each line moves ic by what it adds to the code.                         *)
LEMMA Pass1KeepsCount == ASSUME Inv, Counted, Pass1 PROVE Counted'
<1>1. ASSUME AtLine, Advance,
             ic' = ic + IF CountsAsCode(cur) THEN BYTES_IN_CODE_LINE ELSE 0
      PROVE  (ic = CodeAddress(pos))'
  <2>1. pos \in Nat \ {0} /\ pos' = pos + 1 /\ src' = src
    BY <1>1, LineAtPos DEF Inv, Advance
  <2>2. CodeAddress(pos)' = CodeAddress(pos + 1)
    BY <2>1 DEF CodeAddress
  <2> QED BY <1>1, <2>1, <2>2, NextCodeAddress DEF Counted, CodeCounted, cur
<1>2. CASE SkipLine
  <2>1. ~CountsAsCode(cur) /\ ic' = ic
    BY <1>2 DEF SkipLine, CountsAsCode, isInstruction
  <2> QED BY <1>1, <1>2, <2>1 DEF SkipLine, Counted, CodeCounted, Inv, TypeOK, DataTypeOK
<1>3. CASE DirectiveLine
  <2>1. ~CountsAsCode(cur) /\ ic' = ic
    BY <1>3 DEF DirectiveLine, CountsAsCode, isInstruction
  <2>2. (dc >= Len(dataImage))'
    <3>1. PICK labelled \in LabelOutcomes(cur.label, dc, "DATA") :
            \E encoded \in directiveToBytes(cur, labelled.ec) :
            \E appended \in addBytesToImage :
              DirectiveEffect(labelled, encoded, appended)
      BY <1>3 DEF DirectiveLine, DirectiveEffect, KeepBytes
    <3>2. PICK encoded \in directiveToBytes(cur, labelled.ec) :
            \E appended \in addBytesToImage :
              DirectiveEffect(labelled, encoded, appended)
      BY <3>1
    <3>3. labelled.ec \in ErrorCode
      <4>1. Call(dc, "DATA")
        BY DEF Call, Inv, TypeOK, DataTypeOK
      <4> QED BY <4>1, LabelType DEF Inv
    <3>4. encoded.bytes \in Seq(Char)
      BY <1>3, <3>3, LineAtPos, DirectiveBytes DEF DirectiveLine, AtUsableLine, Inv
    <3>5. /\ dc \in Nat /\ dataImage \in Seq(Char) /\ dc >= Len(dataImage)
          /\ \/ dc' = dc /\ dataImage' = dataImage
             \/ /\ dc' = dc + Len(encoded.bytes)
                /\ dataImage' \in {dataImage, dataImage \o encoded.bytes}
      BY <3>2 DEF DirectiveEffect, Counted, CodeCounted, Inv, TypeOK, DataTypeOK
    <3> QED BY <3>4, <3>5
  <2> QED BY <1>1, <1>3, <2>1, <2>2
          DEF DirectiveLine, AtUsableLine, Counted, CodeCounted, Inv, TypeOK,
              DataTypeOK
<1>4. CASE EntryLine \/ ExternLine
  <2>1. ~CountsAsCode(cur) /\ ic' = ic
    BY <1>4 DEF EntryLine, ExternLine, CountsAsCode, isInstruction
  <2> QED BY <1>1, <1>4, <2>1
          DEF EntryLine, ExternLine, AtUsableLine, Counted, CodeCounted, Inv,
              TypeOK, DataTypeOK
<1>5. CASE InstructionLine
  <2>1. CountsAsCode(cur) /\ ic' = ic + BYTES_IN_CODE_LINE
    BY <1>5 DEF InstructionLine, AtUsableLine, CountsAsCode
  <2> QED BY <1>1, <1>5, <2>1 DEF InstructionLine, AtUsableLine, Counted, CodeCounted
<1>6. CASE CrashLine \/ EndFirstPass
  BY <1>6 DEF CrashLine, EndFirstPass, Counted, CodeCounted, CodeAddress
<1> QED BY <1>2, <1>3, <1>4, <1>5, <1>6 DEF Pass1

(* The instruction counter counts the instruction lines, also those whose  *)
(* label is rejected; the data counter is never behind the data image.     *)
THEOREM FirstPassCountsCode ==
    FirstPassSpec => [](CodeCounted /\ dc >= Len(dataImage))
<1>1. Init => Counted
  BY InitIsCounted
<1>2. Inv /\ Counted /\ [Pass1 \/ FirstPassOver]_firstPassVars => Counted'
  <2> SUFFICES ASSUME Inv, Counted, [Pass1 \/ FirstPassOver]_firstPassVars
               PROVE  Counted'
    OBVIOUS
  <2>1. CASE UNCHANGED firstPassVars
    BY <2>1 DEF firstPassVars, Counted, CodeCounted, CodeAddress
  <2>2. CASE Pass1
    BY <2>2, Pass1KeepsCount
  <2> QED BY <2>1, <2>2 DEF FirstPassOver
<1> QED BY <1>1, <1>2, FirstPassInvariant, PTL DEF FirstPassSpec, Counted

-------------------------------------------------------------------------------
(* What the lines before a line put into the data image.                   *)

(* Line i did not end the process.                                         *)
Survived(i) ==
    src[i].error = GOOD /\ src[i].head \in {".entry", ".asciz"} => src[i].params # <<>>

(* A line defines so and so many bytes.                                    *)
LEMMA DataSizeType ==
    ASSUME src \in Sources, NEW i \in DOMAIN src, Survived(i)
    PROVE  DataSize(src[i]) \in Nat
<1>1. src[i] \in Line /\ WellFormed(src[i])
  BY SourcesAssumption
<1>2. src[i].params \in Seq(Operand)
  BY <1>1 DEF Line
<1>3. CASE src[i].error # GOOD \/ ~isLineDirective(src[i])
  BY <1>3 DEF DataSize
<1>4. CASE src[i].error = GOOD /\ src[i].head = ".asciz"
  <2>1. Len(src[i].params) = 1 /\ src[i].params[1].kind = "str"
    BY <1>1, <1>4 DEF Survived, WellFormed
  <2>2. src[i].params[1] \in Operand
    BY <1>2, <2>1
  <2>3. src[i].params[1].val \in Seq(Char)
    BY <2>1, <2>2 DEF Operand
  <2> QED BY <1>4, <2>3 DEF DataSize, isLineDirective, DataDirectives
<1>5. CASE src[i].error = GOOD /\ isLineDirective(src[i]) /\ src[i].head # ".asciz"
  <2>1. directiveTypeToSize(src[i].head) \in Nat
    BY <1>5 DEF isLineDirective, DataDirectives, directiveTypeToSize
  <2>2. Len(src[i].params) \in Nat
    BY <1>2
  <2>3. DataSize(src[i]) = directiveTypeToSize(src[i].head) * Len(src[i].params)
    BY <1>5 DEF DataSize
  <2> HIDE DEF directiveTypeToSize
  <2> QED BY <2>1, <2>2, <2>3
<1> QED BY <1>3, <1>4, <1>5

(* The data of a line stands behind that of the lines before it.           *)
LEMMA NextDataOffset ==
    ASSUME NEW i \in Nat \ {0}, \A j \in 1..i : DataSize(src[j]) \in Nat
    PROVE  /\ DataOffset(i) \in Nat
           /\ DataOffset(i + 1) = DataOffset(i) + DataSize(src[i])
<1> DEFINE place(j) == {j} \X (1..DataSize(src[j]))
           places(k) == {place(j) : j \in 1..k - 1}
           U(k) == UNION places(k)
<1>1. ASSUME NEW j \in 1..i
      PROVE  IsFiniteSet(place(j)) /\ Cardinality(place(j)) = DataSize(src[j])
  <2>1. IsFiniteSet({j}) /\ Cardinality({j}) = 1
    BY FS_Singleton
  <2>2. IsFiniteSet(1..DataSize(src[j])) /\ Cardinality(1..DataSize(src[j])) = DataSize(src[j])
    BY FS_Interval
  <2>3. /\ IsFiniteSet(place(j))
        /\ Cardinality(place(j)) = Cardinality({j}) * Cardinality(1..DataSize(src[j]))
    BY <2>1, <2>2, FS_Product
  <2>4. Cardinality(place(j)) = 1 * DataSize(src[j])
    BY <2>1, <2>2, <2>3
  <2> QED BY <2>3, <2>4
<1>2. IsFiniteSet(U(i))
  <2> DEFINE f == [j \in 1..i - 1 |-> place(j)]
  <2>1. f \in Surjection(1..i - 1, places(i))
    BY DEF Surjection
  <2>2. IsFiniteSet(1..i - 1)
    BY FS_Interval
  <2>3. IsFiniteSet(places(i))
    BY <2>1, <2>2, FS_Surjection
  <2>4. \A T \in places(i) : IsFiniteSet(T)
    BY <1>1
  <2> HIDE DEF places
  <2> QED BY <2>3, <2>4, FS_UNION
<1>3. \A k : DataOffset(k) = Cardinality(U(k))
  BY DEF DataOffset
<1>4. U(i + 1) = U(i) \cup place(i) /\ U(i) \cap place(i) = {}
  <2>1. 1..(i + 1) - 1 = (1..i - 1) \cup {i}
    OBVIOUS
  <2>2. U(i + 1) = U(i) \cup place(i)
    BY <2>1
  <2>3. \A p \in U(i) : p[1] # i
    OBVIOUS
  <2>4. \A p \in place(i) : p[1] = i
    OBVIOUS
  <2> QED BY <2>2, <2>3, <2>4
<1> HIDE DEF U, place
<1>5. Cardinality(U(i) \cup place(i))
        = Cardinality(U(i)) + Cardinality(place(i)) - Cardinality(U(i) \cap place(i))
  BY <1>1, <1>2, FS_Union
<1>6. Cardinality(U(i) \cap place(i)) = 0
  BY <1>4, FS_EmptySet
<1>7. Cardinality(U(i)) \in Nat
  BY <1>2, FS_CardinalityType
<1>8. DataSize(src[i]) \in Nat /\ Cardinality(place(i)) = DataSize(src[i])
  BY <1>1
<1>9. DataOffset(i) = Cardinality(U(i))
  BY <1>3
<1>10. DataOffset(i + 1) = Cardinality(U(i) \cup place(i))
  BY <1>3, <1>4
<1> HIDE DEF places
<1>11. DataOffset(i + 1) = Cardinality(U(i)) + DataSize(src[i]) - 0
  BY <1>5, <1>6, <1>8, <1>10
<1> QED BY <1>7, <1>8, <1>9, <1>11

-------------------------------------------------------------------------------
(* What a line declares: with .entry, with .extern, or as its label.       *)
Declares(i, flag, n) ==
    /\ src[i].error = GOOD
    /\ \/ flag = "ENTRY" /\ src[i].head = ".entry" /\ n = LabelOf(src[i].params[1])
       \/ flag = "EXTERNAL" /\ src[i].head = ".extern" /\ n = LabelOf(src[i].params[1])
       \/ flag = "DATA" /\ isLineDirective(src[i]) /\ n = src[i].label /\ n # NULL
       \/ flag = "CODE" /\ isInstruction(src[i]) /\ n = src[i].label /\ n # NULL

(* What a line declares is in the table t.                                 *)
Entered(t, i, moved) ==
    \A flag, n : Declares(i, flag, n) =>
        /\ Marked(t, n, flag)
        /\ flag = "DATA" => Resolves(t, n, "DATA", DataOffset(i) + moved)
        /\ flag = "CODE" => Resolves(t, n, "CODE", CodeAddress(i))

(* What is in the table is declared by a line before line p.               *)
Justified(t, p) ==
    \A n \in Names, flag \in Flags :
        Marked(t, n, flag) => \E i \in 1..p - 1 : Declares(i, flag, n)

(* The invariant behind DataCounted and DeclarationsResolved: the table    *)
(* has what the lines declared, and nothing else.                          *)
Declared ==
    /\ \A i \in 1..pos - 1 : Survived(i)
    /\ DataCounted
    /\ ~hasErrors => \A i \in 1..pos - 1 : Entered(symbolTable, i, IF relocated THEN ic ELSE 0)
    /\ Justified(symbolTable, pos)

-------------------------------------------------------------------------------
(* What any line the loop gets past does to the table and the counters.    *)

EntersNothing ==
    symbolTable' = symbolTable /\ (hasErrors' \/ \A f, n : ~Declares(pos, f, n))

EntersSymbol(label, address, flag, r) ==
    /\ Call(address, flag)
    /\ r \in AddSymbolOutcomes(symbolTable, label, address, flag)
    /\ flag = "DATA" => address = dc
    /\ flag = "CODE" => address = ic
    /\ symbolTable' = r.table
    /\ r.ec # GOOD => hasErrors'
    /\ r.ec = GOOD => Declares(pos, flag, label)
    /\ \A f, n : Declares(pos, f, n) => f = flag /\ n = label

LineEffect ==
    /\ AtLine
    /\ Advance
    /\ Survived(pos)
    /\ EntersNothing \/ \E label, address, flag, r : EntersSymbol(label, address, flag, r)
    /\ hasErrors => hasErrors'
    /\ ~hasErrors' => /\ dc' = dc + DataSize(cur)
                      /\ Len(dataImage') = Len(dataImage) + DataSize(cur)

(* processDirective is a line of that kind.                                *)
LEMMA DirectiveLineEffect == ASSUME Inv, DirectiveLine PROVE LineEffect
<1>1. /\ cur \in Line /\ WellFormed(cur) /\ cur.error = GOOD /\ AtLine /\ Advance
      /\ isLineDirective(cur) /\ (cur.head = ".asciz" => cur.params # <<>>)
  BY LineAtPos DEF Inv, DirectiveLine, AtUsableLine
<1>2. PICK labelled \in LabelOutcomes(cur.label, dc, "DATA") :
        \E encoded \in directiveToBytes(cur, labelled.ec) :
        \E appended \in addBytesToImage :
          DirectiveEffect(labelled, encoded, appended)
  BY DEF DirectiveLine, DirectiveEffect, KeepBytes
<1>3. PICK encoded \in directiveToBytes(cur, labelled.ec) :
        \E appended \in addBytesToImage :
          DirectiveEffect(labelled, encoded, appended)
  BY <1>2
<1>4. PICK appended \in addBytesToImage : DirectiveEffect(labelled, encoded, appended)
  BY <1>3
<1>5. Call(dc, "DATA") /\ dc \in Nat /\ dataImage \in Seq(Char)
  BY DEF Call, Inv, TypeOK, DataTypeOK
<1>6. labelled.ec \in ErrorCode
  BY <1>5, LabelType DEF Inv
<1>7. encoded.bytes \in Seq(Char)
      /\ (encoded.ec = GOOD => Len(encoded.bytes) = DataSize(cur))
  BY <1>1, <1>6, DirectiveBytes DEF DataSize
<1>8. ~hasErrors' => encoded.ec = GOOD /\ appended = GOOD /\ labelled.ec = GOOD
  <2>1. ~hasErrors' => encoded.ec = GOOD /\ appended = GOOD
    BY <1>4 DEF DirectiveEffect, Log
  <2> QED BY <2>1, DirectiveBytesNeedLabel
<1>9. ~hasErrors' => /\ dc' = dc + DataSize(cur)
                     /\ Len(dataImage') = Len(dataImage) + DataSize(cur)
  <2> SUFFICES ASSUME ~hasErrors'
               PROVE  /\ dc' = dc + DataSize(cur)
                      /\ Len(dataImage') = Len(dataImage) + DataSize(cur)
    OBVIOUS
  <2>1. dc' = dc + Len(encoded.bytes) /\ dataImage' = dataImage \o encoded.bytes
    BY <1>4, <1>8 DEF DirectiveEffect
  <2>2. Len(dataImage \o encoded.bytes) = Len(dataImage) + Len(encoded.bytes)
    BY <1>5, <1>7
  <2> QED BY <1>7, <1>8, <2>1, <2>2
<1>10. hasErrors => hasErrors'
  BY <1>4 DEF DirectiveEffect, Log
<1>11. \A f, n : Declares(pos, f, n) <=> f = "DATA" /\ n = cur.label /\ n # NULL
  BY <1>1 DEF Declares, cur, isLineDirective, isInstruction, DataDirectives
<1>12. EntersNothing \/ EntersSymbol(cur.label, dc, "DATA", labelled)
  <2>1. symbolTable' = labelled.table
    BY <1>4 DEF DirectiveEffect
  <2>2. CASE cur.label = NULL
    BY <1>11, <2>1, <2>2 DEF LabelOutcomes, EntersNothing
  <2>3. CASE cur.label # NULL
    BY <1>5, <1>8, <1>11, <2>1, <2>3 DEF LabelOutcomes, EntersSymbol
  <2> QED BY <2>2, <2>3
<1>13. Survived(pos)
  BY <1>1 DEF Survived, cur, isLineDirective, DataDirectives
<1> QED BY <1>1, <1>9, <1>10, <1>12, <1>13 DEF LineEffect

(* A line that adds no data adds none.                                     *)
LEMMA NoData ==
    ASSUME Inv, UNCHANGED <<dc, dataImage>>, DataSize(cur) = 0
    PROVE  dc' = dc + DataSize(cur) /\ Len(dataImage') = Len(dataImage) + DataSize(cur)
BY DEF Inv, TypeOK, DataTypeOK

(* So are the four other kinds of line.                                    *)
LEMMA OtherLineEffect ==
    ASSUME Inv, SkipLine \/ EntryLine \/ ExternLine \/ InstructionLine
    PROVE  LineEffect
<1>1. AtLine /\ Advance /\ UNCHANGED <<dc, dataImage>>
  BY DEF SkipLine, EntryLine, ExternLine, InstructionLine, AtUsableLine
<1>2. cur = src[pos] /\ hasErrors \in BOOLEAN
  BY DEF cur, Inv, TypeOK, DataTypeOK
<1>3. CASE SkipLine
  <2>1. \A f, n : ~Declares(pos, f, n)
    BY <1>2, <1>3, MnemonicAssumption
       DEF SkipLine, Declares, isLineRelevant, isLineDirective, isInstruction, KnownMnemonics
  <2>2. DataSize(cur) = 0 /\ Survived(pos)
    BY <1>2, <1>3, MnemonicAssumption
       DEF SkipLine, DataSize, Survived, isLineRelevant, isLineDirective, KnownMnemonics,
           DataDirectives
  <2> QED BY <1>1, <1>3, <2>1, <2>2, NoData DEF SkipLine, LineEffect, EntersNothing
<1>4. CASE EntryLine
  <2>1. PICK r \in AddSymbolOutcomes(symbolTable, LabelOf(cur.params[1]), -1, "ENTRY") :
          symbolTable' = r.table /\ Log(r.ec)
    BY <1>4 DEF EntryLine
  <2>2. cur.head = ".entry" /\ cur.error = GOOD /\ cur.params # <<>>
    BY <1>4 DEF EntryLine, AtUsableLine
  <2>3. \A f, n : Declares(pos, f, n) <=> f = "ENTRY" /\ n = LabelOf(cur.params[1])
    BY <1>2, <2>2 DEF Declares, isLineDirective, isInstruction, DataDirectives
  <2>4. EntersSymbol(LabelOf(cur.params[1]), -1, "ENTRY", r)
    BY <2>1, <2>3 DEF EntersSymbol, Call, Log
  <2>5. DataSize(cur) = 0 /\ Survived(pos)
    BY <1>2, <2>2 DEF DataSize, Survived, isLineDirective, DataDirectives
  <2>6. hasErrors => hasErrors'
    BY <2>1 DEF Log
  <2> QED BY <1>1, <2>4, <2>5, <2>6, NoData DEF LineEffect
<1>5. CASE ExternLine
  <2>1. PICK r \in processExtern(cur.params) : symbolTable' = r.table /\ Log(r.ec)
    BY <1>5 DEF ExternLine
  <2>2. cur.head = ".extern" /\ cur.error = GOOD
    BY <1>5 DEF ExternLine, AtUsableLine
  <2>3. \A f, n : Declares(pos, f, n) <=> f = "EXTERNAL" /\ n = LabelOf(cur.params[1])
    BY <1>2, <2>2 DEF Declares, isLineDirective, isInstruction, DataDirectives
  <2>4. EntersNothing \/ EntersSymbol(LabelOf(cur.params[1]), 0, "EXTERNAL", r)
    <3>1. \/ r.table = symbolTable /\ r.ec # GOOD
          \/ r \in AddSymbolOutcomes(symbolTable, LabelOf(cur.params[1]), 0, "EXTERNAL")
      BY <2>1 DEF processExtern, GOOD
    <3> QED BY <2>1, <2>3, <3>1 DEF EntersSymbol, EntersNothing, Call, Log
  <2>5. DataSize(cur) = 0 /\ Survived(pos)
    BY <1>2, <2>2 DEF DataSize, Survived, isLineDirective, DataDirectives
  <2>6. hasErrors => hasErrors'
    BY <2>1 DEF Log
  <2> QED BY <1>1, <2>4, <2>5, <2>6, NoData DEF LineEffect
<1>6. CASE InstructionLine
  <2>1. PICK r \in LabelOutcomes(cur.label, ic, "CODE") :
          /\ symbolTable' = r.table
          /\ IF cur.label = NULL THEN UNCHANGED <<error, hasErrors>> ELSE Log(r.ec)
    BY <1>6 DEF InstructionLine
  <2>2. isInstruction(cur) /\ cur.error = GOOD
    BY <1>6 DEF InstructionLine, AtUsableLine
  <2>3. \A f, n : Declares(pos, f, n) <=> f = "CODE" /\ n = cur.label /\ n # NULL
    BY <1>2, <2>2 DEF Declares, isLineDirective, isInstruction
  <2>4. EntersNothing \/ EntersSymbol(cur.label, ic, "CODE", r)
    <3>1. CASE cur.label = NULL
      BY <2>1, <2>3, <3>1 DEF LabelOutcomes, EntersNothing
    <3>2. CASE cur.label # NULL
      <4>1. Call(ic, "CODE")
        BY DEF Call, Inv, TypeOK, DataTypeOK
      <4>2. r \in AddSymbolOutcomes(symbolTable, cur.label, ic, "CODE")
        BY <3>2 DEF LabelOutcomes
      <4>3. symbolTable' = r.table /\ (r.ec # GOOD => hasErrors')
        BY <2>1, <3>2 DEF Log
      <4> QED BY <2>3, <3>2, <4>1, <4>2, <4>3 DEF EntersSymbol
    <3> QED BY <3>1, <3>2
  <2>5. DataSize(cur) = 0 /\ Survived(pos)
    BY <1>2, <2>2 DEF DataSize, Survived, isInstruction, DataDirectives, isLineDirective
  <2>6. hasErrors => hasErrors'
    BY <2>1, Zenon DEF Log
  <2> QED BY <1>1, <2>4, <2>5, <2>6, NoData DEF LineEffect
<1> QED BY <1>3, <1>4, <1>5, <1>6

(* What was in the table stays, and what the line declares comes in.       *)
LEMMA LineEntersItself ==
    ASSUME Inv, Counted, Declared, LineEffect, ~hasErrors', NEW i \in 1..pos
    PROVE  Entered(symbolTable', i, 0)
<1>1. ~hasErrors /\ AtLine /\ ~relocated /\ pos \in Nat
  BY LineAtPos DEF LineEffect, AtLine, relocated, Inv
<1>2. TableOK(symbolTable)
  BY DEF Inv
<1>3. CodeAddress(i) \in Nat /\ DataOffset(i) \in Nat
  <2>1. i \in Nat \ {0} /\ \A j \in 1..i : j \in DOMAIN src /\ Survived(j)
    BY <1>1, LineAtPos DEF LineEffect, Declared, Inv, TypeOK, DataTypeOK
  <2>2. src \in Sources
    BY DEF Inv, TypeOK, DataTypeOK
  <2> QED BY <2>1, <2>2, NextCodeAddress, NextDataOffset, DataSizeType
<1>4. CASE EntersNothing
  <2>1. i # pos => Entered(symbolTable, i, 0)
    BY <1>1 DEF Declared
  <2>2. \A f, n : ~Declares(pos, f, n)
    BY <1>4 DEF EntersNothing
  <2> QED BY <1>4, <2>1, <2>2 DEF EntersNothing, Entered
<1>5. ASSUME NEW label, NEW address, NEW flag, NEW r, EntersSymbol(label, address, flag, r)
      PROVE  Entered(symbolTable', i, 0)
  <2>1. /\ Call(address, flag) /\ r \in AddSymbolOutcomes(symbolTable, label, address, flag)
        /\ r.ec = GOOD /\ symbolTable' = r.table
    BY <1>5 DEF EntersSymbol
  <2>2. CASE i = pos
    <3>1. \A f, n : Declares(i, f, n) => f = flag /\ n = label
      BY <1>5, <2>2 DEF EntersSymbol
    <3>2. Marked(r.table, label, flag)
          /\ (flag \in {"DATA", "CODE"} => Resolves(r.table, label, flag, address))
      BY <1>2, <2>1, AddSymbolEnters
    <3>3. /\ flag = "DATA" => address = DataOffset(i) + 0
          /\ flag = "CODE" => address = CodeAddress(i)
      BY <1>1, <1>3, <1>5, <2>2 DEF EntersSymbol, Declared, DataCounted, Counted, CodeCounted
    <3> QED BY <2>1, <3>1, <3>2, <3>3 DEF Entered
  <2>3. CASE i # pos
    <3>1. Entered(symbolTable, i, 0)
      BY <1>1, <2>3 DEF Declared
    <3>2. \A n, f : Marked(symbolTable, n, f) => Marked(r.table, n, f)
      BY <1>2, <2>1, AddSymbolKeepsEntered
    <3>3. \A n, a : a \in Nat =>
            /\ Resolves(symbolTable, n, "DATA", a) => Resolves(r.table, n, "DATA", a)
            /\ Resolves(symbolTable, n, "CODE", a) => Resolves(r.table, n, "CODE", a)
      BY <1>2, <2>1, AddSymbolKeepsEntered
    <3>4. DataOffset(i) + 0 \in Nat
      BY <1>3
    <3> QED BY <1>3, <2>1, <3>1, <3>2, <3>3, <3>4 DEF Entered
  <2> QED BY <2>2, <2>3
<1> QED BY <1>4, <1>5 DEF LineEffect

(* Nothing else comes in.                                                  *)
LEMMA LineIsJustified ==
    ASSUME Inv, Declared, LineEffect
    PROVE  Justified(symbolTable', pos + 1)
<1>1. pos \in Nat \ {0} /\ TableOK(symbolTable)
  BY LineAtPos DEF LineEffect, Inv
<1>2. ASSUME NEW n \in Names, NEW f \in Flags, Marked(symbolTable', n, f)
      PROVE  \E i \in 1..pos : Declares(i, f, n)
  <2>1. Marked(symbolTable, n, f) \/ Declares(pos, f, n)
    <3>1. CASE EntersNothing
      BY <1>2, <3>1 DEF EntersNothing
    <3>2. ASSUME NEW label, NEW address, NEW flag, NEW r,
                 EntersSymbol(label, address, flag, r)
          PROVE  Marked(symbolTable, n, f) \/ Declares(pos, f, n)
      BY <1>1, <1>2, <3>2, AddSymbolEntersNoMore DEF EntersSymbol
    <3> QED BY <3>1, <3>2 DEF LineEffect
  <2>2. Marked(symbolTable, n, f) => \E i \in 1..pos - 1 : Declares(i, f, n)
    BY DEF Declared, Justified
  <2> QED BY <1>1, <2>1, <2>2
<1>3. 1..(pos + 1) - 1 = 1..pos
  BY <1>1
<1> QED BY <1>2, <1>3 DEF Justified

(* What a line declares, and where, is read off the program.               *)
LEMMA SameProgram ==
    ASSUME src' = src
    PROVE  /\ \A i, f, n : Declares(i, f, n)' <=> Declares(i, f, n)
           /\ \A i : DataOffset(i)' = DataOffset(i) /\ CodeAddress(i)' = CodeAddress(i)
           /\ \A i : Survived(i)' <=> Survived(i)
BY DEF Declares, DataOffset, CodeAddress, Survived

(* A line keeps the invariant.                                             *)
LEMMA LineKeepsDeclared ==
    ASSUME Inv, Counted, Counted', Declared, LineEffect
    PROVE  Declared'
<1>1. /\ pos \in Nat \ {0} /\ pos' = pos + 1 /\ src' = src /\ pc' = pc
      /\ ~relocated /\ ~relocated' /\ pos \in DOMAIN src /\ src \in Sources
  BY LineAtPos DEF LineEffect, Advance, AtLine, relocated, Inv, TypeOK, DataTypeOK
<1>2. \A i \in 1..pos : Survived(i)
  BY <1>1 DEF Declared, LineEffect
<1>3. (\A i \in 1..pos - 1 : Survived(i))'
  BY <1>1, <1>2 DEF Survived
<1>4. (~hasErrors => \A i \in 1..pos - 1 : Entered(symbolTable, i, IF relocated THEN ic ELSE 0))'
  <2> SUFFICES ASSUME ~hasErrors', NEW i \in 1..pos PROVE Entered(symbolTable, i, 0)'
    BY <1>1
  <2>1. Entered(symbolTable', i, 0)
    BY LineEntersItself
  <2> QED BY <1>1, <2>1, SameProgram DEF Entered
<1>5. Justified(symbolTable, pos)'
  BY <1>1, LineIsJustified, SameProgram DEF Justified
<1>6. (~hasErrors => dc = Len(dataImage) /\ dc = DataOffset(pos))'
  <2> SUFFICES ASSUME ~hasErrors'
               PROVE  (dc = Len(dataImage) /\ dc = DataOffset(pos))'
    OBVIOUS
  <2>1. dc = Len(dataImage) /\ dc = DataOffset(pos)
    BY DEF Declared, DataCounted, LineEffect
  <2>2. dc' = dc + DataSize(cur) /\ Len(dataImage') = Len(dataImage) + DataSize(cur)
    BY DEF LineEffect
  <2>3. \A j \in 1..pos : DataSize(src[j]) \in Nat
    BY <1>1, <1>2, LineAtPos, DataSizeType DEF LineEffect, Inv
  <2>4. DataOffset(pos + 1) = DataOffset(pos) + DataSize(src[pos])
    BY <1>1, <2>3, NextDataOffset
  <2>5. DataOffset(pos)' = DataOffset(pos + 1)
    BY <1>1 DEF DataOffset
  <2> QED BY <2>1, <2>2, <2>4, <2>5 DEF cur
<1> QED BY <1>3, <1>4, <1>5, <1>6 DEF Declared, DataCounted, Counted

(* The relocation keeps it.                                                *)
LEMMA EndKeepsDeclared ==
    ASSUME Inv, Declared, EndFirstPass
    PROVE  Declared'
<1>1. /\ UNCHANGED <<src, pos, ic, dc, dataImage, error, hasErrors>>
      /\ symbolTable' = Relocate(symbolTable, ic)
      /\ ~relocated /\ relocated'
      /\ TableOK(symbolTable) /\ ic \in Nat
  BY DEF EndFirstPass, relocated, Inv, TypeOK, DataTypeOK
<1>2. \A n, f : Marked(symbolTable', n, f) <=> Marked(symbolTable, n, f)
  BY <1>1, RelocateMoves
<1>3. (~hasErrors => \A i \in 1..pos - 1 : Entered(symbolTable, i, IF relocated THEN ic ELSE 0))'
  <2> SUFFICES ASSUME ~hasErrors, NEW i \in 1..pos - 1
               PROVE  Entered(symbolTable', i, ic)
    <3>1. \A i \in 1..pos - 1 :
            Entered(symbolTable', i, ic) => Entered(symbolTable, i, ic)'
      BY <1>1, SameProgram DEF Entered
    <3> QED BY <1>1, <3>1
  <2>1. Entered(symbolTable, i, 0)
    BY <1>1 DEF Declared
  <2>2. CodeAddress(i) \in Nat /\ DataOffset(i) \in Nat
    <3>1. i \in Nat \ {0} /\ src \in Sources /\ \A j \in 1..i : j \in DOMAIN src /\ Survived(j)
      BY SourcesAssumption DEF Declared, Inv, TypeOK, DataTypeOK
    <3> QED BY <3>1, NextCodeAddress, NextDataOffset, DataSizeType
  <2>3. \A n, a : a \in Nat =>
          /\ Resolves(symbolTable, n, "DATA", a) => Resolves(symbolTable', n, "DATA", a + ic)
          /\ Resolves(symbolTable, n, "CODE", a) => Resolves(symbolTable', n, "CODE", a)
    BY <1>1, RelocateMoves
  <2>4. DataOffset(i) + 0 = DataOffset(i)
    BY <2>2
  <2> QED BY <1>2, <2>1, <2>2, <2>3, <2>4 DEF Entered
<1>4. Justified(symbolTable, pos)'
  BY <1>1, <1>2, SameProgram DEF Declared, Justified
<1>5. (\A i \in 1..pos - 1 : Survived(i))' /\ DataCounted'
  BY <1>1, SameProgram DEF Declared, DataCounted
<1> QED BY <1>3, <1>4, <1>5 DEF Declared

(* So does a step that changes none of it.                                 *)
LEMMA StillDeclared ==
    ASSUME Declared, UNCHANGED <<src, pos, symbolTable, ic, dc, dataImage, hasErrors>>,
           relocated' <=> relocated
    PROVE  Declared'
<1>1. (\A i \in 1..pos - 1 : Survived(i))' /\ DataCounted'
  BY SameProgram DEF Declared, DataCounted
<1>2. (~hasErrors => \A i \in 1..pos - 1 : Entered(symbolTable, i, IF relocated THEN ic ELSE 0))'
  <2> SUFFICES ASSUME ~hasErrors, NEW i \in 1..pos - 1
               PROVE  Entered(symbolTable, i, IF relocated THEN ic ELSE 0)'
    OBVIOUS
  <2>1. Entered(symbolTable, i, IF relocated THEN ic ELSE 0)
    BY DEF Declared
  <2> QED BY <2>1, SameProgram DEF Entered
<1>3. Justified(symbolTable, pos)'
  BY SameProgram DEF Declared, Justified
<1> QED BY <1>1, <1>2, <1>3 DEF Declared

(* The table is empty before the first line.                               *)
LEMMA InitIsDeclared == ASSUME Init PROVE Declared
<1>1. 1..pos - 1 = {}
  BY DEF Init
<1>2. DataOffset(pos) = 0
  <2>1. {{j} \X (1..DataSize(src[j])) : j \in 1..pos - 1} = {}
    BY <1>1
  <2>2. UNION {{j} \X (1..DataSize(src[j])) : j \in 1..pos - 1} = {}
    BY <2>1
  <2> QED BY <2>2, FS_EmptySet DEF DataOffset
<1>3. Justified(symbolTable, pos)
  BY EmptySeq DEF Init, Justified, Marked
<1> QED BY <1>1, <1>2, <1>3, EmptySeq DEF Init, Declared, DataCounted

(* Every step of the first pass keeps it.                                  *)
LEMMA Pass1KeepsDeclared ==
    ASSUME Inv, Counted, Declared, Pass1
    PROVE  Declared'
<1>1. CASE CrashLine
  <2>1. UNCHANGED <<src, pos, symbolTable, ic, dc, dataImage, error, hasErrors>>
        /\ ~relocated /\ ~relocated'
    BY <1>1 DEF CrashLine, AtUsableLine, AtLine, relocated
  <2> QED BY <2>1, StillDeclared
<1>2. Counted'
  BY Pass1KeepsCount
<1> QED BY <1>1, <1>2, DirectiveLineEffect, OtherLineEffect, LineKeepsDeclared, EndKeepsDeclared
        DEF Pass1

(* The invariant, for any program.                                         *)
THEOREM FirstPassDeclares == FirstPassSpec => []Declared
<1>1. Init => Declared
  BY InitIsDeclared
<1>2. Inv /\ Counted /\ Declared /\ [Pass1 \/ FirstPassOver]_firstPassVars => Declared'
  <2> SUFFICES ASSUME Inv, Counted, Declared, [Pass1 \/ FirstPassOver]_firstPassVars
               PROVE  Declared'
    OBVIOUS
  <2>1. CASE UNCHANGED firstPassVars
    BY <2>1, StillDeclared DEF firstPassVars, relocated
  <2>2. CASE Pass1
    BY <2>2, Pass1KeepsDeclared
  <2> QED BY <2>1, <2>2 DEF FirstPassOver
<1>3. FirstPassSpec => []Counted
  BY FirstPassCountsCode, PTL DEF Counted
<1> QED BY <1>1, <1>2, <1>3, FirstPassInvariant, PTL DEF FirstPassSpec

(* dc is never behind the data image, and without an error both have what  *)
(* the directives read so far define, byte for byte.                       *)
THEOREM FirstPassCountsData == FirstPassSpec => []DataCounted
<1>1. Declared => DataCounted
  BY DEF Declared
<1> QED BY <1>1, FirstPassDeclares, PTL

(* Without an error every .entry, .extern and label read so far is in the  *)
(* table with the address its place in the program gives it.               *)
THEOREM FirstPassResolvesDeclarations == FirstPassSpec => []DeclarationsResolved
<1>1. Inv /\ Declared => DeclarationsResolved
  <2> SUFFICES ASSUME Inv, Declared, ~hasErrors, NEW i \in 1..pos - 1, NEW moved,
                      Entered(symbolTable, i, moved)
               PROVE  DeclarationResolved(i, moved)
    BY DEF Declared, DeclarationsResolved
  <2>1. ASSUME NEW n, NEW flag, Declares(i, flag, n)
        PROVE  \E s \in Range(symbolTable) :
                 /\ s.label = n
                 /\ flag \in s.attributes
                 /\ flag = "EXTERNAL" => s.address = 0
    <3>1. PICK k \in DOMAIN symbolTable :
            symbolTable[k].label = n /\ flag \in symbolTable[k].attributes
      BY <2>1 DEF Entered, Marked
    <3>2. OneMeaning(symbolTable[k])
      BY <3>1 DEF Inv, TableOK
    <3> QED BY <3>1, <3>2 DEF Range, OneMeaning
  <2>2. ASSUME NEW n, NEW flag \in {"DATA", "CODE"}, Declares(i, flag, n)
        PROVE  Resolves(symbolTable, n, flag,
                        IF flag = "DATA" THEN DataOffset(i) + moved ELSE CodeAddress(i))
    BY <2>2 DEF Entered
  <2> QED BY <2>1, <2>2 DEF DeclarationResolved, Declares, Resolves
<1> QED BY <1>1, FirstPassInvariant, FirstPassDeclares, PTL
===============================================================================
