---------------------------- MODULE EncodingProofs ----------------------------
(***************************************************************************)
(* The encoders return what the source says, for every line, symbol table  *)
(* and address.                                                            *)
(***************************************************************************)
EXTENDS Encoding, OperatorProofs

(* What a call has returned by the time it is looked at.                   *)
CallInv ==
    /\ line \in DirectiveLines \cup InstructionLines
    /\ ic \in Addresses
    /\ \/ result = Pending
       \/ isLineDirective(line) /\ result \in directiveToBytes(line, GOOD)
       \/ isInstruction(line) /\ result = parseInstruction(line, Table, ic)

(* The calls establish it.                                                 *)
THEOREM EncodersReturn == Spec => []CallInv
<1>1. Init => CallInv
  BY DEF Init, CallInv
<1>2. CallInv /\ [CallDirective \/ CallInstruction \/ Returned]_<<line, ic, result>> => CallInv'
  BY DEF CallInv, CallDirective, CallInstruction, Returned
<1> QED BY <1>1, <1>2, PTL DEF Spec

-------------------------------------------------------------------------------
(* The operands of a mnemonic.                                             *)

(* The symbols with a name are external if the first one is.               *)
LEMMA NamedSymbols ==
    ASSUME NEW n
    PROVE  LET k == findSymbolInTable(Table, n)
           IN  /\ k # 0 <=> \E s \in Range(Table) : s.label = n
               /\ k # 0 /\ "EXTERNAL" \notin Table[k].attributes <=>
                    \E s \in Range(Table) : s.label = n /\ "EXTERNAL" \notin s.attributes
<1> DEFINE k == findSymbolInTable(Table, n)
<1>1. Range(Table) = {Table[i] : i \in DOMAIN Table}
  BY DEF Range
<1>2. /\ k = 0 <=> \A i \in DOMAIN Table : Table[i].label # n
      /\ k # 0 => /\ k \in DOMAIN Table /\ Table[k].label = n
                  /\ \A j \in DOMAIN Table : Table[j].label = n => k <= j
  BY EncodingAssumption, FindIsFirst
<1>3. \A i, j \in DOMAIN Table :
        i < j /\ Table[i].label = Table[j].label => Table[j].attributes = {"EXTERNAL"}
  BY EncodingAssumption
<1>4. DOMAIN Table \subseteq Int
  BY EncodingAssumption
<1> HIDE DEF k
<1>5. ASSUME NEW j \in DOMAIN Table, Table[j].label = n, "EXTERNAL" \notin Table[j].attributes
      PROVE  k = j
  BY <1>2, <1>3, <1>4, <1>5
<1> QED BY <1>1, <1>2, <1>5 DEF k

(* The checks of an operand are those of the specification.                *)
LEMMA OperandChecks ==
    ASSUME NEW p \in Seq(Operand)
    PROVE  /\ \A k \in {1, 2, 3} : RegisterAt(p, k) <=> k <= Len(p) /\ IsReg(p[k])
           /\ NumberAt(p, 2) <=> 2 <= Len(p) /\ IsImmed(p[2])
           /\ \A k \in {1, 3} :
                LET f == findSymbolInTable(Table, p[k].val)
                IN  /\ LabelAt(p, k) /\ f # 0 <=> k <= Len(p) /\ IsLabel(p[k])
                    /\ LabelAt(p, k) /\ f # 0 /\ "EXTERNAL" \notin Table[f].attributes <=>
                         k <= Len(p) /\ IsLocal(p[k])
<1>1. \A k \in {1, 2, 3} : RegisterAt(p, k) <=> k <= Len(p) /\ IsReg(p[k])
  BY DEF RegisterAt, IsReg
<1>2. NumberAt(p, 2) <=> 2 <= Len(p) /\ IsImmed(p[2])
  BY DEF NumberAt, IsImmed, Immed
<1>3. ASSUME NEW k \in {1, 3}
      PROVE  LET f == findSymbolInTable(Table, p[k].val)
             IN  /\ LabelAt(p, k) /\ f # 0 <=> k <= Len(p) /\ IsLabel(p[k])
                 /\ LabelAt(p, k) /\ f # 0 /\ "EXTERNAL" \notin Table[f].attributes <=>
                      k <= Len(p) /\ IsLocal(p[k])
  <2> DEFINE f == findSymbolInTable(Table, p[k].val)
  <2>1. /\ f # 0 <=> \E s \in Range(Table) : s.label = p[k].val
        /\ f # 0 /\ "EXTERNAL" \notin Table[f].attributes <=>
             \E s \in Range(Table) : s.label = p[k].val /\ "EXTERNAL" \notin s.attributes
    BY NamedSymbols
  <2> HIDE DEF f
  <2> QED BY <2>1, Zenon DEF f, LabelAt, IsLabel, IsLocal, MAX_LABEL_LENGTH
<1> QED BY <1>1, <1>2, <1>3

(* What is known of a returned instruction.                                *)
LEMMA ReturnedInstruction ==
    ASSUME CallInv, Parsed
    PROVE  /\ line \in Line /\ params \in Seq(Operand) /\ WellFormed(line)
           /\ result = parseInstruction(line, Table, ic)
<1>1. line \in Line /\ WellFormed(line)
  BY EncodingAssumption DEF CallInv
<1>2. result = parseInstruction(line, Table, ic)
  BY DEF CallInv, Parsed, isInstruction
<1>3. params \in Seq(Operand)
  BY <1>1 DEF params, Line
<1> QED BY <1>1, <1>2, <1>3

(* The mnemonics are divided among the alternatives.                       *)
LEMMA Mnemonics ==
    LET asked == RegisterMoves \cup LabelBranches \cup LabelJumps \cup {"jmp", "stop"}
    IN  \A h :
          /\ h \in Moves <=> h \in RegisterMoves
          /\ h \in Branches <=> h \in LabelBranches
          /\ h \in Arithmetic("R") <=>
               /\ h \notin asked /\ h \in DOMAIN INSTRUCTIONS
               /\ INSTRUCTIONS[h].type = "R"
          /\ h \in Arithmetic("I") <=>
               /\ h \notin asked /\ h \in DOMAIN INSTRUCTIONS
               /\ INSTRUCTIONS[h].type # "R"
<1>1. Moves = RegisterMoves /\ Branches = LabelBranches
  BY DEF Moves, RegisterMoves, Branches, LabelBranches
<1>2. \A h \in DOMAIN INSTRUCTIONS :
        /\ INSTRUCTIONS[h].type \in {"R", "I", "J"}
        /\ INSTRUCTIONS[h].type = "J" <=> h \in LabelJumps \cup {"jmp", "stop"}
  BY CodesFit
<1>3. "R" # "I" /\ "R" # "J" /\ "I" # "J"
  OBVIOUS
<1> QED BY <1>1, <1>2, <1>3 DEF Arithmetic

(* The alternatives of Takes are those parseInstruction accepts.           *)
LEMMA TakesIsAcceptable ==
    ASSUME params \in Seq(Operand)
    PROVE  Acceptable(line, Table) <=> Takes
<1> DEFINE p == params
           h == line.head
           asked == RegisterMoves \cup LabelBranches \cup LabelJumps \cup {"jmp", "stop"}
           one(b) == Len(p) = 1 /\ b
           three(a, b, c) == Len(p) = 3 /\ a /\ b /\ c
           f(k) == findSymbolInTable(Table, p[k].val)
           known(k) == LabelAt(p, k) /\ f(k) # 0
           local(k) == known(k) /\ "EXTERNAL" \notin Table[f(k)].attributes
<1>1. /\ Len(p) = 0 <=> p = <<>>
      /\ Len(p) \in Nat
  BY EmptySeq, LenProperties
<1>2. /\ Len(p) = 1 => (RegisterAt(p, 1) <=> IsReg(p[1]))
      /\ Len(p) = 1 => (known(1) <=> IsLabel(p[1]))
      /\ Len(p) = 2 => (RegisterAt(p, 1) <=> IsReg(p[1]))
      /\ Len(p) = 2 => (RegisterAt(p, 2) <=> IsReg(p[2]))
      /\ Len(p) = 3 => (RegisterAt(p, 1) <=> IsReg(p[1]))
      /\ Len(p) = 3 => (RegisterAt(p, 2) <=> IsReg(p[2]))
      /\ Len(p) = 3 => (RegisterAt(p, 3) <=> IsReg(p[3]))
      /\ Len(p) = 3 => (NumberAt(p, 2) <=> IsImmed(p[2]))
      /\ Len(p) = 3 => (local(3) <=> IsLocal(p[3]))
  <2>1. p \in Seq(Operand)
    OBVIOUS
  <2> HIDE DEF p
  <2> QED BY <2>1, OperandChecks
<1>3. Acceptable(line, Table) <=>
        /\ h \in RegisterMoves => Len(p) = 2 /\ RegisterAt(p, 1) /\ RegisterAt(p, 2)
        /\ h \in LabelBranches =>
             Len(p) = 3 /\ RegisterAt(p, 1) /\ RegisterAt(p, 2) /\ local(3)
        /\ h \in LabelJumps => Len(p) = 1 /\ known(1)
        /\ h = "jmp" => Len(p) = 1 /\ (RegisterAt(p, 1) \/ known(1))
        /\ h = "stop" => Len(p) = 0
        /\ h \notin asked =>
             /\ h \in DOMAIN INSTRUCTIONS /\ Len(p) = 3
             /\ RegisterAt(p, 1) /\ RegisterAt(p, 3)
             /\ IF INSTRUCTIONS[h].type = "R" THEN RegisterAt(p, 2) ELSE NumberAt(p, 2)
  BY Zenon DEF Acceptable, params
<1>4. Takes <=>
        \/ h = "stop" /\ p = <<>>
        \/ h = "jmp" /\ one(IsReg(p[1]) \/ IsLabel(p[1]))
        \/ h \in LabelJumps /\ one(IsLabel(p[1]))
        \/ h \in Moves /\ Len(p) = 2 /\ IsReg(p[1]) /\ IsReg(p[2])
        \/ h \in Branches /\ three(IsReg(p[1]), IsReg(p[2]), IsLocal(p[3]))
        \/ h \in Arithmetic("R") /\ three(IsReg(p[1]), IsReg(p[2]), IsReg(p[3]))
        \/ h \in Arithmetic("I") /\ three(IsReg(p[1]), IsImmed(p[2]), IsReg(p[3]))
  BY DEF Takes, LabelJumps
<1>5. /\ h \in Moves <=> h \in RegisterMoves
      /\ h \in Branches <=> h \in LabelBranches
      /\ h \in Arithmetic("R") <=>
           h \notin asked /\ h \in DOMAIN INSTRUCTIONS /\ INSTRUCTIONS[h].type = "R"
      /\ h \in Arithmetic("I") <=>
           h \notin asked /\ h \in DOMAIN INSTRUCTIONS /\ INSTRUCTIONS[h].type # "R"
  BY Mnemonics
<1>6. /\ h \in RegisterMoves => h \notin LabelBranches \cup LabelJumps \cup {"jmp", "stop"}
      /\ h \in LabelBranches => h \notin RegisterMoves \cup LabelJumps \cup {"jmp", "stop"}
      /\ h \in LabelJumps => h \notin RegisterMoves \cup LabelBranches \cup {"jmp", "stop"}
      /\ h = "jmp" => h \notin RegisterMoves \cup LabelBranches \cup LabelJumps \cup {"stop"}
      /\ h = "stop" => h \notin RegisterMoves \cup LabelBranches \cup LabelJumps \cup {"jmp"}
  BY DEF RegisterMoves, LabelBranches, LabelJumps
<1> HIDE DEF p, h, f
<1>7. CASE h \in RegisterMoves
  BY <1>2, <1>3, <1>4, <1>5, <1>6, <1>7
<1>8. CASE h \in LabelBranches
  BY <1>2, <1>3, <1>4, <1>5, <1>6, <1>8
<1>9. CASE h \in LabelJumps
  BY <1>2, <1>3, <1>4, <1>5, <1>6, <1>9
<1>10. CASE h = "jmp"
  BY <1>2, <1>3, <1>4, <1>5, <1>6, <1>10
<1>11. CASE h = "stop"
  BY <1>1, <1>2, <1>3, <1>4, <1>5, <1>6, <1>11
<1>12. CASE h \notin asked
  BY <1>2, <1>3, <1>4, <1>5, <1>6, <1>12
<1> QED BY <1>7, <1>8, <1>9, <1>10, <1>11, <1>12

(* An accepted instruction notes the external label it uses, if it does.   *)
LEMMA NotesExternalUse ==
    ASSUME CallInv, Parsed, result.ec = GOOD
    PROVE  result.ext # NULL <=>
             \E k \in DOMAIN params : IsLabel(params[k]) /\ ~IsLocal(params[k])
<1> DEFINE p == params
           h == line.head
           f == findSymbolInTable(Table, p[1].val)
           used == \E k \in DOMAIN p : IsLabel(p[k]) /\ ~IsLocal(p[k])
<1>1. /\ p \in Seq(Operand) /\ line \in Line
      /\ result = parseInstruction(line, Table, ic)
  BY ReturnedInstruction
<1>2. Accepted(line, Table, ic, result)
  BY <1>1, AcceptedInstruction
<1>3. Takes
  BY <1>1, AcceptsInstruction, TakesIsAcceptable
<1>4. \A o : /\ IsReg(o) => ~IsLabel(o)
             /\ IsImmed(o) => ~IsLabel(o)
  BY DEF IsReg, IsImmed, IsLabel
<1>5. DOMAIN p = 1..Len(p)
  BY <1>1
<1>6. Len(p) = 1 => (used <=> IsLabel(p[1]) /\ ~IsLocal(p[1]))
  BY <1>5
<1>7. CASE h \in LabelJumps \cup {"jmp"}
  <2>1. Len(p) = 1
    BY <1>2, <1>7 DEF Accepted, params
  <2>2. IsReg(p[1]) \/ IsLabel(p[1])
    BY <1>3, <1>7, AskedMnemonics, Mnemonics DEF Takes, LabelJumps, RegisterMoves, LabelBranches
  <2>3. CASE RegisterAt(p, 1)
    <3>1. IsReg(p[1]) /\ ~IsLabel(p[1])
      BY <1>4, <2>3 DEF RegisterAt, IsReg
    <3>2. ~LabelAt(p, 1)
      BY <2>3 DEF RegisterAt, LabelAt
    <3>3. result.ext = NULL
      BY <1>2, <1>7, <3>2 DEF Accepted, params
    <3> QED BY <1>6, <2>1, <3>1, <3>3
  <2>4. CASE ~RegisterAt(p, 1)
    <3>1. /\ LabelAt(p, 1) /\ f # 0
          /\ result.ext = IF "EXTERNAL" \in Table[f].attributes THEN p[1].val ELSE NULL
      BY <1>2, <1>7, <2>4 DEF Accepted, params
    <3>2. p[1].val # NULL
      BY <1>1, <3>1, LabelTextGood
    <3>3. IsLabel(p[1]) /\ (IsLocal(p[1]) <=> "EXTERNAL" \notin Table[f].attributes)
      <4> HIDE DEF p
      <4> QED BY <1>1, <2>1, <3>1, OperandChecks
    <3> QED BY <1>6, <2>1, <3>1, <3>2, <3>3
  <2> QED BY <2>3, <2>4
<1>8. CASE h \notin LabelJumps \cup {"jmp"}
  <2>1. result.ext = NULL
    BY <1>2, <1>8 DEF Accepted
  <2>2. ~used
    <3>1. \A o : IsLocal(o) => IsLabel(o)
      BY DEF IsLocal
    <3>2. \A k \in DOMAIN p : IsReg(p[k]) \/ IsImmed(p[k]) \/ IsLocal(p[k])
      BY <1>3, <1>5, <1>8 DEF Takes, LabelJumps
    <3> HIDE DEF p
    <3> QED BY <1>4, <3>1, <3>2
  <2> QED BY <2>1, <2>2
<1> QED BY <1>7, <1>8

(* For every table, line and address the encoder accepts exactly the       *)
(* operands its mnemonic takes, and notes each use of an external label.   *)
THEOREM InstructionsAreJudged == Spec => []InstructionVerdict
<1>1. CallInv => InstructionVerdict
  <2> SUFFICES ASSUME CallInv, Parsed
               PROVE  /\ result.ec = GOOD <=> Takes
                      /\ result.ec = GOOD =>
                           (result.ext # NULL <=>
                              \E k \in DOMAIN params :
                                 IsLabel(params[k]) /\ ~IsLocal(params[k]))
    BY DEF InstructionVerdict
  <2>1. result.ec = GOOD <=> Takes
    BY ReturnedInstruction, AcceptsInstruction, TakesIsAcceptable
  <2> QED BY <2>1, NotesExternalUse
<1> QED BY <1>1, EncodersReturn, PTL

-------------------------------------------------------------------------------
(* The fields of the bytes.                                                *)

(* Two numbers packed into a byte are unpacked by division.                *)
LEMMA Unpack ==
    \A x, y \in Nat :
        /\ x < 4 => (x + 4 * y) % 4 = x
        /\ x < 8 => (x + 8 * y) % 8 = x /\ (x + 8 * y) \div 8 = y
        /\ x < 32 => (x + 32 * y) % 32 = x /\ (x + 32 * y) \div 32 = y
        /\ (64 * y) % 64 = 0 /\ (64 * y) \div 64 = y
BY SMT

(* The parts of a number of five bits.                                     *)
LEMMA Parts ==
    \A n \in 0..31 :
        /\ n % 8 \in Nat /\ n \div 8 \in Nat /\ n \div 8 < 4
        /\ (n % 8) + 8 * (n \div 8) = n
        /\ n % 4 \in Nat /\ n \div 4 \in Nat /\ n \div 4 < 8
        /\ (n % 4) + 4 * (n \div 4) = n
BY SMT

(* The fields of the third and fourth byte.                                *)
LEMMA UpperFields ==
    ASSUME NEW b, NEW o \in 0..63, NEW rs \in 0..31, NEW rt \in 0..31,
           b[3] = rt + 32 * (rs % 8), b[4] = (rs \div 8) + 4 * o
    PROVE  FieldRs(b) = rs /\ FieldRt(b) = rt
<1> DEFINE low == rs % 8
           high == rs \div 8
<1>1. low \in Nat /\ high \in Nat /\ high < 4 /\ low + 8 * high = rs
  BY Parts
<1>2. o \in Nat /\ rt \in Nat /\ rt < 32
  OBVIOUS
<1> HIDE DEF low, high
<1>3. b[3] % 32 = rt /\ b[3] \div 32 = low /\ b[4] % 4 = high
  BY <1>1, <1>2, Unpack DEF low, high
<1> QED BY <1>1, <1>3 DEF FieldRs, FieldRt

(* The fields a processor reads out of the bytes of an R instruction.      *)
ReadsR(b, inst, rs, rt, rd) ==
    /\ FieldOp(b) = inst.opcode /\ FieldFunct(b) = inst.funct
    /\ FieldRs(b) = rs /\ FieldRt(b) = rt /\ FieldRd(b) = rd
    /\ b[1] % 64 = 0

(* ReadsR holds of the code's words.                                       *)
LEMMA RFields ==
    \A inst :
      inst.opcode \in 0..63 /\ inst.funct \in 0..31 =>
        \A rs, rt, rd \in 0..31 :
          ReadsR(printInstruction(RWord(inst, rs, rt, rd)), inst, rs, rt, rd)
<1> SUFFICES ASSUME NEW inst, inst.opcode \in 0..63, inst.funct \in 0..31,
                    NEW rs \in 0..31, NEW rt \in 0..31, NEW rd \in 0..31
             PROVE  ReadsR(printInstruction(RWord(inst, rs, rt, rd)), inst, rs, rt, rd)
  BY Zenon
<1> DEFINE b == printInstruction(RWord(inst, rs, rt, rd))
           f == inst.funct
<1>1. /\ b[1] = 64 * (f % 4)
      /\ b[2] = (f \div 4) + 8 * rd
      /\ b[3] = rt + 32 * (rs % 8)
      /\ b[4] = (rs \div 8) + 4 * inst.opcode
      /\ b[4] \div 4 = inst.opcode
  BY RegistersReadBack
<1>2. f \in 0..31
  OBVIOUS
<1> DEFINE low == f % 4
           high == f \div 4
<1>3. low \in Nat /\ high \in Nat /\ high < 8 /\ low + 4 * high = f
  <2> HIDE DEF f
  <2> QED BY <1>2, Parts
<1>4. rd \in Nat
  OBVIOUS
<1> HIDE DEF b, f, low, high
<1>5. FieldOp(b) = inst.opcode
  BY <1>1 DEF FieldOp
<1>6. FieldRs(b) = rs /\ FieldRt(b) = rt
  BY <1>1, UpperFields
<1>7. b[1] % 64 = 0 /\ b[1] \div 64 = low
  <2>1. b[1] = 64 * low
    BY <1>1 DEF low
  <2> QED BY <1>3, <2>1
<1>8. b[2] % 8 = high /\ b[2] \div 8 = rd
  <2>1. b[2] = high + 8 * rd
    BY <1>1 DEF high
  <2> QED BY <1>3, <1>4, <2>1, Unpack
<1>9. FieldFunct(b) = f /\ FieldRd(b) = rd
  BY <1>3, <1>7, <1>8 DEF FieldFunct, FieldRd
<1> QED BY <1>5, <1>6, <1>7, <1>9 DEF b, f, ReadsR

(* Those of an I instruction.                                              *)
ReadsI(b, inst, rs, rt, immed) ==
    /\ FieldOp(b) = inst.opcode /\ FieldRs(b) = rs /\ FieldRt(b) = rt
    /\ Low16Of(b) = immed % 2^16

(* ReadsI holds of the code's words.                                       *)
LEMMA IFields ==
    \A inst :
      inst.opcode \in 0..63 =>
        \A rs, rt \in 0..31 : \A immed \in Int :
          ReadsI(printInstruction(IWord(inst, rs, rt, immed)), inst, rs, rt, immed)
<1> SUFFICES ASSUME NEW inst, inst.opcode \in 0..63, NEW rs \in 0..31, NEW rt \in 0..31,
                    NEW immed \in Int
             PROVE  ReadsI(printInstruction(IWord(inst, rs, rt, immed)), inst, rs, rt, immed)
  BY Zenon
<1> DEFINE b == printInstruction(IWord(inst, rs, rt, immed))
<1>1. /\ b[1] + 2^8 * b[2] = immed % 2^16
      /\ b[3] = rt + 32 * (rs % 8)
      /\ b[4] = (rs \div 8) + 4 * inst.opcode
      /\ b[4] \div 4 = inst.opcode
  BY ImmediateReadsBack
<1> HIDE DEF b
<1>2. FieldOp(b) = inst.opcode /\ Low16Of(b) = immed % 2^16
  BY <1>1, Zenon DEF FieldOp, Low16Of
<1>3. FieldRs(b) = rs /\ FieldRt(b) = rt
  BY <1>1, UpperFields
<1> QED BY <1>2, <1>3 DEF b, ReadsI

(* An R instruction reads back.                                            *)
LEMMA RDecodesBack ==
    ASSUME CallInv, Parsed, result.ec = GOOD, INSTRUCTIONS[line.head].type = "R"
    PROVE  LET inst == INSTRUCTIONS[line.head]
           IN  /\ FieldOp(bytes) = inst.opcode /\ FieldFunct(bytes) = inst.funct
               /\ FieldRs(bytes) = params[1].val
               /\ IF line.head \in Moves
                  THEN FieldRt(bytes) = 0 /\ FieldRd(bytes) = params[2].val
                  ELSE FieldRt(bytes) = params[2].val /\ FieldRd(bytes) = params[3].val
               /\ bytes[1] % 64 = 0
<1> DEFINE p == params
           h == line.head
           inst == INSTRUCTIONS[h]
<1>1. h \in DOMAIN INSTRUCTIONS /\ Accepted(line, Table, ic, result)
  BY ReturnedInstruction, AcceptedInstruction
<1>2. /\ inst.opcode \in 0..63 /\ inst.funct \in 0..31
      /\ h \notin LabelJumps \cup {"jmp", "stop"} /\ h \notin LabelBranches
      /\ h \in Moves <=> h \in RegisterMoves
  BY <1>1, CodesFit, Mnemonics
<1>3. CASE h \in Moves
  <2>1. /\ RegisterAt(p, 1) /\ RegisterAt(p, 2)
        /\ result.word = RWord(inst, p[1].val, 0, p[2].val)
    BY <1>1, <1>2, <1>3 DEF Accepted, params
  <2>2. p[1].val \in 0..31 /\ p[2].val \in 0..31 /\ 0 \in 0..31
    BY <2>1 DEF RegisterAt
  <2>3. ReadsR(printInstruction(RWord(inst, p[1].val, 0, p[2].val)),
               inst, p[1].val, 0, p[2].val)
    <3> HIDE DEF p, h, inst
    <3> QED BY <1>2, <2>2, RFields, Zenon
  <2>4. ReadsR(bytes, inst, p[1].val, 0, p[2].val)
    BY <2>1, <2>3 DEF bytes
  <2> QED BY <1>3, <2>4, Zenon DEF ReadsR
<1>4. CASE h \notin Moves
  <2>1. /\ RegisterAt(p, 1) /\ RegisterAt(p, 2) /\ RegisterAt(p, 3)
        /\ result.word = RWord(inst, p[1].val, p[2].val, p[3].val)
    BY <1>1, <1>2, <1>4 DEF Accepted, params
  <2>2. p[1].val \in 0..31 /\ p[2].val \in 0..31 /\ p[3].val \in 0..31
    BY <2>1 DEF RegisterAt
  <2>3. ReadsR(printInstruction(RWord(inst, p[1].val, p[2].val, p[3].val)),
               inst, p[1].val, p[2].val, p[3].val)
    <3> HIDE DEF p, h, inst
    <3> QED BY <1>2, <2>2, RFields, Zenon
  <2>4. ReadsR(bytes, inst, p[1].val, p[2].val, p[3].val)
    BY <2>1, <2>3 DEF bytes
  <2> QED BY <1>4, <2>4, Zenon DEF ReadsR
<1> QED BY <1>3, <1>4

(* The immediate of 17 bits and its two's complement in 16 bits agree.     *)
LEMMA CutImmediate ==
    \A v \in Int : to16bit(v) \in Int /\ to16bit(v) % 2^16 = v % 2^16
BY SMT DEF to16bit

(* A number of 16 bits is what its lower half stands for.                  *)
LEMMA SignExtended ==
    ASSUME NEW n \in Int, NEW b, Low16Of(b) = n % 2^16, Short(n)
    PROVE  Field16(b) = n
<1>1. \A v \in Int : -(2^15) <= v /\ v <= 2^15 - 1 =>
        (IF v % 2^16 < 2^15 THEN v % 2^16 ELSE (v % 2^16) - 2^16) = v
  BY SMT
<1>2. -(2^15) <= n /\ n <= 2^15 - 1
  BY SMT DEF Short
<1>3. Field16(b) = IF n % 2^16 < 2^15 THEN n % 2^16 ELSE (n % 2^16) - 2^16
  BY Zenon DEF Field16
<1> QED BY <1>1, <1>2, <1>3, Zenon

(* An I instruction reads back.                                            *)
LEMMA IDecodesBack ==
    ASSUME CallInv, Parsed, result.ec = GOOD, INSTRUCTIONS[line.head].type = "I"
    PROVE  /\ FieldOp(bytes) = INSTRUCTIONS[line.head].opcode
           /\ FieldRs(bytes) = params[1].val
           /\ IF line.head \in Branches
              THEN /\ FieldRt(bytes) = params[2].val
                   /\ Short(SymbolOf(3).address - ic) =>
                        ic + Field16(bytes) = SymbolOf(3).address
              ELSE /\ FieldRt(bytes) = params[3].val
                   /\ Short(params[2].val) => Field16(bytes) = params[2].val
<1> DEFINE p == params
           h == line.head
           inst == INSTRUCTIONS[h]
<1>1. h \in DOMAIN INSTRUCTIONS /\ Accepted(line, Table, ic, result)
  BY ReturnedInstruction, AcceptedInstruction
<1>2. /\ inst.opcode \in 0..63
      /\ h \notin LabelJumps \cup {"jmp", "stop"} /\ h \notin RegisterMoves
      /\ h \in Branches <=> h \in LabelBranches
  BY <1>1, CodesFit, Mnemonics
<1>3. CASE h \in Branches
  <2> DEFINE k == findSymbolInTable(Table, p[3].val)
  <2>1. /\ RegisterAt(p, 1) /\ RegisterAt(p, 2) /\ k # 0
        /\ result.word = IWord(inst, p[1].val, p[2].val, Table[k].address - ic)
    BY <1>1, <1>2, <1>3 DEF Accepted, params
  <2>2. p[1].val \in 0..31 /\ p[2].val \in 0..31
    BY <2>1 DEF RegisterAt
  <2>3. Table[k].address \in Int /\ ic \in Int
    <3>1. Table \in Seq(Symbol) /\ ic \in Int
      BY EncodingAssumption DEF CallInv
    <3>2. k \in DOMAIN Table
      <4> HIDE DEF p
      <4> QED BY <2>1, <3>1, FindIsFirst
    <3>3. Table[k] \in Symbol
      BY <3>1, <3>2
    <3> QED BY <3>1, <3>3 DEF Symbol
  <2>4. SymbolOf(3).address = Table[k].address
    BY DEF SymbolOf, params
  <2> DEFINE distance == Table[k].address - ic
             address == Table[k].address
  <2>5. distance \in Int
    BY <2>3
  <2>6. /\ FieldOp(bytes) = inst.opcode /\ FieldRs(bytes) = p[1].val
        /\ FieldRt(bytes) = p[2].val /\ Low16Of(bytes) = distance % 2^16
    <3>1. bytes = printInstruction(IWord(inst, p[1].val, p[2].val, distance))
      BY <2>1 DEF bytes
    <3> HIDE DEF p, h, inst, k, distance
    <3>2. ReadsI(printInstruction(IWord(inst, p[1].val, p[2].val, distance)),
                 inst, p[1].val, p[2].val, distance)
      BY <1>2, <2>2, <2>5, IFields, Zenon
    <3>3. ReadsI(bytes, inst, p[1].val, p[2].val, distance)
      BY <3>1, <3>2
    <3> QED BY <3>3, Zenon DEF ReadsI
  <2> HIDE DEF p, h, inst, k, distance
  <2>7. Short(distance) => ic + Field16(bytes) = address
    <3> SUFFICES ASSUME Short(distance) PROVE ic + Field16(bytes) = address
      OBVIOUS
    <3>1. Field16(bytes) = distance
      BY <2>5, <2>6, SignExtended
    <3>2. ic + distance = address
      <4> HIDE DEF address
      <4>1. distance = address - ic /\ address \in Int /\ ic \in Int
        BY <2>3 DEF distance, address
      <4> QED BY <4>1
    <3> QED BY <3>1, <3>2
  <2>8. Short(SymbolOf(3).address - ic) => ic + Field16(bytes) = SymbolOf(3).address
    BY <2>4, <2>7, Zenon DEF distance
  <2> QED BY <1>3, <2>6, <2>8, Zenon DEF p, h, inst
<1>4. CASE h \notin Branches
  <2>1. /\ RegisterAt(p, 1) /\ NumberAt(p, 2) /\ RegisterAt(p, 3)
        /\ result.word = IWord(inst, p[1].val, p[3].val, to16bit(p[2].val))
    BY <1>1, <1>2, <1>4 DEF Accepted, params
  <2>2. p[1].val \in 0..31 /\ p[3].val \in 0..31
    BY <2>1 DEF RegisterAt
  <2>3. p[2].val \in Int
    <3>1. p[2] \in Operand /\ p[2].kind = "num"
      BY <2>1, ReturnedInstruction DEF NumberAt
    <3> QED BY <3>1 DEF Operand
  <2>4. to16bit(p[2].val) \in Int /\ to16bit(p[2].val) % 2^16 = p[2].val % 2^16
    BY <2>3, CutImmediate, Zenon
  <2> DEFINE immed == to16bit(p[2].val)
  <2>5. /\ FieldOp(bytes) = inst.opcode /\ FieldRs(bytes) = p[1].val
        /\ FieldRt(bytes) = p[3].val /\ Low16Of(bytes) = immed % 2^16
    <3>1. bytes = printInstruction(IWord(inst, p[1].val, p[3].val, immed))
      BY <2>1 DEF bytes
    <3>2. immed \in Int
      BY <2>4
    <3> HIDE DEF p, h, inst, immed
    <3>3. ReadsI(printInstruction(IWord(inst, p[1].val, p[3].val, immed)),
                 inst, p[1].val, p[3].val, immed)
      BY <1>2, <2>2, <3>2, IFields, Zenon
    <3>4. ReadsI(bytes, inst, p[1].val, p[3].val, immed)
      BY <3>1, <3>3
    <3> QED BY <3>4, Zenon DEF ReadsI
  <2> HIDE DEF p, h, inst
  <2>6. Short(p[2].val) => Field16(bytes) = p[2].val
    BY <2>3, <2>4, <2>5, SignExtended
  <2> QED BY <1>4, <2>5, <2>6, Zenon DEF p, h, inst
<1> QED BY <1>3, <1>4

(* The fields of a jump.                                                   *)
ReadsJ(b, inst, flag, n) ==
    FieldOp(b) = inst.opcode /\ (FieldFlag(b) = 1 <=> flag = 1) /\ Field25(b) = n

(* ReadsJ holds of the code's words.                                       *)
LEMMA JFields ==
    \A inst :
      inst.opcode \in 0..63 =>
        \A flag \in {0, 1} : \A n \in Nat :
          n < 2^25 => ReadsJ(printInstruction(JWord(inst, flag, n)), inst, flag, n)
<1> SUFFICES ASSUME NEW inst, inst.opcode \in 0..63, NEW flag \in {0, 1}, NEW n \in Nat,
                    n < 2^25
             PROVE  ReadsJ(printInstruction(JWord(inst, flag, n)), inst, flag, n)
  BY Zenon
<1> DEFINE b == printInstruction(JWord(inst, flag, n))
<1>1. /\ b[4] \div 4 = inst.opcode
      /\ (b[4] \div 2) % 2 = 1 <=> flag = 1
      /\ b[1] + 2^8 * b[2] + 2^16 * b[3] + 2^24 * (b[4] % 2) = n
  BY JumpReadsBack
<1> HIDE DEF b
<1>2. ReadsJ(b, inst, flag, n)
  BY <1>1, Zenon DEF ReadsJ, FieldOp, FieldFlag, Field25
<1> QED BY <1>2 DEF b

(* An instruction of the third format reads back.                          *)
LEMMA JDecodesBack ==
    ASSUME CallInv, Parsed, result.ec = GOOD, INSTRUCTIONS[line.head].type = "J", Reached
    PROVE  /\ FieldOp(bytes) = INSTRUCTIONS[line.head].opcode
           /\ FieldFlag(bytes) = 1 <=> params # <<>> /\ params[1].kind = "reg"
           /\ Field25(bytes) =
                IF params = <<>> THEN 0
                ELSE IF params[1].kind = "reg" THEN params[1].val ELSE SymbolOf(1).address
<1> DEFINE p == params
           h == line.head
           inst == INSTRUCTIONS[h]
           address == SymbolOf(1).address
<1>1. /\ h \in DOMAIN INSTRUCTIONS /\ Accepted(line, Table, ic, result)
      /\ p \in Seq(Operand)
  BY ReturnedInstruction, AcceptedInstruction
<1>2. inst.opcode \in 0..63 /\ h \in LabelJumps \cup {"jmp", "stop"}
  BY <1>1, CodesFit
<1>3. CASE h = "stop"
  <2>1. Len(p) = 0 /\ result.word = Shl(inst.opcode, 26)
    BY <1>1, <1>3 DEF Accepted, params
  <2>2. p = <<>>
    BY <1>1, <2>1, EmptySeq, LenProperties
  <2> DEFINE o == inst.opcode
             b == printInstruction(Shl(o, 26))
  <2>3. /\ b[1] = 0 /\ b[2] = 0 /\ b[3] = 0 /\ b[4] = 4 * o /\ b[4] \div 4 = o
        /\ o \in Int
    <3> HIDE DEF inst
    <3> QED BY <1>2, StopReadsBack
  <2>4. bytes = b
    BY <2>1 DEF bytes
  <2> HIDE DEF o, b
  <2>5. (b[4] \div 2) % 2 # 1 /\ b[4] % 2 = 0
    BY <2>3, SMT
  <2>6. Field25(b) = 0
    BY <2>3, <2>5, SMT DEF Field25
  <2>7. FieldOp(b) = o /\ FieldFlag(b) # 1
    BY <2>3, <2>5, Zenon DEF FieldOp, FieldFlag
  <2> QED BY <2>2, <2>4, <2>6, <2>7 DEF o
<1>4. CASE h \in LabelJumps \cup {"jmp"}
  <2>1. Len(p) = 1 /\ p # <<>>
    BY <1>1, <1>4 DEF Accepted, params
  <2>2. CASE RegisterAt(p, 1)
    <3> DEFINE n == p[1].val
    <3>1. ~LabelAt(p, 1) /\ p[1].kind = "reg" /\ n \in Nat /\ n < 2^25
      <4>1. ~LabelAt(p, 1) /\ p[1].kind = "reg" /\ n \in 0..31
        BY <2>2 DEF RegisterAt, LabelAt
      <4> HIDE DEF n
      <4>2. n \in Nat /\ n < 2^25
        BY <4>1, SMT
      <4> QED BY <4>1, <4>2
    <3>2. result.word = JWord(inst, 1, n)
      BY <1>1, <1>4, <3>1, Zenon DEF Accepted, params
    <3>3. ReadsJ(printInstruction(JWord(inst, 1, n)), inst, 1, n)
      <4>1. 1 \in {0, 1}
        OBVIOUS
      <4> HIDE DEF inst, n
      <4> QED BY <1>2, <3>1, <4>1, JFields, Zenon
    <3>4. ReadsJ(bytes, inst, 1, n)
      BY <3>2, <3>3 DEF bytes
    <3> QED BY <2>1, <3>1, <3>4 DEF ReadsJ
  <2>3. CASE ~RegisterAt(p, 1)
    <3> DEFINE k == findSymbolInTable(Table, p[1].val)
    <3>1. LabelAt(p, 1) /\ k # 0 /\ result.word = JWord(inst, 0, Table[k].address)
      BY <1>1, <1>4, <2>3, Zenon DEF Accepted, params
    <3>2. p[1].kind = "name"
      BY <3>1 DEF LabelAt
    <3>3. Table[k].address = address
      BY DEF SymbolOf, params
    <3>4. address \in 0..2^25 - 1
      BY <2>1, <3>2, Zenon DEF Reached, params
    <3> HIDE DEF address
    <3>5. address \in Nat /\ address < 2^25
      BY <3>4, SMT
    <3>6. ReadsJ(printInstruction(JWord(inst, 0, address)), inst, 0, address)
      <4>1. 0 \in {0, 1}
        OBVIOUS
      <4> HIDE DEF inst
      <4> QED BY <1>2, <3>5, <4>1, JFields, Zenon
    <3>7. ReadsJ(bytes, inst, 0, address)
      BY <3>1, <3>3, <3>6 DEF bytes
    <3>8. /\ FieldOp(bytes) = inst.opcode /\ FieldFlag(bytes) # 1
          /\ Field25(bytes) = address
      BY <3>7 DEF ReadsJ
    <3> QED BY <2>1, <3>2, <3>8 DEF address
  <2> QED BY <2>2, <2>3
<1> QED BY <1>2, <1>3, <1>4

(* Every accepted instruction reads back from its four bytes, each operand *)
(* in its own field: for all registers, immediates, addresses and tables.  *)
THEOREM InstructionsReadBack == Spec => []InstructionDecodesBack
<1>1. CallInv => InstructionDecodesBack
  <2> SUFFICES ASSUME CallInv, Parsed, result.ec = GOOD, Reached PROVE InstructionDecodesBack
    BY DEF InstructionDecodesBack
  <2> DEFINE type == INSTRUCTIONS[line.head].type
  <2>1. type \in {"R", "I", "J"}
    BY ReturnedInstruction, AcceptedInstruction, CodesFit
  <2>2. CASE type = "R"
    BY <2>2, RDecodesBack DEF InstructionDecodesBack
  <2>3. CASE type = "I"
    BY <2>3, IDecodesBack DEF InstructionDecodesBack
  <2>4. CASE type = "J"
    BY <2>4, JDecodesBack DEF InstructionDecodesBack
  <2> QED BY <2>1, <2>2, <2>3, <2>4
<1> QED BY <1>1, EncodersReturn, PTL

-------------------------------------------------------------------------------
(* Directives.                                                             *)

(* What is known of a returned directive.                                  *)
LEMMA ReturnedDirective ==
    ASSUME CallInv, Directed
    PROVE  /\ line \in Line /\ params \in Seq(Operand) /\ WellFormed(line)
           /\ line.error = GOOD /\ isLineDirective(line)
           /\ line.head = ".asciz" => params # <<>>
           /\ result \in directiveToBytes(line, GOOD)
<1>1. isLineDirective(line) /\ ~isInstruction(line) /\ result # Pending
  BY DEF Directed, isInstruction
<1>2. line \in DirectiveLines
  BY <1>1, EncodingAssumption DEF CallInv
<1>3. result \in directiveToBytes(line, GOOD)
  BY <1>1 DEF CallInv
<1>4. /\ line \in Line /\ WellFormed(line) /\ line.error = GOOD
      /\ line.head = ".asciz" => line.params # <<>>
  BY <1>2, EncodingAssumption
<1>5. params \in Seq(Operand)
  BY <1>4 DEF params, Line
<1> QED BY <1>1, <1>3, <1>4, <1>5 DEF params

(* The string of an .asciz line.                                           *)
Printable == \A i \in DOMAIN params[1].val : params[1].val[i] \in 32..126

(* A string directive: its bytes, or no bytes with the reason.             *)
LEMMA StringReturns ==
    ASSUME CallInv, Directed, line.head = ".asciz"
    PROVE  /\ params[1].val \in Seq(Char)
           /\ \/ result.ec = "ASCIZ_ILLEGAL_CHAR" /\ ~Printable /\ result.bytes = <<>>
              \/ /\ result.ec = GOOD /\ Printable
                 /\ result.bytes = params[1].val \o <<0>>
              \/ result.ec = "INSUFFICIENT_MEMORY" /\ Printable /\ result.bytes = <<>>
<1> DEFINE str == params[1].val
           found == IF Printable THEN GOOD ELSE "ASCIZ_ILLEGAL_CHAR"
<1>1. str \in Seq(Char)
  <2>1. Len(params) = 1 /\ params[1].kind = "str"
    BY ReturnedDirective DEF WellFormed, params
  <2>2. params[1] \in Operand
    BY <2>1, ReturnedDirective
  <2> QED BY <2>1, <2>2 DEF Operand
<1>2. ascizParametersToBytes(str) = str \o <<0>>
  BY <1>1 DEF ascizParametersToBytes, Char
<1>3. \/ result.ec = found /\ found # GOOD /\ result.bytes = <<>>
      \/ found = GOOD /\ result.ec = GOOD /\ result.bytes = ascizParametersToBytes(str)
      \/ found = GOOD /\ result.ec = "INSUFFICIENT_MEMORY" /\ result.bytes = <<>>
  BY ReturnedDirective DEF directiveToBytes, Printable, isprint, params
<1>4. "ASCIZ_ILLEGAL_CHAR" # GOOD
  BY DEF GOOD
<1> QED BY <1>1, <1>2, <1>3, <1>4

(* The size of the elements of the other directives.                       *)
LEMMA ElementSize ==
    ASSUME CallInv, Directed, line.head # ".asciz"
    PROVE  LET size == directiveTypeToSize(line.head)
           IN  \/ line.head = ".db" /\ size = 1
               \/ line.head = ".dh" /\ size = 2
               \/ line.head = ".dw" /\ size = 4
BY ReturnedDirective DEF isLineDirective, DataDirectives, directiveTypeToSize

(* The ranges of the code are those of the specification.                  *)
InSize(v, size) ==
    CASE size = 1 -> v \in -(2^7)..2^7 - 1
      [] size = 2 -> v \in -(2^15)..2^15 - 1
      [] size = 4 -> v >= -2147483647 /\ v <= 2147483647

(* outOfBounds is the ranges of InSize turned round.                       *)
LEMMA Ranges ==
    \A v \in Int : \A size \in {1, 2, 4} : outOfBounds(v, size) <=> ~InSize(v, size)
<1> SUFFICES ASSUME NEW v \in Int
             PROVE  \A size \in {1, 2, 4} : outOfBounds(v, size) <=> ~InSize(v, size)
  BY Zenon
<1> DEFINE byte == v \in -(2^7)..2^7 - 1
           half == v \in -(2^15)..2^15 - 1
           word == v >= -2147483647 /\ v <= 2147483647
           codeByte == v \in -128..127
           codeHalf == v \in -32768..32767
           codeWord == ~(v > 2147483647 \/ v < -2147483647)
<1>1. /\ outOfBounds(v, 1) <=> ~codeByte
      /\ outOfBounds(v, 2) <=> ~codeHalf
      /\ outOfBounds(v, 4) <=> ~codeWord
  <2> HIDE DEF codeByte, codeHalf, codeWord
  <2> QED BY SMT DEF outOfBounds, codeByte, codeHalf, codeWord
<1>2. /\ InSize(v, 1) <=> byte
      /\ InSize(v, 2) <=> half
      /\ InSize(v, 4) <=> word
  BY SMT DEF InSize
<1>3. codeByte <=> byte
  <2>1. codeByte <=> -128 <= v /\ v <= 127
    BY SMT
  <2>2. byte <=> -128 <= v /\ v <= 127
    BY SMT
  <2> HIDE DEF codeByte, byte
  <2> QED BY <2>1, <2>2
<1>4. codeHalf <=> half
  <2>1. codeHalf <=> -32768 <= v /\ v <= 32767
    BY SMT
  <2>2. half <=> -32768 <= v /\ v <= 32767
    BY SMT
  <2> HIDE DEF codeHalf, half
  <2> QED BY <2>1, <2>2, SMT
<1>5. codeWord <=> word
  BY SMT
<1> HIDE DEF byte, half, word, codeByte, codeHalf, codeWord
<1> QED BY <1>1, <1>2, <1>3, <1>4, <1>5

(* What the code takes for a number of the directive's size.               *)
Accepts(o) == Fits(o) /\ ~LeastWord(o)

(* FitsInto is that.                                                       *)
LEMMA FitsItsSize ==
    ASSUME CallInv, Directed, line.head # ".asciz", NEW o \in Operand
    PROVE  Accepts(o) <=> FitsInto(o, directiveTypeToSize(line.head))
<1> DEFINE size == directiveTypeToSize(line.head)
           v == o.val
<1>1. o.kind = "num" => v \in Int
  BY DEF Operand
<1>2. size \in {1, 2, 4}
  BY ElementSize
<1>3. Accepts(o) <=> o.kind = "num" /\ InSize(v, size)
  <2>1. CASE line.head = ".db" /\ size = 1
    <3> DEFINE range == v \in -(2^7)..2^7 - 1
    <3>1. InSize(v, 1) <=> range
      BY SMT DEF InSize
    <3>2. Accepts(o) <=> o.kind = "num" /\ range
      BY <2>1, SMT DEF Accepts, LeastWord, Fits
    <3> HIDE DEF range, size, v
    <3> QED BY <2>1, <3>1, <3>2
  <2>2. CASE line.head = ".dh" /\ size = 2
    <3> DEFINE range == v \in -(2^15)..2^15 - 1
    <3>1. InSize(v, 2) <=> range
      BY SMT DEF InSize
    <3>2. Accepts(o) <=> o.kind = "num" /\ range
      BY <2>2, SMT DEF Accepts, LeastWord, Fits
    <3> HIDE DEF range, size, v
    <3> QED BY <2>2, <3>1, <3>2
  <2>3. CASE line.head = ".dw" /\ size = 4
    <3> DEFINE range == v >= -2147483647 /\ v <= 2147483647
    <3>1. InSize(v, 4) <=> range
      BY SMT DEF InSize
    <3>2. Accepts(o) <=> o.kind = "num" /\ range
      BY <1>1, <2>3, SMT DEF Accepts, LeastWord, Fits
    <3> HIDE DEF range, size, v
    <3> QED BY <2>3, <3>1, <3>2
  <2> QED BY <2>1, <2>2, <2>3, ElementSize
<1> HIDE DEF size, v
<1>4. FitsInto(o, size) <=> o.kind = "num" /\ ~outOfBounds(v, size)
  BY DEF FitsInto, v
<1>5. o.kind = "num" => (outOfBounds(v, size) <=> ~InSize(v, size))
  BY <1>1, <1>2, Ranges, Zenon
<1> QED BY <1>3, <1>4, <1>5 DEF size

(* The elements of a directive.                                            *)
LEMMA NumbersReturn ==
    ASSUME CallInv, Directed, line.head # ".asciz"
    PROVE  LET bytesOf == lineParametersToBytes(params, directiveTypeToSize(line.head))
           IN  \/ /\ \A k \in DOMAIN params : Accepts(params[k])
                  /\ \/ result.ec = GOOD /\ result.bytes = bytesOf
                     \/ result.ec = "INSUFFICIENT_MEMORY" /\ result.bytes = <<>>
               \/ \E k \in DOMAIN params :
                    /\ ~Accepts(params[k]) /\ \A j \in 1..k - 1 : Accepts(params[j])
                    /\ result.ec = IF params[k].kind # "num" THEN "INVALID_PARAMETER"
                                   ELSE "OUT_OF_RANGE_PARAMETER"
                    /\ result.bytes = <<>>
<1> DEFINE size == directiveTypeToSize(line.head)
           found == ParameterError(params, size)
           bytesOf == lineParametersToBytes(params, size)
<1>1. params \in Seq(Operand)
  BY ReturnedDirective
<1>2. \A k \in DOMAIN params : Accepts(params[k]) <=> FitsInto(params[k], size)
  BY <1>1, FitsItsSize
<1>3. \/ result.ec = found /\ found # GOOD /\ result.bytes = <<>>
      \/ found = GOOD /\ result.ec = GOOD /\ result.bytes = bytesOf
      \/ found = GOOD /\ result.ec = "INSUFFICIENT_MEMORY" /\ result.bytes = <<>>
  BY ReturnedDirective DEF directiveToBytes, params
<1> HIDE DEF size
<1>4. \/ found = GOOD /\ \A k \in DOMAIN params : FitsInto(params[k], size)
      \/ \E k \in DOMAIN params :
           /\ ~FitsInto(params[k], size)
           /\ \A j \in 1..k - 1 : FitsInto(params[j], size)
           /\ found = IF params[k].kind # "num" THEN "INVALID_PARAMETER"
                      ELSE "OUT_OF_RANGE_PARAMETER"
  BY <1>1, ParameterErrorCases
<1> HIDE DEF found, bytesOf
<1>5. CASE found = GOOD
  <2>1. \A k \in DOMAIN params : FitsInto(params[k], size)
    BY <1>4, <1>5 DEF GOOD
  <2> QED BY <1>2, <1>3, <1>5, <2>1 DEF bytesOf, size
<1>6. CASE found # GOOD
  <2>1. PICK k \in DOMAIN params :
          /\ ~FitsInto(params[k], size)
          /\ \A j \in 1..k - 1 : FitsInto(params[j], size)
          /\ found = IF params[k].kind # "num" THEN "INVALID_PARAMETER"
                     ELSE "OUT_OF_RANGE_PARAMETER"
    BY <1>4, <1>6
  <2>2. \A j \in 1..k - 1 : j \in DOMAIN params
    BY <1>1
  <2> QED BY <1>2, <1>3, <1>6, <2>1, <2>2
<1> QED BY <1>5, <1>6

(* A directive without the least .dw number is accepted exactly if each of *)
(* its parameters fits and there is memory; the first that does not fit is *)
(* the one reported.                                                       *)
THEOREM DirectivesAreJudged == Spec => []DirectiveVerdict
<1>1. CallInv => DirectiveVerdict
  <2> SUFFICES ASSUME CallInv, Directed, \A k \in DOMAIN params : ~LeastWord(params[k])
               PROVE  DirectiveVerdict
    BY DEF DirectiveVerdict
  <2>1. CASE line.head = ".asciz"
    BY <2>1, StringReturns DEF DirectiveVerdict, Printable, GOOD
  <2>2. CASE line.head # ".asciz"
    <3> DEFINE good == \A k \in DOMAIN params : Fits(params[k])
               misfit(k) == ~Fits(params[k]) /\ \A j \in 1..k - 1 : Fits(params[j])
    <3>1. \/ good /\ result.ec \in {GOOD, "INSUFFICIENT_MEMORY"}
          \/ /\ ~good /\ result.bytes = <<>>
             /\ \E k \in DOMAIN params :
                  /\ misfit(k)
                  /\ result.ec = IF params[k].kind # "num" THEN "INVALID_PARAMETER"
                                 ELSE "OUT_OF_RANGE_PARAMETER"
      <4>1. \A k \in DOMAIN params : Accepts(params[k]) <=> Fits(params[k])
        BY DEF Accepts
      <4>2. \A k \in DOMAIN params : \A j \in 1..k - 1 : j \in DOMAIN params
        BY ReturnedDirective
      <4> QED BY <2>2, <4>1, <4>2, NumbersReturn
    <3>2. result.ec # GOOD => result.bytes = <<>>
      BY <2>2, NumbersReturn
    <3>3. \A k \in DOMAIN params : params[k].kind # "num" => ~Fits(params[k])
      BY SMT DEF Fits
    <3> QED BY <2>2, <3>1, <3>2, <3>3 DEF DirectiveVerdict, GOOD
  <2> QED BY <2>1, <2>2
<1> QED BY <1>1, EncodersReturn, PTL

-------------------------------------------------------------------------------
(* The data image read back.                                               *)

(* Counting through groups of 1, 2 or 4.                                   *)
LEMMA Groups ==
    \A n, k \in Nat : \A j \in Nat :
        /\ j < 1 => (1 * k + j) \div 1 = k /\ (1 * k + j) % 1 = j
        /\ j < 2 => (2 * k + j) \div 2 = k /\ (2 * k + j) % 2 = j
        /\ j < 4 => (4 * k + j) \div 4 = k /\ (4 * k + j) % 4 = j
        /\ k < n /\ j < 2 => 2 * k + j + 1 <= 2 * n
        /\ k < n /\ j < 4 => 4 * k + j + 1 <= 4 * n
BY SMT

(* Where byte j of element k is.                                           *)
LEMMA ElementByte ==
    ASSUME NEW p \in Seq(Operand), NEW size \in {1, 2, 4},
           NEW k \in DOMAIN p, NEW j \in 0..size - 1
    PROVE  /\ size * (k - 1) + j + 1 \in 1..size * Len(p)
           /\ lineParametersToBytes(p, size)[size * (k - 1) + j + 1] =
                Shifted(p[k].val)[j] % 256
<1> DEFINE i == size * (k - 1) + j + 1
<1>1. k \in 1..Len(p) /\ Len(p) \in Nat
  OBVIOUS
<1>2. i \in 1..size * Len(p) /\ (i - 1) \div size = k - 1 /\ (i - 1) % size = j
  <2> DEFINE m == k - 1
             n == Len(p)
  <2>1. m \in Nat /\ n \in Nat /\ m < n /\ j \in Nat /\ j < size
    BY <1>1
  <2>2. i = size * m + j + 1 /\ i - 1 = size * m + j
    BY <2>1
  <2> HIDE DEF m, n, i
  <2>3. CASE size = 1
    BY <2>1, <2>2, <2>3 DEF m, n
  <2>4. CASE size = 2
    <3>1. i - 1 = 2 * m + j /\ i = 2 * m + j + 1
      BY <2>2, <2>4
    <3>2. /\ (2 * m + j) \div 2 = m /\ (2 * m + j) % 2 = j
          /\ 2 * m + j + 1 <= 2 * n
      BY <2>1, <2>4, Groups
    <3>3. i \in 1..2 * n
      BY <2>1, <3>1, <3>2
    <3> QED BY <2>4, <3>1, <3>2, <3>3 DEF m, n
  <2>5. CASE size = 4
    <3>1. i - 1 = 4 * m + j /\ i = 4 * m + j + 1
      BY <2>2, <2>5
    <3>2. /\ (4 * m + j) \div 4 = m /\ (4 * m + j) % 4 = j
          /\ 4 * m + j + 1 <= 4 * n
      BY <2>1, <2>5, Groups
    <3>3. i \in 1..4 * n
      BY <2>1, <3>1, <3>2
    <3> QED BY <2>5, <3>1, <3>2, <3>3 DEF m, n
  <2> QED BY <2>3, <2>4, <2>5
<1> HIDE DEF i
<1>3. (i - 1) \div size + 1 = k
  BY <1>1, <1>2
<1>4. lineParametersToBytes(p, size)[i] =
        Shifted(p[(i - 1) \div size + 1].val)[(i - 1) % size] % 256
  BY <1>2 DEF lineParametersToBytes
<1> QED BY <1>2, <1>3, <1>4 DEF i

(* The little endian bytes of a number, and what they stand for.           *)
LEMMA SignedByte ==
    \A v \in Int : v \in -(2^7)..2^7 - 1 =>
        (IF v % 256 < 128 THEN v % 256 ELSE (v % 256) - 256) = v
BY SMT

(* Two bytes.                                                              *)
LEMMA SignedHalf ==
    ASSUME NEW v \in Int, v \in -(2^15)..2^15 - 1
    PROVE  LET top == (v \div 2^8) % 256
           IN  (v % 256) + 2^8 * (IF top < 128 THEN top ELSE top - 256) = v
BY SMT

(* Four bytes, taken after shifts of 8, 16 and 24.                         *)
LEMMA SignedWord ==
    ASSUME NEW v \in Int, v \in -(2^16)..2^16 - 1
    PROVE  LET third == ((v \div 2^8) \div 2^16) % 256
               top == (((v \div 2^8) \div 2^16) \div 2^24) % 256
           IN  (v % 256) + 2^8 * ((v \div 2^8) % 256) + 2^16 * third
                 + 2^24 * (IF top < 128 THEN top ELSE top - 256) = v
BY SMT

(* A run of elements cut out of a sequence.                                *)
LEMMA Slice ==
    ASSUME NEW b \in Seq(Char), NEW m \in Nat, NEW size \in Nat,
           1 <= m, 1 <= size, m + size - 1 <= Len(b)
    PROVE  LET e == SubSeq(b, m, m + size - 1)
           IN  /\ Len(e) = size
               /\ \A j \in 0..size - 1 : e[j + 1] = b[m + j]
<1> DEFINE n == m + size - 1
           e == SubSeq(b, m, n)
<1>1. m \in Int /\ n \in Int /\ m <= n /\ n - m + 1 = size
  OBVIOUS
<1>2. \A i \in m..n : b[i] \in Char
  OBVIOUS
<1> HIDE DEF n
<1>3. /\ Len(e) = IF m <= n THEN n - m + 1 ELSE 0
      /\ \A i \in 1..n - m + 1 : e[i] = b[m + i - 1]
  BY <1>1, <1>2, SubSeqProperties
<1> HIDE DEF e
<1>4. Len(e) = size
  BY <1>1, <1>3
<1>5. ASSUME NEW j \in 0..size - 1 PROVE e[j + 1] = b[m + j]
  <2>1. j + 1 \in 1..n - m + 1 /\ m + (j + 1) - 1 = m + j
    BY <1>1
  <2>2. e[j + 1] = b[m + (j + 1) - 1]
    BY <1>3, <2>1
  <2> QED BY <2>1, <2>2
<1> QED BY <1>4, <1>5 DEF e, n

(* Where an element begins and ends.                                       *)
LEMMA ElementBounds ==
    \A size \in {1, 2, 4} : \A n \in Nat : \A k \in 1..n :
        /\ size * (k - 1) + 1 \in Nat /\ 1 <= size * (k - 1) + 1
        /\ size \in Nat /\ 1 <= size
        /\ size * k = size * (k - 1) + 1 + size - 1
        /\ size * k <= size * n
<1>1. ASSUME NEW n \in Nat, NEW k \in 1..n
      PROVE  /\ 1 * k = 1 * (k - 1) + 1 + 1 - 1 /\ 1 * k <= 1 * n
             /\ 2 * k = 2 * (k - 1) + 1 + 2 - 1 /\ 2 * k <= 2 * n
             /\ 4 * k = 4 * (k - 1) + 1 + 4 - 1 /\ 4 * k <= 4 * n
             /\ 1 * (k - 1) + 1 \in Nat /\ 1 <= 1 * (k - 1) + 1
             /\ 2 * (k - 1) + 1 \in Nat /\ 1 <= 2 * (k - 1) + 1
             /\ 4 * (k - 1) + 1 \in Nat /\ 1 <= 4 * (k - 1) + 1
  BY SMT
<1> SUFFICES ASSUME NEW size \in {1, 2, 4}, NEW n \in Nat, NEW k \in 1..n
             PROVE  /\ size * (k - 1) + 1 \in Nat /\ 1 <= size * (k - 1) + 1
                    /\ size \in Nat /\ 1 <= size
                    /\ size * k = size * (k - 1) + 1 + size - 1
                    /\ size * k <= size * n
  OBVIOUS
<1>2. CASE size = 1  BY <1>1, <1>2
<1>3. CASE size = 2  BY <1>1, <1>3
<1>4. CASE size = 4  BY <1>1, <1>4
<1> QED BY <1>2, <1>3, <1>4

(* The bytes of an element, taken out of the data image.                   *)
LEMMA ElementBytes ==
    ASSUME CallInv, Directed, line.head # ".asciz", result.ec = GOOD,
           NEW k \in DOMAIN params
    PROVE  LET size == directiveTypeToSize(line.head)
           IN  /\ Len(result.bytes) = size * Len(params)
               /\ Fits(params[k]) /\ params[k].val \in Int
               /\ Len(Element(k, size)) = size
               /\ \A j \in 0..size - 1 :
                    Element(k, size)[j + 1] = Shifted(params[k].val)[j] % 256
<1> DEFINE p == params
           size == directiveTypeToSize(line.head)
           b == result.bytes
<1>1. p \in Seq(Operand)
  BY ReturnedDirective
<1>2. size \in {1, 2, 4}
  BY ElementSize
<1>3. b = lineParametersToBytes(p, size) /\ \A i \in DOMAIN p : Fits(p[i])
  BY NumbersReturn DEF Accepts, GOOD
<1>4. \A i \in DOMAIN p : p[i].kind = "num"
  BY <1>3, SMT DEF Fits
<1>5. b \in Seq(Char) /\ Len(b) = size * Len(p)
  <2> HIDE DEF p, size, b
  <2> QED BY <1>1, <1>2, <1>3, <1>4, NumberBytes
<1>6. p[k].val \in Int
  <2>1. p[k] \in Operand /\ p[k].kind = "num"
    BY <1>1, <1>4
  <2> QED BY <2>1 DEF Operand
<1> DEFINE m == size * (k - 1) + 1
           e == SubSeq(b, m, m + size - 1)
<1>7. k \in 1..Len(p) /\ Len(p) \in Nat
  BY <1>1
<1>8. /\ m \in Nat /\ 1 <= m /\ size \in Nat /\ 1 <= size
      /\ size * k = m + size - 1 /\ size * k <= Len(b)
  <2> HIDE DEF size, p, b
  <2>1. size * k <= size * Len(p)
    BY <1>2, <1>7, ElementBounds
  <2> QED BY <1>2, <1>5, <1>7, <2>1, ElementBounds
<1>9. Element(k, size) = e
  BY <1>8 DEF Element
<1> HIDE DEF size
<1>10. Len(e) = size /\ \A j \in 0..size - 1 : e[j + 1] = b[m + j]
  <2> HIDE DEF m, b, p
  <2>1. m + size - 1 <= Len(b)
    BY <1>8
  <2> QED BY <1>5, <1>8, <2>1, Slice
<1>11. ASSUME NEW j \in 0..size - 1
       PROVE  e[j + 1] = Shifted(p[k].val)[j] % 256
  <2>1. b[size * (k - 1) + j + 1] = Shifted(p[k].val)[j] % 256
    <3> HIDE DEF p, b
    <3>1. k \in DOMAIN p
      BY DEF p
    <3> QED BY <1>1, <1>2, <1>3, <3>1, ElementByte
  <2>2. m + j = size * (k - 1) + j + 1
    <3> DEFINE d == size * (k - 1)
    <3>1. d \in Int
      BY <1>2, <1>7
    <3> HIDE DEF d
    <3>2. d + 1 + j = d + j + 1
      BY <3>1
    <3> QED BY <3>2 DEF d
  <2> HIDE DEF e, b
  <2> QED BY <1>10, <2>1, <2>2
<1> HIDE DEF b, e
<1> QED BY <1>3, <1>5, <1>6, <1>9, <1>10, <1>11 DEF b, size

(* A group of bytes as a number, size by size.                             *)
LEMMA SignedOf ==
    ASSUME NEW b
    PROVE  /\ Len(b) = 1 => Signed(b) = IF b[1] < 128 THEN b[1] ELSE b[1] - 256
           /\ Len(b) = 2 =>
                Signed(b) = b[1] + 2^8 * (IF b[2] < 128 THEN b[2] ELSE b[2] - 256)
           /\ Len(b) = 4 =>
                Signed(b) = b[1] + 2^8 * b[2] + 2^16 * b[3]
                              + 2^24 * (IF b[4] < 128 THEN b[4] ELSE b[4] - 256)
BY DEF Signed

(* An element of at most 17 bits reads back as the number written.         *)
LEMMA ElementReadsBack ==
    ASSUME CallInv, Directed, line.head # ".asciz", result.ec = GOOD,
           NEW k \in DOMAIN params, params[k].val \in -(2^16)..2^16 - 1
    PROVE  Signed(Element(k, directiveTypeToSize(line.head))) = params[k].val
<1> DEFINE size == directiveTypeToSize(line.head)
           v == params[k].val
           b == Element(k, size)
           byte(j) == Shifted(v)[j] % 256
<1>1. /\ Fits(params[k]) /\ v \in Int /\ Len(b) = size
      /\ \A j \in 0..size - 1 : b[j + 1] = byte(j)
  BY ElementBytes
<1>2. /\ byte(0) = v % 256
      /\ byte(1) = (v \div 2^8) % 256
      /\ byte(2) = ((v \div 2^8) \div 2^16) % 256
      /\ byte(3) = (((v \div 2^8) \div 2^16) \div 2^24) % 256
  BY <1>1, ShiftedValues
<1>3. CASE line.head = ".db" /\ size = 1
  <2>1. v \in -(2^7)..2^7 - 1
    BY <1>1, <1>3 DEF Fits
  <2>2. b[1] = v % 256 /\ Len(b) = 1
    <3>1. 0 \in 0..1 - 1 /\ 0 + 1 = 1
      OBVIOUS
    <3> HIDE DEF byte, b, v
    <3> QED BY <1>1, <1>2, <1>3, <3>1
  <2> HIDE DEF b, v
  <2>3. Signed(b) = IF b[1] < 128 THEN b[1] ELSE b[1] - 256
    BY <2>2, SignedOf
  <2> QED BY <1>1, <2>1, <2>2, <2>3, SignedByte DEF b, v
<1>4. CASE line.head = ".dh" /\ size = 2
  <2>1. v \in -(2^15)..2^15 - 1
    BY <1>1, <1>4 DEF Fits
  <2>2. b[1] = v % 256 /\ b[2] = (v \div 2^8) % 256 /\ Len(b) = 2
    <3>1. /\ 0 \in 0..2 - 1 /\ 0 + 1 = 1
          /\ 1 \in 0..2 - 1 /\ 1 + 1 = 2
      OBVIOUS
    <3>2. b[0 + 1] = byte(0) /\ b[1 + 1] = byte(1)
      BY <1>1, <1>4, <3>1
    <3> HIDE DEF byte, b, v
    <3> QED BY <1>1, <1>2, <1>4, <3>1, <3>2
  <2> HIDE DEF b, v
  <2>3. Signed(b) = b[1] + 2^8 * (IF b[2] < 128 THEN b[2] ELSE b[2] - 256)
    BY <2>2, SignedOf
  <2>4. (v % 256) + 2^8 * (IF (v \div 2^8) % 256 < 128 THEN (v \div 2^8) % 256
                           ELSE ((v \div 2^8) % 256) - 256) = v
    BY <1>1, <2>1, SignedHalf
  <2>5. Signed(b) = v
    BY <2>2, <2>3, <2>4
  <2> QED BY <2>5 DEF b, v
<1>5. CASE line.head = ".dw" /\ size = 4
  <2>1. /\ b[1] = v % 256 /\ b[2] = (v \div 2^8) % 256
        /\ b[3] = ((v \div 2^8) \div 2^16) % 256
        /\ b[4] = (((v \div 2^8) \div 2^16) \div 2^24) % 256 /\ Len(b) = 4
    <3>1. /\ 0 \in 0..4 - 1 /\ 0 + 1 = 1
          /\ 1 \in 0..4 - 1 /\ 1 + 1 = 2
          /\ 2 \in 0..4 - 1 /\ 2 + 1 = 3
          /\ 3 \in 0..4 - 1 /\ 3 + 1 = 4
      OBVIOUS
    <3>2. /\ b[0 + 1] = byte(0) /\ b[1 + 1] = byte(1)
          /\ b[2 + 1] = byte(2) /\ b[3 + 1] = byte(3)
      BY <1>1, <1>5, <3>1
    <3> HIDE DEF byte, b, v
    <3> QED BY <1>1, <1>2, <1>5, <3>1, <3>2
  <2>2. v \in -(2^16)..2^16 - 1
    OBVIOUS
  <2> HIDE DEF b, v
  <2>3. Signed(b) = b[1] + 2^8 * b[2] + 2^16 * b[3]
                      + 2^24 * (IF b[4] < 128 THEN b[4] ELSE b[4] - 256)
    BY <2>1, SignedOf
  <2> DEFINE third == ((v \div 2^8) \div 2^16) % 256
             top == (((v \div 2^8) \div 2^16) \div 2^24) % 256
  <2>4. (v % 256) + 2^8 * ((v \div 2^8) % 256) + 2^16 * third
          + 2^24 * (IF top < 128 THEN top ELSE top - 256) = v
    BY <1>1, <2>2, SignedWord
  <2>5. Signed(b) = v
    BY <2>1, <2>3, <2>4
  <2> QED BY <2>5 DEF b, v
<1> QED BY <1>3, <1>4, <1>5, ElementSize

(* A directive that is accepted reads back from the data image: a string   *)
(* with its zero, numbers as they were written - of a .dw those of at most *)
(* 17 bits, because the loop's distances add up.                           *)
THEOREM DataReadsBack == Spec => []DataDecodesBack
<1>1. CallInv => DataDecodesBack
  <2> SUFFICES ASSUME CallInv, Directed, result.ec = GOOD PROVE DataDecodesBack
    BY DEF DataDecodesBack
  <2>1. CASE line.head = ".asciz"
    BY <2>1, StringReturns DEF DataDecodesBack, GOOD
  <2>2. CASE line.head # ".asciz"
    <3> DEFINE size == directiveTypeToSize(line.head)
    <3>1. Len(result.bytes) = size * Len(params)
      <4>1. CASE DOMAIN params # {}
        BY <2>2, <4>1, ElementBytes
      <4>2. CASE DOMAIN params = {}
        <5>1. params = <<>> /\ Len(params) = 0
          BY <4>2, ReturnedDirective
        <5>2. result.bytes = lineParametersToBytes(params, size)
          BY <2>2, NumbersReturn DEF GOOD
        <5>3. size \in {1, 2, 4}
          BY <2>2, ElementSize
        <5> HIDE DEF size
        <5>4. Len(lineParametersToBytes(params, size)) = size * Len(params)
          BY <5>1, <5>3, <4>2, ReturnedDirective, NumberBytes
        <5> QED BY <5>2, <5>4
      <4> QED BY <4>1, <4>2
    <3>2. \A k \in DOMAIN params :
            params[k].val \in -(2^16)..2^16 - 1 =>
              Signed(Element(k, size)) = params[k].val
      BY <2>2, ElementReadsBack
    <3> QED BY <2>2, <3>1, <3>2 DEF DataDecodesBack, DecodesBack
  <2> QED BY <2>1, <2>2
<1> QED BY <1>1, EncodersReturn, PTL
===============================================================================
