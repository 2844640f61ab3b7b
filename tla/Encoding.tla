------------------------------- MODULE Encoding -------------------------------
(***************************************************************************)
(* The two encoders as calls: a line is handed to directiveToBytes or to   *)
(* parseInstruction, and what comes back is compared with what a processor *)
(* would read out of the bytes.                                            *)
(***************************************************************************)
EXTENDS Instruction, Directive, Functions

CONSTANTS
    DirectiveLines, InstructionLines,   \* the lines to encode
    Table,                              \* the symbol table of the second pass
    Addresses                           \* the addresses instructions stand at

(***************************************************************************)
(* Lines as the passes hand them over, and a table as the first pass       *)
(* leaves it (DefinedOnce): behind the first symbol with a label there are *)
(* only those .extern has added.                                           *)
(***************************************************************************)
ASSUME EncodingAssumption ==
    /\ DirectiveLines \cup InstructionLines \subseteq Line
    /\ \A l \in DirectiveLines :
         /\ WellFormed(l) /\ isLineDirective(l) /\ l.error = GOOD
         /\ l.head = ".asciz" => l.params # <<>>
    /\ \A l \in InstructionLines : WellFormed(l) /\ isInstruction(l)
    /\ Table \in Seq(Symbol)
    /\ \A i, j \in DOMAIN Table :
         i < j /\ Table[i].label = Table[j].label => Table[j].attributes = {"EXTERNAL"}
    /\ Addresses \subseteq Nat

VARIABLES
    line,      \* the argument
    ic,        \* the address it stands at
    result     \* what the call returned, Pending before

Pending == [ec |-> "pending"]

Init ==
    /\ line \in DirectiveLines \cup InstructionLines
    /\ ic \in Addresses
    /\ result = Pending

CallDirective ==
    /\ result = Pending
    /\ isLineDirective(line)
    /\ result' \in directiveToBytes(line, GOOD)
    /\ UNCHANGED <<line, ic>>

CallInstruction ==
    /\ result = Pending
    /\ isInstruction(line)
    /\ result' = parseInstruction(line, Table, ic)
    /\ UNCHANGED <<line, ic>>

Returned == result # Pending /\ UNCHANGED <<line, ic, result>>

Spec == Init /\ [][CallDirective \/ CallInstruction \/ Returned]_<<line, ic, result>>
-------------------------------------------------------------------------------
Directed == result # Pending /\ isLineDirective(line)

params == line.params

(* The signed number a little endian group of bytes stands for.            *)
Signed(b) ==
    LET top == b[Len(b)]
        high == IF top < 128 THEN top ELSE top - 256
    IN  CASE Len(b) = 1 -> high
          [] Len(b) = 2 -> b[1] + 2^8 * high
          [] Len(b) = 4 -> b[1] + 2^8 * b[2] + 2^16 * b[3] + 2^24 * high

Element(k, size) == SubSeq(result.bytes, size * (k - 1) + 1, size * k)

DecodesBack(least, most) ==
    LET size == directiveTypeToSize(line.head)
    IN  /\ Len(result.bytes) = size * Len(params)
        /\ \A k \in DOMAIN params :
             params[k].val \in least..most => Signed(Element(k, size)) = params[k].val

(* Every accepted .db and .dh list, and each .dw number of at most 17 bits,*)
(* reads back from the data image as the numbers written in the source; a  *)
(* string reads back with a zero behind it.                                *)
DataDecodesBack ==
    Directed /\ result.ec = GOOD =>
        IF line.head = ".asciz" THEN result.bytes = params[1].val \o <<0>>
        ELSE DecodesBack(-(2^16), 2^16 - 1)

(* directive.c:93 "Bytes are inserted in little endian": whatever the size *)
(* of the number.                                                          *)
WordsDecodeBack ==
    Directed /\ result.ec = GOOD /\ line.head = ".dw" =>
        \A k \in DOMAIN params : Signed(Element(k, 4)) = params[k].val

(* The numbers of one, two and four bytes.                                 *)
Fits(o) ==
    /\ o.kind = "num"
    /\ CASE line.head = ".db" -> o.val \in -(2^7)..2^7 - 1
         [] line.head = ".dh" -> o.val \in -(2^15)..2^15 - 1
         [] OTHER -> o.val >= -2147483647 - 1 /\ o.val <= 2147483647

(* The least .dw number, which the code refuses although directive.c:147   *)
(* means its range to be all that four bytes hold.                         *)
LeastWord(o) == line.head = ".dw" /\ o.kind = "num" /\ o.val = -2147483647 - 1

(* A directive without the least .dw number is accepted exactly if each    *)
(* parameter is a number of its size, or its string is printable, and      *)
(* there is memory for the bytes; the error names the first parameter that *)
(* is not, and no bytes come with an error.                                *)
DirectiveVerdict ==
    Directed /\ (\A k \in DOMAIN params : ~LeastWord(params[k])) =>
      LET good == IF line.head = ".asciz"
                  THEN \A i \in DOMAIN params[1].val : params[1].val[i] \in 32..126
                  ELSE \A k \in DOMAIN params : Fits(params[k])
      IN  /\ result.ec \in {GOOD, "INSUFFICIENT_MEMORY"} <=> good
          /\ result.ec # GOOD => result.bytes = <<>>
          /\ result.ec = "INVALID_PARAMETER" =>
               \E k \in DOMAIN params :
                 params[k].kind # "num" /\ \A j \in 1..k - 1 : Fits(params[j])
          /\ result.ec = "OUT_OF_RANGE_PARAMETER" =>
               \E k \in DOMAIN params :
                 /\ params[k].kind = "num" /\ ~Fits(params[k])
                 /\ \A j \in 1..k - 1 : Fits(params[j])

-------------------------------------------------------------------------------
Parsed == result # Pending /\ isInstruction(line)

bytes == printInstruction(result.word)

(* The fields of a machine word, taken from the four bytes in the file.    *)
Low16Of(b) == b[1] + 2^8 * b[2]
Field16(b) == IF Low16Of(b) < 2^15 THEN Low16Of(b) ELSE Low16Of(b) - 2^16
FieldRd(b) == b[2] \div 8
FieldRt(b) == b[3] % 32
FieldRs(b) == (b[3] \div 32) + 8 * (b[4] % 4)
FieldOp(b) == b[4] \div 4
FieldFunct(b) == (b[1] \div 64) + 4 * (b[2] % 8)
FieldFlag(b) == (b[4] \div 2) % 2
Field25(b) == b[1] + 2^8 * b[2] + 2^16 * b[3] + 2^24 * (b[4] % 2)

SymbolOf(k) == Table[findSymbolInTable(Table, params[k].val)]

Moves == {"move", "mvlo", "mvhi"}
Branches == {"bne", "beq", "blt", "bgt"}

(* The code does not test that the label of a jump has an address of 25    *)
(* bits; the address -1 of a name that is only declared has not.           *)
Reached ==
    INSTRUCTIONS[line.head].type = "J" /\ params # <<>> /\ params[1].kind = "name" =>
        SymbolOf(1).address \in 0..2^25 - 1

(* What the signed field of an I instruction can hold.                     *)
Short(n) == n \in -(2^15)..2^15 - 1

(* An accepted instruction reads back from its four bytes as the source    *)
(* line: the opcode and function of its mnemonic, each register, an        *)
(* immediate of 16 bits and a branch's target within 16 bits in its own    *)
(* field, as a processor reads it, and nothing in the fields it does not   *)
(* use. The code accepts longer immediates (ImmediatesAre16Bit) and tests  *)
(* no distance; of the field of those nothing is said.                     *)
InstructionDecodesBack ==
    Parsed /\ result.ec = GOOD /\ Reached =>
      LET inst == INSTRUCTIONS[line.head]
          val(k) == params[k].val
      IN  /\ FieldOp(bytes) = inst.opcode
          /\ inst.type = "R" =>
               /\ FieldFunct(bytes) = inst.funct
               /\ FieldRs(bytes) = val(1)
               /\ IF line.head \in Moves
                  THEN FieldRt(bytes) = 0 /\ FieldRd(bytes) = val(2)
                  ELSE FieldRt(bytes) = val(2) /\ FieldRd(bytes) = val(3)
               /\ bytes[1] % 64 = 0
          /\ inst.type = "I" =>
               /\ FieldRs(bytes) = val(1)
               /\ IF line.head \in Branches
                  THEN /\ FieldRt(bytes) = val(2)
                       /\ Short(SymbolOf(3).address - ic) =>
                            ic + Field16(bytes) = SymbolOf(3).address
                  ELSE /\ FieldRt(bytes) = val(3)
                       /\ Short(val(2)) => Field16(bytes) = val(2)
          /\ inst.type = "J" =>
               /\ FieldFlag(bytes) = 1 <=> params # <<>> /\ params[1].kind = "reg"
               /\ Field25(bytes) =
                    IF params = <<>> THEN 0
                    ELSE IF params[1].kind = "reg" THEN val(1) ELSE SymbolOf(1).address

(* An instruction is accepted exactly if its operands are those its        *)
(* mnemonic takes, no more and no fewer, and its label is one this file    *)
(* can use there; and a use of an external label is noted whenever the     *)
(* instruction is accepted with one.                                       *)
IsReg(o) == o.kind = "reg" /\ o.val \in 0..31
IsImmed(o) == o.kind = "num" /\ o.val \in 1 - 2^16..2^16 - 2
IsLabel(o) ==
    /\ o.kind = "name" /\ o.val \in Words /\ NameLen[o.val] <= MAX_LABEL_LENGTH
    /\ \E s \in Range(Table) : s.label = o.val
IsLocal(o) ==
    /\ IsLabel(o)
    /\ \E s \in Range(Table) : s.label = o.val /\ "EXTERNAL" \notin s.attributes

Arithmetic(type) ==
    {h \in DOMAIN INSTRUCTIONS : INSTRUCTIONS[h].type = type} \ (Moves \cup Branches)

Takes ==
    LET one(p) == Len(params) = 1 /\ p
        three(p, q, r) == Len(params) = 3 /\ p /\ q /\ r
        h == line.head
    IN  \/ h = "stop" /\ params = <<>>
        \/ h = "jmp" /\ one(IsReg(params[1]) \/ IsLabel(params[1]))
        \/ h \in {"la", "call"} /\ one(IsLabel(params[1]))
        \/ h \in Moves /\ Len(params) = 2 /\ IsReg(params[1]) /\ IsReg(params[2])
        \/ h \in Branches /\
             three(IsReg(params[1]), IsReg(params[2]), IsLocal(params[3]))
        \/ h \in Arithmetic("R") /\
             three(IsReg(params[1]), IsReg(params[2]), IsReg(params[3]))
        \/ h \in Arithmetic("I") /\
             three(IsReg(params[1]), IsImmed(params[2]), IsReg(params[3]))

InstructionVerdict ==
    Parsed =>
      /\ result.ec = GOOD <=> Takes
      /\ result.ec = GOOD =>
           (result.ext # NULL <=>
              \E k \in DOMAIN params : IsLabel(params[k]) /\ ~IsLocal(params[k]))

(* instructionList.c:481 "res is 16 bit singed so its range in 2's         *)
(* complimint is: -2^15 <= res <= 2^15-1".                                 *)
ImmediatesAre16Bit ==
    Parsed /\ result.ec = GOOD =>
        \A k \in DOMAIN params :
            params[k].kind = "num" => params[k].val \in -(2^15)..2^15 - 1
===============================================================================
