----------------------------- MODULE Instruction -----------------------------
(***************************************************************************)
(* The encoder of instruction lines (instructionList.c).  A 32 bit machine *)
(* word is the set of its bits that are 1.  Parsing an instruction returns *)
(*   ec    the first error, in the order the code looks for them           *)
(*   word  the encoded word                                                *)
(*   ext   the external label whose use is noted for the .ext file, or NULL*)
(***************************************************************************)
EXTENDS SymbolTable

WordBits == 0..31

(* An int in two's complement (31 apart: TLC counts to 2^31 - 1 only).     *)
Bits(n) == {b \in 0..30 : (n \div 2^b) % 2 = 1} \cup IF n < 0 THEN {31} ELSE {}

(* n << offset, cut to a word by the unsigned int printInstruction takes.  *)
Shl(n, offset) == {b + offset : b \in Bits(n)} \cap WordBits

Low16(n) == Bits(n) \cap 0..15

(* The bytes of a word in the order printInstruction writes them.          *)
printInstruction(word) ==
    LET bit(b, value) == IF b \in word THEN value ELSE 0
        byte(b) == bit(b, 1) + bit(b + 1, 2) + bit(b + 2, 4) + bit(b + 3, 8)
                     + bit(b + 4, 16) + bit(b + 5, 32) + bit(b + 6, 64) + bit(b + 7, 128)
    IN  <<byte(0), byte(8), byte(16), byte(24)>>

-------------------------------------------------------------------------------
(* The checks of one operand; p is the parameter list, k the operand's     *)
(* place in it.  A list that is too short or an empty text is missing.     *)

Missing(p, k) == Len(p) < k \/ p[k].kind = "empty"

parseRegister(p, k) ==
    IF Missing(p, k) THEN "MISSING_ARGUMENTS"
    ELSE IF p[k].kind \notin {"reg", "badreg"} THEN "OPERAND_NOT_REGISTER"
    ELSE IF p[k].kind = "reg" /\ p[k].val \in 0..31 THEN GOOD
    ELSE "OPERAND_NOT_VALID_REGISTER"

readImmed(p, k) ==
    IF Missing(p, k) THEN "MISSING_ARGUMENTS"
    ELSE IF p[k].kind # "num" THEN "ILLEAGLE_IMMED"
    ELSE IF p[k].val <= -(2^16) \/ p[k].val >= 2^16 - 1 THEN "IMMED_OUT_OF_RANGE"
    ELSE GOOD

(* Variant with a bug: the sign is dropped.                                *)
to16bit_Magnitude(in) == IF in >= 0 THEN in ELSE -in

to16bit(in) == IF in >= 0 THEN in ELSE 2^16 + in

readLabel(p, k) ==
    IF Len(p) < k THEN "MISSING_ARGUMENTS"
    ELSE IF LabelOf(p[k]) \in Words /\ NameLen[LabelOf(p[k])] <= 31 THEN GOOD
    ELSE "INVALID_LABEL"

(* Variant with a bug: one argument too many is let through.               *)
NoMore_OffByOne(p, k) == IF Len(p) > k + 1 THEN "TOO_MANY_ARGUMENTS" ELSE GOOD

NoMore(p, k) == IF Len(p) > k THEN "TOO_MANY_ARGUMENTS" ELSE GOOD

Find(p, k, st) == IF Len(p) < k THEN 0 ELSE findSymbolInTable(st, LabelOf(p[k]))

Known(p, k, st) == IF Find(p, k, st) = 0 THEN "LABEL_DOES_NOT_EXIST" ELSE GOOD

IsExternal(p, k, st) ==
    Find(p, k, st) # 0 /\ "EXTERNAL" \in st[Find(p, k, st)].attributes

Local(p, k, st) == IF IsExternal(p, k, st) THEN "EXTERNAL_LABEL" ELSE GOOD

AddressOf(p, k, st) == st[Find(p, k, st)].address

-------------------------------------------------------------------------------
(* The checks run in order and the first that fails is returned.           *)
Outcome(checks, word, ext) ==
    LET failed == {i \in DOMAIN checks : checks[i] # GOOD}
    IN  IF failed = {} THEN [ec |-> GOOD, word |-> word, ext |-> ext]
        ELSE [ec |-> checks[Min(failed)], word |-> {}, ext |-> ext]

(* Variant with a bug: rt and rd are swapped.                              *)
RWord_Swapped(inst, rs, rt, rd) ==
    Shl(inst.opcode, 26) \cup Shl(rs, 21) \cup Shl(rd, 16) \cup Shl(rt, 11)
        \cup Shl(inst.funct, 6)

RWord(inst, rs, rt, rd) ==
    Shl(inst.opcode, 26) \cup Shl(rs, 21) \cup Shl(rt, 16) \cup Shl(rd, 11)
        \cup Shl(inst.funct, 6)

IWord(inst, rs, rt, immed) ==
    Shl(inst.opcode, 26) \cup Shl(rs, 21) \cup Shl(rt, 16) \cup Low16(immed)

(* addr is not cut to its 25 bits: a negative one fills the whole word.    *)
JWord(inst, rs_flag, addr) ==
    Shl(inst.opcode, 26) \cup Shl(rs_flag, 25) \cup Bits(addr)

instructionRArithmetic(inst, p) ==
    Outcome(<<parseRegister(p, 1), parseRegister(p, 2), parseRegister(p, 3),
              NoMore(p, 3)>>,
            RWord(inst, p[1].val, p[2].val, p[3].val), NULL)

instructionRMove(inst, p) ==
    Outcome(<<parseRegister(p, 1), parseRegister(p, 2), NoMore(p, 2)>>,
            RWord(inst, p[1].val, 0, p[2].val), NULL)

instructionIBranch(inst, p, st, ic) ==
    Outcome(<<parseRegister(p, 1), parseRegister(p, 2), readLabel(p, 3),
              NoMore(p, 3), Known(p, 3, st), Local(p, 3, st)>>,
            IWord(inst, p[1].val, p[2].val, AddressOf(p, 3, st) - ic), NULL)

(* instructionILoad and instructionIArithmetic are the same code.          *)
instructionIArithmetic(inst, p) ==
    Outcome(<<parseRegister(p, 1), readImmed(p, 2), parseRegister(p, 3),
              NoMore(p, 3)>>,
            IWord(inst, p[1].val, p[3].val, to16bit(p[2].val)), NULL)

(* A use of an external label is noted before the surplus is looked at.    *)
instructionJ(inst, p, st) ==
    Outcome(<<readLabel(p, 1), Known(p, 1, st), NoMore(p, 1)>>,
            JWord(inst, 0, AddressOf(p, 1, st)),
            IF readLabel(p, 1) = GOOD /\ IsExternal(p, 1, st)
            THEN p[1].val ELSE NULL)

(* Variant with a bug: jmp does not note the use of an external label.     *)
instructionJJMP_Silent(inst, p, st) ==
    IF parseRegister(p, 1) = GOOD
    THEN Outcome(<<NoMore(p, 1)>>, JWord(inst, 1, p[1].val), NULL)
    ELSE [instructionJ(inst, p, st) EXCEPT !.ext = NULL]

(* jmp $reg, or jmp label when the operand has no dollar sign.             *)
instructionJJMP(inst, p, st) ==
    CASE parseRegister(p, 1) = GOOD ->
            Outcome(<<NoMore(p, 1)>>, JWord(inst, 1, p[1].val), NULL)
      [] parseRegister(p, 1) = "OPERAND_NOT_REGISTER" -> instructionJ(inst, p, st)
      [] OTHER -> Outcome(<<parseRegister(p, 1)>>, {}, NULL)

instructionJStop(inst, p) ==
    Outcome(<<NoMore(p, 0)>>, Shl(inst.opcode, 26), NULL)

parseInstruction(l, st, ic) ==
    LET inst == INSTRUCTIONS[l.head]
        p == l.params
    IN  CASE l.head \notin DOMAIN INSTRUCTIONS ->
                Outcome(<<"UNRECOGNIZED_INSTRUCTION">>, {}, NULL)
          [] l.head \in {"move", "mvlo", "mvhi"} -> instructionRMove(inst, p)
          [] l.head \in {"bne", "beq", "blt", "bgt"} -> instructionIBranch(inst, p, st, ic)
          [] l.head = "jmp" -> instructionJJMP(inst, p, st)
          [] l.head = "stop" -> instructionJStop(inst, p)
          [] l.head \in {"la", "call"} -> instructionJ(inst, p, st)
          [] OTHER -> IF inst.type = "R" THEN instructionRArithmetic(inst, p)
                      ELSE instructionIArithmetic(inst, p)
===============================================================================
