-------------------------------- MODULE Consts --------------------------------
(***************************************************************************)
(* The constants, tables and error codes the assembler's files share       *)
(* (consts.h, assembler.h, directive.h, symbolTable.h, instructionList.c). *)
(***************************************************************************)
EXTENDS Integers

CONSTANT Faults     \* the library calls that may fail: "malloc", "fopen", "fprintf"

ASSUME FaultsAssumption == Faults \subseteq {"malloc", "fopen", "fprintf"}

FIRST_MEMORY_ADDRESS == 100  \* address of the first instruction
BYTES_IN_CODE_LINE   == 4    \* bytes one instruction occupies
BYTES_PER_LINE       == 4    \* bytes of the data image on a line of the .ob file
MAX_LABEL_LENGTH     == 31
CHAR_BIT             == 8

GOOD == "GOOD"

ErrorCode ==
    { GOOD, "GENERIC_ERROR", "ASCIIZ_UNBALANCED_PARENTHESIS",
      "ASCIIZ_MISSING_PARENTHESIS", "ASCIIZ_EXTRA_TOKENS", "ASCIZ_ILLEGAL_CHAR",
      "MISSING_OPERAND", "INVALID_LABEL", "ERR_LABEL_ALREADY_DEFINED",
      "UNRECOGNIZED_INSTRUCTION", "OPERAND_NOT_REGISTER",
      "OPERAND_NOT_VALID_REGISTER", "TOO_MANY_ARGUMENTS", "ILLEAGLE_IMMED",
      "MISSING_ARGUMENTS", "IMMED_OUT_OF_RANGE", "LABEL_DOES_NOT_EXIST",
      "EXTERNAL_LABEL", "FILE_WRITE_ERROR", "INSUFFICIENT_MEMORY",
      "LABEL_IS_RESERVED_KEYWORD", "LABEL_TOO_LONG",
      "UNDEFINED_DIRECTIVE_MNEMONIC", "INVALID_PARAMETER",
      "OUT_OF_RANGE_PARAMETER" }

(***************************************************************************)
(* The instruction table: mnemonic -> encoding format, funct and opcode.   *)
(***************************************************************************)
LOCAL R(f, o) == [type |-> "R", funct |-> f, opcode |-> o]
LOCAL I(o)    == [type |-> "I", funct |-> 0, opcode |-> o]
LOCAL J(o)    == [type |-> "J", funct |-> 0, opcode |-> o]

INSTRUCTIONS ==
    [ add  |-> R(1, 0), sub  |-> R(2, 0), and  |-> R(3, 0), or   |-> R(4, 0),
      nor  |-> R(5, 0), move |-> R(1, 1), mvhi |-> R(2, 1), mvlo |-> R(3, 1),
      addi |-> I(10), subi |-> I(11), andi |-> I(12), ori |-> I(13),
      nori |-> I(14), bne  |-> I(15), beq  |-> I(16), blt |-> I(17),
      bgt  |-> I(18), lb   |-> I(19), sb   |-> I(20), lw  |-> I(21),
      sw   |-> I(22), lh   |-> I(23), sh   |-> I(24),
      jmp  |-> J(30), la   |-> J(31), call |-> J(32), stop |-> J(63) ]

DataDirectives == {".db", ".dh", ".dw", ".asciz"}

(* The errors strToLine itself can leave in a line; only .asciz does.      *)
AsciizError ==
    { "ASCIIZ_UNBALANCED_PARENTHESIS", "ASCIIZ_MISSING_PARENTHESIS",
      "ASCIIZ_EXTRA_TOKENS" }
===============================================================================
