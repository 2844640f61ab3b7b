------------------------------ MODULE Directive ------------------------------
(***************************************************************************)
(* The bytes of .db, .dh, .dw and .asciz (directive.c).  A char array is a *)
(* sequence of Char.                                                       *)
(***************************************************************************)
EXTENDS Line

directiveTypeToSize(mnemonic) ==
    CASE mnemonic = ".db" -> 1 [] mnemonic = ".dh" -> 2 [] mnemonic = ".dw" -> 4

(* Variant with a bug: the ranges taken for symmetric.                     *)
outOfBounds_Symmetric(num, byteCount) ==
    CASE byteCount = 1 -> num \notin -127..127
      [] byteCount = 2 -> num \notin -32767..32767
      [] byteCount = 4 -> num > 2147483647 \/ num < -2147483647

(* WORD_MIN is -2147483647, one more than the least 32 bit number.         *)
outOfBounds(num, byteCount) ==
    CASE byteCount = 1 -> num \notin -128..127
      [] byteCount = 2 -> num \notin -32768..32767
      [] byteCount = 4 -> num > 2147483647 \/ num < -2147483647

(* Variant with a bug: the number is not shifted.                          *)
Shifted_Never(num) == [j \in 0..3 |-> num]

(* What res holds when byte j of an element is stored: the loop shifts res *)
(* itself, so the distances add up: 0, 8, then 8 + 16, then 8 + 16 + 24.   *)
Shifted(num) ==
    LET res[j \in 0..3] ==
            IF j = 0 THEN num ELSE res[j - 1] \div 2^(CHAR_BIT * j)
    IN  res

(* The first parameter that is no number or does not fit stops the loop.   *)
ParameterError(params, size) ==
    LET wrong == {i \in DOMAIN params :
                    params[i].kind # "num" \/ outOfBounds(params[i].val, size)}
        first == CHOOSE i \in wrong : \A j \in wrong : i <= j
    IN  IF wrong = {} THEN GOOD
        ELSE IF params[first].kind # "num" THEN "INVALID_PARAMETER"
        ELSE "OUT_OF_RANGE_PARAMETER"

lineParametersToBytes(params, size) ==
    [k \in 1..size * Len(params) |->
        Shifted(params[(k - 1) \div size + 1].val)[(k - 1) % size] % 256]

isprint(c) == c \in 32..126

(* Variant with a bug: strlen without the terminating zero.                *)
ascizParametersToBytes_Short(str) == str

(* The string and its terminating zero.                                    *)
ascizParametersToBytes(str) == Append(str, 0)

(***************************************************************************)
(* ec is what errorOut holds on entry.  An error found here replaces it;   *)
(* any error, the one on entry included, returns before the bytes are      *)
(* copied.  The result is a set: the final malloc may fail.                *)
(***************************************************************************)
directiveToBytes(l, ec) ==
    LET Return(e, bytes) == [ec |-> e, bytes |-> bytes]
        found ==
          IF l.head = ".asciz"
          THEN IF \A i \in DOMAIN l.params[1].val : isprint(l.params[1].val[i])
               THEN GOOD ELSE "ASCIZ_ILLEGAL_CHAR"
          ELSE ParameterError(l.params, directiveTypeToSize(l.head))
        bytes ==
          IF l.head = ".asciz" THEN ascizParametersToBytes(l.params[1].val)
          ELSE lineParametersToBytes(l.params, directiveTypeToSize(l.head))
    IN  IF found # GOOD THEN {Return(found, <<>>)}
        ELSE IF ec # GOOD THEN {Return(ec, <<>>)}
        ELSE {Return(GOOD, bytes)} \cup
             IF "malloc" \in Faults
             THEN {Return("INSUFFICIENT_MEMORY", <<>>)} ELSE {}
===============================================================================
