------------------------------ MODULE MCEncoding ------------------------------
(***************************************************************************)
(* The lines given to the encoders: every size of number around the edges  *)
(* of its range, and each instruction format with operand lists of each    *)
(* length made of good, bad, missing and misplaced operands.               *)
(***************************************************************************)
EXTENDS Encoding, SequencesExt

(* Z is one letter too long to be used, E is only declared, U not at all.  *)
MCNames == {"A", "D", "X", "E", "Z", "U", "1x"}
MCWords == MCNames \ {"1x"}
MCNameLen == [w \in MCWords |-> IF w = "Z" THEN 32 ELSE 31]

Sym(l, a, f) == [label |-> l, address |-> a, attributes |-> f]
MCTable ==
    << Sym("A", 100, {"CODE"}), Sym("X", 0, {"EXTERNAL"}),
       Sym("D", 33000, {"DATA", "ENTRY"}), Sym("A", 0, {"EXTERNAL"}),
       Sym("E", -1, {"ENTRY"}), Sym("Z", 104, {"CODE"}) >>

L(h, p) == [label |-> NULL, head |-> h, params |-> p, error |-> GOOD]
Num(n)  == [kind |-> "num", val |-> n]
Reg(n)  == [kind |-> "reg", val |-> n]
Name(n) == [kind |-> "name", val |-> n]
Empty   == [kind |-> "empty", val |-> NULL]
BadReg  == [kind |-> "badreg", val |-> NULL]

(* Numbers next to the powers of two.                                      *)
Edges ==
    UNION {{2^b, 2^b - 1, 2^b + 1, -(2^b), -(2^b) + 1, -(2^b) - 1, 2^b \div 3, -((2^b) \div 3)} :
             b \in {0, 4, 7, 8, 15, 16, 17, 23, 24, 30}}
    \cup {2147483647, -2147483647, -2147483647 - 1}

Singles == {<<Num(n)>> : n \in Edges \cup -130..130}
Pairs == {<<Num(m), Num(n)>> : m, n \in {0, -1, 127, -129, 32768, 65536}}
           \cup {<<Num(1), o>> : o \in {Empty, Name("A"), Reg(3)}} \cup {<<>>}
           \cup {<<o, Num(99999)>> : o \in {Empty, Num(-5)}}

MCDirectiveLines ==
    {L(h, p) : h \in {".db", ".dh", ".dw"}, p \in Singles \cup Pairs}
    \cup {L(".asciz", <<[kind |-> "str", val |-> s]>>) :
            s \in SeqOf({9, 31, 32, 65, 126, 127, 200}, 3)}

Operands ==
    {Reg(0), Reg(21), Reg(31), Reg(32), BadReg, Num(-32768), Num(33000), Num(65535),
     Name("A"), Name("D"), Name("X"), Name("E"), Name("Z"), Name("U"), Name("1x"), Empty}

MCInstructionLines ==
    {L(h, p) : h \in {"nor", "mvlo", "andi", "sh", "beq", "jmp", "la", "call", "stop", "other"},
               p \in SeqOf(Operands, 2)}
    \cup {L(h, p) : h \in {"sub", "ori", "sw", "bgt"},
                    p \in TupleOf(Operands, 3)}
    \cup {L(h, <<Reg(1), o, Reg(2), q>>) :
            h \in {"add", "lb", "bne"}, o \in {Reg(3), Num(4)}, q \in {Reg(5), Empty}}
    \cup {L(h, <<Reg(1), Num(n), Reg(2)>>) :
            h \in {"addi", "nori"}, n \in {-65536, -65535, -1, 0, 65533, 65534}}

MCAddresses == {100, 32868}
===============================================================================
