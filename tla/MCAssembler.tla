----------------------------- MODULE MCAssembler -----------------------------
(***************************************************************************)
(* All programs of up to MaxLines lines taken from MCLines, and the test   *)
(* programs of the repository, whose object files are known.               *)
(***************************************************************************)
EXTENDS Assembler, LineParser, MCCharacters

CONSTANTS
    MaxLines,    \* the bound on the length of the enumerated programs
    MCLines,     \* the lines they are made of
    MCPrograms   \* longer programs taken as they are

MCWords ==
    {"A", "B", "STR", "MAIN", "LOOP", "Next", "LIST", "K", "END", "val1", "wNumber",
      "Long"}
MCNames == MCWords \cup {"1x"}
MCNameLen == [w \in MCWords |-> IF w = "Long" THEN 32 ELSE 7]

L(label, head, params) == [label |-> label, head |-> head, params |-> params, error |-> GOOD]
Num(n)  == [kind |-> "num", val |-> n]
Reg(n)  == [kind |-> "reg", val |-> n]
Name(n) == [kind |-> "name", val |-> n]
Str(s)  == [kind |-> "str", val |-> s]
Empty   == [kind |-> "empty", val |-> NULL]
BadReg  == [kind |-> "badreg", val |-> NULL]

(* Lines that define, declare and use two labels.                          *)
LinkLines ==
    { L("A", ".db", <<Num(-1)>>),
      L("B", ".dh", <<Num(258)>>),
      L(NULL, ".asciz", <<Str(<<97, 66, 33>>)>>),
      L(NULL, ".entry", <<Name("A")>>),
      L(NULL, ".entry", <<Name("B")>>),
      L(NULL, ".extern", <<Name("A")>>),
      L(NULL, ".extern", <<Name("B")>>),
      L("A", "stop", <<>>),
      L("A", "la", <<Name("B")>>),
      L("B", "jmp", <<Name("A")>>),
      L(NULL, "call", <<Name("A")>>),
      L(NULL, "jmp", <<Reg(4)>>),
      L(NULL, "bne", <<Reg(31), Reg(9), Name("A")>>),
      L(NULL, "blt", <<Reg(0), Reg(1), Name("B")>>) }

(* Lines that make each of the steps of a run fail or stop.                *)
FaultLines ==
    { L(NULL, NULL, <<>>),
      L(NULL, ".other", <<>>),
      L(NULL, ".entry", <<>>),
      L("A", ".db", <<Num(1)>>),
      L(NULL, ".entry", <<Name("A")>>),
      L(NULL, ".extern", <<Name("B")>>),
      L(NULL, ".entry", <<Num(5)>>),
      L("1x", "stop", <<>>),
      L("Long", "stop", <<>>),
      L(NULL, "jmp", <<Name("Long")>>),
      L(NULL, "add", <<Reg(1), Reg(2), Reg(32)>>),
      L(NULL, "la", <<Name("B"), Num(1)>>),
      L(NULL, "call", <<Name("B")>>) }

(* The programs of tests/assembly_files_test_cases, each line parsed from  *)
(* its text.  Names are strings.                                           *)
Program(texts) == [k \in DOMAIN texts |-> LineOf(strToLine(CodesOf(texts[k])))]

ps == Program(<<
    ";file ps.as", ";sample source code", "", ".entry Next",
    ".extern wNumber", "STR: .asciz \"aBcd\"", "MAIN: add $3,$5,$9",
    "LOOP: ori $9,-5,$2", "la val1", "jmp Next", "Next: move $20,$4",
    "LIST: .db 6,-9", "bgt $4,$2,END", "la K", "sw $0,4,$10",
    "bne $31,$9,LOOP", "call val1", "jmp $4", "la wNumber", ".extern val1",
    ".dh 27056", "K: .dw 31,-12", "END: stop", ".entry K" >>)

only_code == Program(<<
    ";file ps.as", ";sample source code", "", ".extern wNumber",
    "MAIN: add $3,$5,$9", "LOOP: ori $9,-5,$2", "la val1", "jmp Next",
    "Next: move $20,$4", "bgt $4,$2,END", "sw $0,4,$10", "bne $31,$9,LOOP",
    "call val1", "jmp $4", "la wNumber", ".extern val1", "END: stop" >>)

only_data == Program(<<
    ";file ps.as", ";sample source code", "", ".extern wNumber",
    "STR: .asciz \"aBcd\"", "LIST: .db 6,-9", ".extern val1", ".dh 27056",
    "K: .dw 31,-12", ".entry K" >>)

(* Like ps.as, but each line is a comment.                                 *)
empty == Program([k \in 1..24 |-> ";"])

Row(a, b) == [address |-> a, bytes |-> b]
Use(n, a) == [label |-> n, address |-> a]

(* The files the tests name true_<name>.ob, .ent and .ext, byte for byte.  *)
true_ps == [
    ob |-> New(<<52, 17>>, <<
        Row(100, <<64, 72, 101, 0>>), Row(104, <<251, 255, 34, 53>>),
        Row(108, <<0, 0, 0, 124>>), Row(112, <<116, 0, 0, 120>>),
        Row(116, <<64, 32, 128, 6>>), Row(120, <<28, 0, 130, 72>>),
        Row(124, <<161, 0, 0, 124>>), Row(128, <<4, 0, 10, 88>>),
        Row(132, <<228, 255, 233, 63>>), Row(136, <<0, 0, 0, 128>>),
        Row(140, <<4, 0, 0, 122>>), Row(144, <<0, 0, 0, 124>>),
        Row(148, <<0, 0, 0, 252>>), Row(152, <<97, 66, 99, 100>>),
        Row(156, <<0, 6, 247, 176>>), Row(160, <<105, 31, 0, 0>>),
        Row(164, <<0, 244, 255, 255>>), Row(168, <<255>>) >>),
    ent |-> New(<<>>, <<Use("Next", 116), Use("K", 161)>>),
    ext |-> New(<<>>, <<Use("val1", 108), Use("val1", 136), Use("wNumber", 144)>>) ]

true_only_data == [
    ob |-> New(<<0, 17>>, <<
        Row(100, <<97, 66, 99, 100>>), Row(104, <<0, 6, 247, 176>>),
        Row(108, <<105, 31, 0, 0>>), Row(112, <<0, 244, 255, 255>>),
        Row(116, <<255>>) >>),
    ent |-> New(<<>>, <<Use("K", 109)>>),
    ext |-> Absent ]

(* The .ob file kept beside only_code has no row for its line jmp Next.    *)
true_only_code == [
    ent |-> Absent,
    ext |-> New(<<>>, <<Use("val1", 108), Use("val1", 132), Use("wNumber", 140)>>) ]

true_empty == [ob |-> New(<<0, 0>>, <<>>), ent |-> Absent, ext |-> Absent]

(* The programs ps, only_data and empty of the end-to-end tests are        *)
(* assembled to the files kept beside them, all three of each, and         *)
(* only_code to its .ext file and to no .ent file, whatever was assembled  *)
(* before. Not to its .ob file: the one kept lacks a row, which the test   *)
(* does not notice (tests/utility.cpp:31).                                 *)
MatchesGoldenFiles ==
    pc = "done" /\ Len(src) > MaxLines =>
        /\ src = ps => disk = true_ps
        /\ src = only_code => \A e \in {"ent", "ext"} : disk[e] = true_only_code[e]
        /\ src = only_data => disk = true_only_data
        /\ src = empty => disk = true_empty

TestPrograms == {ps, only_code, only_data, empty}
NoPrograms == {}

MCSources == SeqOf(MCLines, MaxLines) \cup MCPrograms
===============================================================================
