------------------------------ MODULE LineParser ------------------------------
(***************************************************************************)
(* From the text of a source line to the struct line (line.c and the       *)
(* string functions of helper.c).  A C string is the sequence of its       *)
(* character codes without the terminating zero; NULL is the null pointer. *)
(***************************************************************************)
EXTENDS Line, FiniteSets, SequencesExt

CONSTANT Intern(_)  \* the member of Names, or the mnemonic, a text stands for

(* The null pointer is no string.                                          *)
ASSUME NullAssumption == NULL \notin Seq(Char)

TAB == 9
NEWLINE == 10
QUOTE == 34
COMMA == 44

WORD_DELIMITERS == {32, TAB}
LABEL_SUFFIX == 58      \* ':'
COMMENT == 59           \* ';'
MINUS == 45
REGISTER_KEYWORD == 36  \* '$'

isspace(c) == c \in 9..13 \cup {32}
isdigit(c) == c \in 48..57
isalpha(c) == c \in 65..90 \cup 97..122

(* A parsed line whose words are still texts.                              *)
ParsedLine(label, head, params, error) ==
    [label |-> label, head |-> head, params |-> params, error |-> error]

EmptyLine == ParsedLine(NULL, NULL, <<>>, GOOD)
-------------------------------------------------------------------------------
(* strtok: the first word of s, NULL if there is none, and what is left    *)
(* behind the one delimiter that ends the word.                            *)
strtok(s, delimiters) ==
    LET inWord == {i \in DOMAIN s : s[i] \notin delimiters}
        first == Min(inWord)
        end == Min({i \in first..Len(s) + 1 : i \notin inWord})
    IN  IF inWord = {} THEN [token |-> NULL, rest |-> <<>>]
        ELSE [token |-> SubSeq(s, first, end - 1), rest |-> SubSeq(s, end + 1, Len(s))]

firstNoneSpace(s) ==
    LET graph == {i \in DOMAIN s : ~isspace(s[i])}
    IN  IF graph = {} THEN <<>> ELSE SubSeq(s, Min(graph), Len(s))

(* A text of blanks alone is left as it is.                                *)
trimTrailingSpace(s) ==
    LET graph == {i \in DOMAIN s : ~isspace(s[i])}
    IN  IF graph = {} THEN s ELSE SubSeq(s, 1, Max(graph))

trimWhiteSpace(s) == firstNoneSpace(trimTrailingSpace(s))

(* strsep, called until it returns NULL: the texts between the commas, the *)
(* empty ones included.                                                    *)
strsep(s) ==
    LET bounds == {0, Len(s) + 1} \cup {i \in DOMAIN s : s[i] = COMMA}
        Bound(k) == CHOOSE b \in bounds : Cardinality({c \in bounds : c < b}) = k
    IN  [k \in 1..Cardinality(bounds) - 1 |-> SubSeq(s, Bound(k - 1) + 1, Bound(k) - 1)]

(* Variant with a bug: empty parameters are skipped, as by strtok.         *)
parseGenericParameters_SkipEmpty(s) ==
    SelectSeq([k \in DOMAIN strsep(s) |-> trimWhiteSpace(strsep(s)[k])],
              LAMBDA p : p # <<>>)

parseGenericParameters(s) ==
    LET tokens == strsep(s) IN [k \in DOMAIN tokens |-> trimWhiteSpace(tokens[k])]

(* Variant with a bug: what follows the string is not looked at.           *)
parseAscizParameters_AnyEnd(s) ==
    LET quotes == {i \in DOMAIN s : s[i] = QUOTE}
    IN  IF s[1] # QUOTE THEN [params |-> <<>>, error |-> "ASCIIZ_MISSING_PARENTHESIS"]
        ELSE IF quotes = {1} THEN [params |-> <<>>, error |-> "ASCIIZ_UNBALANCED_PARENTHESIS"]
        ELSE [params |-> <<SubSeq(s, 2, Min(quotes \ {1}) - 1)>>, error |-> GOOD]

(* The string is kept although something follows it.                       *)
parseAscizParameters(s) ==
    LET quotes == {i \in DOMAIN s : s[i] = QUOTE}
        closing == Min(quotes \ {1})
        tail == trimTrailingSpace(SubSeq(s, closing, Len(s)))
    IN  IF s[1] # QUOTE THEN [params |-> <<>>, error |-> "ASCIIZ_MISSING_PARENTHESIS"]
        ELSE IF quotes = {1} THEN [params |-> <<>>, error |-> "ASCIIZ_UNBALANCED_PARENTHESIS"]
        ELSE [params |-> <<SubSeq(s, 2, closing - 1)>>,
              error |-> IF tail = <<QUOTE>> THEN GOOD ELSE "ASCIIZ_EXTRA_TOKENS"]

(* Variant with a bug: strings are split at their commas, too.             *)
parseParameters_NoStrings(s, head) ==
    [params |-> IF s = <<>> THEN <<>> ELSE parseGenericParameters(s), error |-> GOOD]

parseParameters(s, head) ==
    IF s = <<>> THEN [params |-> <<>>, error |-> GOOD]
    ELSE IF Intern(head) = ".asciz" THEN parseAscizParameters(s)
    ELSE [params |-> parseGenericParameters(s), error |-> GOOD]

(* Only a semicolon in the first column makes a comment.                   *)
strToLine(str) ==
    LET word1 == strtok(str, WORD_DELIMITERS)
        labelled == Last(word1.token) = LABEL_SUFFIX
        label == IF labelled THEN Front(word1.token) ELSE NULL
        word == IF labelled THEN strtok(word1.rest, WORD_DELIMITERS) ELSE word1
        parsed == parseParameters(word.rest, word.token)
    IN  IF str = <<>> \/ str[1] = COMMENT \/ word1.token = NULL THEN EmptyLine
        ELSE IF word.token = NULL THEN ParsedLine(label, NULL, <<>>, GOOD)
        ELSE ParsedLine(label, word.token, parsed.params, parsed.error)
-------------------------------------------------------------------------------
Decimal(digits) == FoldLeft(LAMBDA n, c : 10 * n + c - 48, 0, digits)

(* The value of a text as a number, NULL if it is none: a sign and digits  *)
(* up to the end, within a long.  (No text parsed here begins with blanks, *)
(* which strtol would skip.)                                               *)
parseLong(s) ==
    LET signed == s # <<>> /\ s[1] \in {MINUS, 43}
        digits == IF signed THEN Tail(s) ELSE s
        abs == Decimal(digits)
        val == IF signed /\ s[1] = MINUS THEN -abs ELSE abs
    IN  IF digits # <<>> /\ (\A i \in DOMAIN digits : isdigit(digits[i]))
           /\ (Len(digits) < 19 \/ val \in -(2^63)..2^63 - 1)
        THEN val ELSE NULL

(* atoi of digits with anything behind them: what strtol makes of them, at *)
(* most the greatest long, cut to an int.  (Up to nine digits fit; TLC     *)
(* cannot count further.)                                                  *)
atoi(s) ==
    LET other == {i \in DOMAIN s : ~isdigit(s[i])}
        digits == IF other = {} THEN s ELSE SubSeq(s, 1, Min(other) - 1)
        long == Min({Decimal(digits), 2^63 - 1})
    IN  IF Len(digits) < 10 THEN Decimal(digits) ELSE ((long + 2^31) % 2^32) - 2^31

(* The class of an operand's text, as the passes find it by asking whether *)
(* it is empty, begins with a dollar sign, or is a number.                 *)
OperandOf(s) ==
    LET Class(kind, val) == [kind |-> kind, val |-> val]
    IN  IF s = <<>> THEN Class("empty", NULL)
        ELSE IF s[1] = REGISTER_KEYWORD
             THEN IF Len(s) > 1 /\ isdigit(s[2]) THEN Class("reg", atoi(Tail(s)))
                  ELSE Class("badreg", NULL)
        ELSE IF parseLong(s) # NULL THEN Class("num", parseLong(s))
        ELSE Class("name", Intern(s))

MnemonicOf(head) ==
    IF Intern(head) \in KnownMnemonics THEN Intern(head)
    ELSE IF head[1] = 46 THEN ".other" ELSE "other"

(* What the passes see of a parsed line: a member of Line.                 *)
LineOf(l) ==
    [label |-> IF l.label = NULL THEN NULL ELSE Intern(l.label),
     head |-> IF l.head = NULL THEN NULL ELSE MnemonicOf(l.head),
     params |-> [k \in DOMAIN l.params |->
                   IF l.head # NULL /\ Intern(l.head) = ".asciz"
                   THEN [kind |-> "str", val |-> l.params[k]]
                   ELSE OperandOf(l.params[k])],
     error |-> l.error]
===============================================================================
