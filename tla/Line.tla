--------------------------------- MODULE Line ---------------------------------
(***************************************************************************)
(* A parsed source line: the struct that strToLine hands to both passes.   *)
(*                                                                         *)
(* Text is abstracted to what the passes tell apart.  A name is a member   *)
(* of Names, a mnemonic is a string.  An operand keeps the class of its    *)
(* text and the value the code extracts from it:                           *)
(*   num     text parseLong accepts; val is the number                     *)
(*   reg     '$' and a digit; val is what atoi makes of the rest           *)
(*   badreg  '$' and anything else                                         *)
(*   name    any other text; val is the name                               *)
(*   str     the text between the quotes of an .asciz line; val is the     *)
(*           sequence of its character codes                               *)
(*   empty   the empty string, as between two commas                       *)
(***************************************************************************)
EXTENDS Consts, Sequences

CONSTANTS
    Names,      \* every text that stands where a label may stand
    Words,      \* the names made of a letter and then letters and digits
    NameLen,    \* the length of each word
    NULL        \* the null pointer

ASSUME NamesAssumption ==
    /\ Words \subseteq Names
    /\ NameLen \in [Words -> Nat \ {0}]
    /\ NULL \notin Names

(* The mnemonics the code compares a head with; all others with a leading  *)
(* dot, and all others without one, are treated alike.                     *)
KnownMnemonics == DataDirectives \cup {".entry", ".extern"} \cup DOMAIN INSTRUCTIONS

ASSUME MnemonicAssumption == NULL \notin KnownMnemonics \cup {".other", "other"}

Char == 0..255

Operand ==
    [kind : {"num", "reg"}, val : Int] \cup [kind : {"name"}, val : Names]
        \cup [kind : {"str"}, val : Seq(Char)]
        \cup [kind : {"empty", "badreg"}, val : {NULL}]

Line ==
    [label : {NULL} \cup Names, head : {NULL} \cup STRING,
     params : Seq(Operand), error : {GOOD} \cup AsciizError]

(***************************************************************************)
(* What strToLine can leave behind.  A line with no mnemonic has nothing   *)
(* after it; only .asciz can carry an error or a string, and without an    *)
(* error it carries at most that one string.                               *)
(***************************************************************************)
WellFormed(l) ==
    /\ l.head = NULL => l.params = <<>>
    /\ l.error # GOOD => l.head = ".asciz"
    /\ l.head = ".asciz" /\ l.error = GOOD =>
         \/ l.params = <<>>
         \/ Len(l.params) = 1 /\ l.params[1].kind = "str"
    /\ l.head # ".asciz" => \A i \in DOMAIN l.params : l.params[i].kind # "str"

(* The text of an operand where a label is wanted: NULL for any text that  *)
(* is neither a word nor a reserved keyword.                               *)
LabelOf(o) == IF o.kind = "name" THEN o.val ELSE NULL

isLastNode(params) == Len(params) = 1 \/ params[2].kind = "empty"

isLineRelevant(l) == l.head # NULL

isLineDirective(l) == l.head \in DataDirectives

(* What firstPass concludes by elimination: any other word.                *)
isInstruction(l) ==
    isLineRelevant(l) /\ ~isLineDirective(l) /\ l.head \notin {".entry", ".extern"}

(* Variant with a bug: .extern is forgotten.                               *)
startsWithDot_NoExtern(l) == l.head \in DataDirectives \cup {".entry", ".other"}

(* The words with a leading dot; ".other" stands for all that are neither  *)
(* a data directive nor .entry or .extern.                                 *)
startsWithDot(l) == l.head \in DataDirectives \cup {".entry", ".extern", ".other"}
===============================================================================
