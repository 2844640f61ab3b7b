----------------------------- MODULE SymbolTable -----------------------------
(***************************************************************************)
(* The symbol table (symbolTable.c): a linked list searched from its head  *)
(* and extended at its tail, here a sequence.  attributes is the bit mask  *)
(* of a symbol, here the set of its flags.                                 *)
(***************************************************************************)
EXTENDS Line, FiniteSetsExt

Flags == {"DATA", "CODE", "ENTRY", "EXTERNAL"}

(* The names a symbol may have: words that are no keywords, of one letter  *)
(* more than MAX_LABEL_LENGTH at most (see isValidLabel).                  *)
Labels ==
    {w \in Words \ (DataDirectives \cup DOMAIN INSTRUCTIONS) :
        NameLen[w] <= MAX_LABEL_LENGTH + 1}

Symbol == [label : Labels, address : Int, attributes : SUBSET Flags]

newSymbol(label, address, flag) ==
    [label |-> label, address |-> address, attributes |-> {flag}]

(* Variant with a bug: searches from the tail.                             *)
findSymbolInTable_Last(table, label) ==
    LET matches == {i \in DOMAIN table : table[i].label = label}
    IN  IF matches = {} THEN 0 ELSE Max(matches)

(* The position of the first symbol with this label, 0 when there is none. *)
findSymbolInTable(table, label) ==
    LET matches == {i \in DOMAIN table : table[i].label = label}
    IN  IF matches = {} THEN 0 ELSE Min(matches)

isReservedKeyword(str) == str \in DataDirectives \cup DOMAIN INSTRUCTIONS

(* Variant with a bug: only the keywords are refused.                      *)
isValidLabel_Lax(str) ==
    IF isReservedKeyword(str) THEN "LABEL_IS_RESERVED_KEYWORD" ELSE GOOD

(* The loop counts from index 1 and steps back once, so the number it      *)
(* compares with the maximum is the length less one.                       *)
isValidLabel(str) ==
    IF isReservedKeyword(str) THEN "LABEL_IS_RESERVED_KEYWORD"
    ELSE IF str \notin Words THEN "INVALID_LABEL"
    ELSE IF NameLen[str] - 1 <= MAX_LABEL_LENGTH THEN GOOD ELSE "LABEL_TOO_LONG"

(* Variant with a bug: does not look for the address -1.                   *)
Mergeable_Always(s, address, flag) == "ENTRY" \in s.attributes \cup {flag}

(* A declaration with .entry (address -1) and a definition that meet, in   *)
(* either order, become one symbol.                                        *)
Mergeable(s, address, flag) ==
    /\ "ENTRY" \in s.attributes \cup {flag}
    /\ -1 \in {s.address, address}

(* Variant with a bug: .entry overwrites a known address.                  *)
Merge_Overwrites(s, address, flag) ==
    [s EXCEPT !.attributes = @ \cup {flag}, !.address = address]

Merge(s, address, flag) ==
    [label |-> s.label,
     address |-> IF address = -1 THEN s.address ELSE address,
     attributes |-> s.attributes \cup {flag}]

(* Variant with a bug: never looks for an earlier symbol.                  *)
addSymbol_Unchecked(table, label, address, flag) ==
    IF isValidLabel(label) # GOOD THEN [ec |-> isValidLabel(label), table |-> table]
    ELSE [ec |-> GOOD, table |-> Append(table, newSymbol(label, address, flag))]

addSymbol(table, label, address, flag) ==
    LET Return(ec, t) == [ec |-> ec, table |-> t]
        k == findSymbolInTable(table, label)
    IN  IF isValidLabel(label) # GOOD THEN Return(isValidLabel(label), table)
        ELSE IF k = 0 \/ flag = "EXTERNAL"
             THEN Return(GOOD, Append(table, newSymbol(label, address, flag)))
        ELSE IF Mergeable(table[k], address, flag)
             THEN Return(GOOD, [table EXCEPT ![k] = Merge(@, address, flag)])
        ELSE Return("ERR_LABEL_ALREADY_DEFINED", table)

(* What a call can return: newSymbol allocates before the list is searched.*)
AddSymbolOutcomes(table, label, address, flag) ==
    {addSymbol(table, label, address, flag)} \cup
    IF "malloc" \in Faults /\ isValidLabel(label) = GOOD
    THEN {[ec |-> "INSUFFICIENT_MEMORY", table |-> table]} ELSE {}

(* Variant with a bug: compares the whole mask with DATA.                  *)
Relocate_PureData(table, ic) ==
    [i \in DOMAIN table |->
        IF table[i].attributes = {"DATA"}
        THEN [table[i] EXCEPT !.address = @ + ic] ELSE table[i]]

(* End of the first pass: the data image goes behind the ic bytes of code. *)
Relocate(table, ic) ==
    [i \in DOMAIN table |->
        IF "DATA" \in table[i].attributes
        THEN [table[i] EXCEPT !.address = @ + ic] ELSE table[i]]
===============================================================================
