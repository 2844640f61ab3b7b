--------------------------- MODULE OperatorProofs -----------------------------
(***************************************************************************)
(* What a call of the symbol table's operations does to the list, for any  *)
(* names and any list, and what directiveToBytes returns, for any line     *)
(* strToLine can leave behind: the lemmas every proof about a pass rests   *)
(* on.                                                                     *)
(***************************************************************************)
EXTENDS Instruction, Directive, TLAPS, FiniteSetTheorems, WellFoundedInduction, SequenceTheorems

-------------------------------------------------------------------------------
(* A set of positions in a list, if it is not empty, has a first one.      *)
LEMMA MinOfPositions ==
    ASSUME NEW n \in Nat, NEW S \in SUBSET (1..n), S # {}
    PROVE  Min(S) \in S /\ \A j \in S : Min(S) <= j
<1> DEFINE T == {1..k : k \in S}
<1>1. IsWellFoundedOn(StrictSubsetOrdering(1..n), FiniteSubsetsOf(1..n))
  BY FS_StrictSubsetOrderingWellFounded
<1>2. T \subseteq FiniteSubsetsOf(1..n)
  <2> SUFFICES ASSUME NEW k \in S PROVE 1..k \in FiniteSubsetsOf(1..n)
    OBVIOUS
  <2>1. IsFiniteSet(1..k)
    BY FS_Interval
  <2>2. 1..k \subseteq 1..n
    OBVIOUS
  <2> QED BY <2>1, <2>2 DEF FiniteSubsetsOf
<1>3. T # {}
  OBVIOUS
<1>4. PICK x \in T : \A y \in T : <<y, x>> \notin StrictSubsetOrdering(1..n)
  <2> HIDE DEF T
  <2> QED BY <1>1, <1>2, <1>3, WFMin
<1>5. PICK i \in S : x = 1..i
  OBVIOUS
<1>6. ASSUME NEW j \in S PROVE i <= j
  <2> SUFFICES ASSUME j < i PROVE FALSE
    OBVIOUS
  <2>1. i \in 1..i /\ i \notin 1..j
    OBVIOUS
  <2>2. 1..j \subseteq 1..i /\ 1..i \subseteq 1..n
    OBVIOUS
  <2>3. <<1..j, 1..i>> \in StrictSubsetOrdering(1..n)
    BY <2>1, <2>2 DEF StrictSubsetOrdering
  <2> QED BY <2>3, <1>4, <1>5
<1> QED BY <1>6 DEF Min

(* findSymbolInTable returns the first symbol with the label, if any.      *)
LEMMA FindIsFirst ==
    ASSUME NEW table \in Seq(Symbol), NEW label
    PROVE  LET k == findSymbolInTable(table, label)
           IN  \/ k = 0 /\ \A i \in DOMAIN table : table[i].label # label
               \/ /\ k \in DOMAIN table
                  /\ table[k].label = label
                  /\ \A i \in DOMAIN table : table[i].label = label => k <= i
<1> DEFINE matches == {i \in DOMAIN table : table[i].label = label}
<1>1. matches \in SUBSET (1..Len(table)) /\ Len(table) \in Nat
  OBVIOUS
<1>2. CASE matches = {}
  BY <1>2 DEF findSymbolInTable
<1>3. CASE matches # {}
  <2>1. Min(matches) \in matches /\ \A j \in matches : Min(matches) <= j
    <3> HIDE DEF matches
    <3> QED BY <1>1, <1>3, MinOfPositions
  <2>2. findSymbolInTable(table, label) = Min(matches)
    BY <1>3 DEF findSymbolInTable
  <2> QED BY <2>1, <2>2
<1> QED BY <1>2, <1>3

(* Where a search ends depends on the labels alone.                        *)
LEMMA FindUnique ==
    ASSUME NEW t \in Seq(Symbol), NEW n, NEW k \in DOMAIN t, t[k].label = n,
           \A i \in DOMAIN t : t[i].label = n => k <= i
    PROVE  findSymbolInTable(t, n) = k
<1>1. DOMAIN t = 1..Len(t) /\ Len(t) \in Nat
  OBVIOUS
<1> QED BY <1>1, FindIsFirst

(* Changing a symbol in place, or not at all, moves no search.             *)
LEMMA FindSameLabels ==
    ASSUME NEW t \in Seq(Symbol), NEW u \in Seq(Symbol), DOMAIN u = DOMAIN t,
           \A i \in DOMAIN t : u[i].label = t[i].label, NEW n
    PROVE  findSymbolInTable(u, n) = findSymbolInTable(t, n)
<1>1. CASE findSymbolInTable(t, n) = 0
  <2>1. DOMAIN t = 1..Len(t) /\ Len(t) \in Nat
    OBVIOUS
  <2>2. \A i \in DOMAIN u : u[i].label # n
    BY <1>1, <2>1, FindIsFirst
  <2> QED BY <1>1, <2>2, FindIsFirst
<1>2. CASE findSymbolInTable(t, n) # 0
  BY <1>2, FindIsFirst, FindUnique
<1> QED BY <1>1, <1>2

(* A symbol at the end of the list is found only if no other one is.       *)
LEMMA FindInAppend ==
    ASSUME NEW t \in Seq(Symbol), NEW s \in Symbol, NEW n
    PROVE  findSymbolInTable(Append(t, s), n) =
             IF findSymbolInTable(t, n) # 0 THEN findSymbolInTable(t, n)
             ELSE IF s.label = n THEN Len(t) + 1 ELSE 0
<1> DEFINE u == Append(t, s)
<1>1. /\ DOMAIN t = 1..Len(t) /\ Len(t) \in Nat /\ u \in Seq(Symbol)
      /\ DOMAIN u = 1..Len(t) + 1 /\ u[Len(t) + 1] = s
      /\ \A i \in 1..Len(t) : u[i] = t[i]
  OBVIOUS
<1> HIDE DEF u
<1>2. CASE findSymbolInTable(t, n) # 0
  <2> DEFINE k == findSymbolInTable(t, n)
  <2>1. /\ k \in DOMAIN t /\ t[k].label = n
        /\ \A i \in DOMAIN t : t[i].label = n => k <= i
    BY <1>2, FindIsFirst
  <2> HIDE DEF k
  <2>2. /\ k \in DOMAIN u /\ u[k].label = n
        /\ \A i \in DOMAIN u : u[i].label = n => k <= i
    BY <1>1, <2>1
  <2>3. findSymbolInTable(u, n) = k
    BY <1>1, <2>2, FindUnique
  <2> QED BY <1>2, <2>3 DEF k, u
<1>3. CASE findSymbolInTable(t, n) = 0 /\ s.label = n
  <2>1. \A i \in DOMAIN t : t[i].label # n
    BY <1>1, <1>3, FindIsFirst
  <2>2. findSymbolInTable(u, n) = Len(t) + 1
    BY <1>1, <1>3, <2>1, FindUnique
  <2> QED BY <1>3, <2>2 DEF u
<1>4. CASE findSymbolInTable(t, n) = 0 /\ s.label # n
  <2>1. \A i \in DOMAIN t : t[i].label # n
    BY <1>1, <1>4, FindIsFirst
  <2>2. \A i \in DOMAIN u : u[i].label # n
    BY <1>1, <1>4, <2>1
  <2>3. findSymbolInTable(u, n) = 0
    BY <1>1, <2>2, FindIsFirst
  <2> QED BY <1>4, <2>3 DEF u
<1> QED BY <1>2, <1>3, <1>4

-------------------------------------------------------------------------------
(* The calls the first pass makes: a label on data or code with its        *)
(* address, .entry with the address -1, .extern with the address 0.        *)
Call(address, flag) ==
    \/ flag \in {"DATA", "CODE"} /\ address \in Nat
    \/ flag = "ENTRY" /\ address = -1
    \/ flag = "EXTERNAL" /\ address = 0

(* A symbol has one kind of meaning.  That its address is not below -1 is  *)
(* what makes this inductive: relocation could turn -5 into -1.            *)
OneMeaning(s) ==
    /\ s.attributes # {}
    /\ \A f, g \in s.attributes \ {"ENTRY"} : f = g
    /\ s.address >= -1
    /\ s.address = -1 <=> s.attributes = {"ENTRY"}
    /\ "EXTERNAL" \in s.attributes => s.address = 0

OneDefinition(t) ==
    \A i, j \in DOMAIN t :
        i < j /\ t[i].label = t[j].label => t[j].attributes = {"EXTERNAL"}

TableOK(t) ==
    /\ t \in Seq(Symbol)
    /\ \A i \in DOMAIN t : OneMeaning(t[i])
    /\ OneDefinition(t)

(* What a call can do to the list: nothing, with an error; append a symbol *)
(* whose label is new or external; or merge into the first one.            *)
AddSymbolEffect(table, label, address, flag, r) ==
    LET k == findSymbolInTable(table, label)
    IN  \/ r.ec \in ErrorCode \ {GOOD} /\ r.table = table
        \/ /\ r.ec = GOOD /\ label \in Labels
           /\ k = 0 \/ flag = "EXTERNAL"
           /\ r.table = Append(table, newSymbol(label, address, flag))
        \/ /\ r.ec = GOOD /\ label \in Labels
           /\ k # 0 /\ flag # "EXTERNAL"
           /\ Mergeable(table[k], address, flag)
           /\ r.table = [table EXCEPT ![k] = Merge(table[k], address, flag)]

(* The names that pass the test are the labels.                            *)
LEMMA ValidLabels == \A n : isValidLabel(n) = GOOD => n \in Labels
<1> SUFFICES ASSUME NEW n, isValidLabel(n) = GOOD PROVE n \in Labels
  OBVIOUS
<1>1. /\ n \notin DataDirectives \cup DOMAIN INSTRUCTIONS
      /\ n \in Words /\ NameLen[n] - 1 <= MAX_LABEL_LENGTH
  BY DEF isValidLabel, isReservedKeyword, GOOD
<1>2. NameLen[n] \in Nat
  BY <1>1, NamesAssumption
<1> QED BY <1>1, <1>2 DEF Labels, MAX_LABEL_LENGTH

(* Each of them is one of the names.                                       *)
LEMMA LabelsAreNames == Labels \subseteq Names
BY NamesAssumption DEF Labels

(* A call of addSymbol has no other effect.                                *)
LEMMA AddSymbolCases ==
    ASSUME NEW table \in Seq(Symbol), NEW label, NEW address, NEW flag,
           NEW r \in AddSymbolOutcomes(table, label, address, flag)
    PROVE  AddSymbolEffect(table, label, address, flag, r)
<1> DEFINE k == findSymbolInTable(table, label)
<1>1. isValidLabel(label) \in ErrorCode
  BY DEF isValidLabel, ErrorCode, GOOD
<1>2. isValidLabel(label) = GOOD => label \in Labels
  BY ValidLabels
<1>3. CASE r = [ec |-> "INSUFFICIENT_MEMORY", table |-> table]
  BY <1>3 DEF ErrorCode, GOOD, AddSymbolEffect
<1>4. CASE r = addSymbol(table, label, address, flag)
  <2>1. CASE isValidLabel(label) # GOOD
    <3>1. r = [ec |-> isValidLabel(label), table |-> table]
      BY <1>4, <2>1 DEF addSymbol
    <3> QED BY <3>1, <2>1, <1>1 DEF AddSymbolEffect
  <2>2. CASE isValidLabel(label) = GOOD /\ (k = 0 \/ flag = "EXTERNAL")
    <3>1. r = [ec |-> GOOD, table |-> Append(table, newSymbol(label, address, flag))]
      BY <1>4, <2>2 DEF addSymbol
    <3> QED BY <3>1, <2>2, <1>2 DEF AddSymbolEffect
  <2>3. CASE isValidLabel(label) = GOOD /\ ~(k = 0 \/ flag = "EXTERNAL")
    <3>1. CASE Mergeable(table[k], address, flag)
      <4>1. r = [ec |-> GOOD,
                 table |-> [table EXCEPT ![k] = Merge(table[k], address, flag)]]
        BY <1>4, <2>3, <3>1 DEF addSymbol
      <4> QED BY <4>1, <2>3, <3>1, <1>2 DEF AddSymbolEffect
    <3>2. CASE ~Mergeable(table[k], address, flag)
      <4>1. r = [ec |-> "ERR_LABEL_ALREADY_DEFINED", table |-> table]
        BY <1>4, <2>3, <3>2 DEF addSymbol
      <4> QED BY <4>1 DEF ErrorCode, GOOD, AddSymbolEffect
    <3> QED BY <3>1, <3>2
  <2> QED BY <2>1, <2>2, <2>3
<1> QED BY <1>3, <1>4 DEF AddSymbolOutcomes

(* Merging gives the symbol of a name .entry mentioned its one meaning.    *)
LEMMA MergeKeepsMeaning ==
    ASSUME NEW s \in Symbol, OneMeaning(s), NEW address, NEW flag,
           Call(address, flag), flag # "EXTERNAL", Mergeable(s, address, flag)
    PROVE  /\ Merge(s, address, flag) \in Symbol
           /\ Merge(s, address, flag).label = s.label
           /\ OneMeaning(Merge(s, address, flag))
<1> DEFINE m == Merge(s, address, flag)
<1>1. /\ s.label \in Labels /\ s.address \in Int /\ s.attributes \in SUBSET Flags
      /\ address \in Int
  BY DEF Symbol, Call
<1>2. m = [label |-> s.label,
           address |-> IF address = -1 THEN s.address ELSE address,
           attributes |-> s.attributes \cup {flag}]
  BY DEF Merge
<1>3. m \in Symbol /\ m.label = s.label
  BY <1>1, <1>2 DEF Symbol, Call, Flags
<1>4. CASE flag = "ENTRY" /\ address = -1
  <2>1. m.attributes = s.attributes \cup {"ENTRY"} /\ m.address = s.address
    BY <1>2, <1>4
  <2>2. OneMeaning(m)
    BY <1>1, <2>1 DEF OneMeaning
  <2> QED BY <1>3, <2>2
<1>5. CASE flag \in {"DATA", "CODE"} /\ address \in Nat
  <2>1. s.attributes = {"ENTRY"}
    BY <1>1, <1>5 DEF Mergeable, OneMeaning
  <2>2. m.attributes = {"ENTRY", flag} /\ m.address = address
    BY <1>2, <1>5, <2>1
  <2>3. OneMeaning(m)
    BY <1>5, <2>2 DEF OneMeaning
  <2> QED BY <1>3, <2>3
<1> QED BY <1>4, <1>5 DEF Call

(* No call makes the table define a label twice or give it two kinds.      *)
LEMMA AddSymbolKeepsTable ==
    ASSUME NEW table, TableOK(table), NEW label, NEW address, NEW flag,
           Call(address, flag),
           NEW r \in AddSymbolOutcomes(table, label, address, flag)
    PROVE  r.ec \in ErrorCode /\ TableOK(r.table)
<1> DEFINE k == findSymbolInTable(table, label)
<1>1. table \in Seq(Symbol) /\ Len(table) \in Nat /\ DOMAIN table = 1..Len(table)
  BY DEF TableOK
<1>2. \/ k = 0 /\ \A i \in DOMAIN table : table[i].label # label
      \/ /\ k \in DOMAIN table
         /\ table[k].label = label
         /\ \A i \in DOMAIN table : table[i].label = label => k <= i
  BY <1>1, FindIsFirst
<1>3. CASE r.ec \in ErrorCode \ {GOOD} /\ r.table = table
  BY <1>3
<1>4. CASE /\ r.ec = GOOD /\ label \in Labels
           /\ k = 0 \/ flag = "EXTERNAL"
           /\ r.table = Append(table, newSymbol(label, address, flag))
  <2> DEFINE new == newSymbol(label, address, flag)
             t == r.table
             n == Len(table) + 1
  <2>1. new \in Symbol /\ OneMeaning(new)
    <3>1. new = [label |-> label, address |-> address, attributes |-> {flag}]
      BY DEF newSymbol
    <3>2. label \in Labels /\ address \in Int /\ {flag} \in SUBSET Flags
      BY <1>4 DEF Call, Flags
    <3>3. OneMeaning(new)
      BY <3>1 DEF Call, OneMeaning
    <3> QED BY <3>1, <3>2, <3>3 DEF Symbol
  <2>2. /\ t \in Seq(Symbol) /\ DOMAIN t = 1..n /\ t[n] = new
        /\ \A i \in DOMAIN table : t[i] = table[i]
    BY <1>1, <1>4, <2>1
  <2>3. ASSUME NEW i \in DOMAIN t PROVE OneMeaning(t[i])
    BY <1>1, <2>1, <2>2 DEF TableOK
  <2>4. ASSUME NEW i \in DOMAIN t, NEW j \in DOMAIN t, i < j, t[i].label = t[j].label
        PROVE  t[j].attributes = {"EXTERNAL"}
    <3>1. CASE j = n
      <4>1. i \in DOMAIN table /\ table[i].label = label
        BY <1>1, <2>2, <2>4, <3>1 DEF newSymbol
      <4>2. flag = "EXTERNAL"
        BY <1>1, <1>2, <1>4, <4>1
      <4> QED BY <2>2, <3>1, <4>2 DEF newSymbol
    <3>2. CASE j # n
      BY <1>1, <2>2, <2>4, <3>2 DEF TableOK, OneDefinition
    <3> QED BY <3>1, <3>2
  <2> QED BY <1>4, <2>2, <2>3, <2>4 DEF TableOK, OneDefinition, ErrorCode
<1>5. CASE /\ r.ec = GOOD /\ label \in Labels
           /\ k # 0 /\ flag # "EXTERNAL"
           /\ Mergeable(table[k], address, flag)
           /\ r.table = [table EXCEPT ![k] = Merge(table[k], address, flag)]
  <2> DEFINE m == Merge(table[k], address, flag)
             t == r.table
  <2>1. k \in DOMAIN table /\ table[k] \in Symbol /\ OneMeaning(table[k])
    BY <1>1, <1>2, <1>5 DEF TableOK
  <2>2. m \in Symbol /\ m.label = table[k].label /\ OneMeaning(m)
    BY <1>5, <2>1, MergeKeepsMeaning
  <2>3. /\ t \in Seq(Symbol) /\ DOMAIN t = DOMAIN table /\ t[k] = m
        /\ \A i \in DOMAIN table \ {k} : t[i] = table[i]
    BY <1>1, <1>5, <2>1, <2>2
  <2>4. \A i \in DOMAIN t : OneMeaning(t[i])
    BY <2>2, <2>3 DEF TableOK
  <2>5. ASSUME NEW i \in DOMAIN t, NEW j \in DOMAIN t, i < j, t[i].label = t[j].label
        PROVE  t[j].attributes = {"EXTERNAL"}
    <3>1. table[i].label = table[j].label
      BY <2>1, <2>2, <2>3, <2>5
    <3>2. j # k
      BY <1>1, <1>2, <2>1, <2>3, <2>5, <3>1
    <3> QED BY <2>3, <2>5, <3>1, <3>2 DEF TableOK, OneDefinition
  <2> QED BY <1>5, <2>3, <2>4, <2>5 DEF TableOK, OneDefinition, ErrorCode
<1>6. AddSymbolEffect(table, label, address, flag, r)
  BY <1>1, AddSymbolCases
<1> QED BY <1>3, <1>4, <1>5, <1>6 DEF AddSymbolEffect

(* Relocation moves data and changes neither labels nor kinds.             *)
LEMMA RelocateKeepsTable ==
    ASSUME NEW table, TableOK(table), NEW ic \in Nat
    PROVE  TableOK(Relocate(table, ic))
<1> DEFINE t == Relocate(table, ic)
<1>1. table \in Seq(Symbol) /\ Len(table) \in Nat /\ DOMAIN table = 1..Len(table)
  BY DEF TableOK
<1>2. ASSUME NEW i \in DOMAIN table
      PROVE  /\ t[i] \in Symbol /\ OneMeaning(t[i])
             /\ t[i].label = table[i].label
             /\ t[i].attributes = table[i].attributes
  <2>1. table[i] \in Symbol /\ OneMeaning(table[i])
    BY <1>1 DEF TableOK
  <2>2. CASE "DATA" \in table[i].attributes
    <3>1. t[i] = [table[i] EXCEPT !.address = @ + ic]
      BY <2>2 DEF Relocate
    <3>2. t[i] = [label |-> table[i].label, address |-> table[i].address + ic,
                  attributes |-> table[i].attributes]
      BY <3>1, <2>1 DEF Symbol
    <3>3. table[i].address \in Nat
      BY <2>1, <2>2 DEF OneMeaning, Symbol
    <3>4. "EXTERNAL" \notin table[i].attributes
      BY <2>1, <2>2 DEF OneMeaning
    <3> QED BY <2>1, <2>2, <3>2, <3>3, <3>4 DEF OneMeaning, Symbol
  <2>3. CASE "DATA" \notin table[i].attributes
    BY <2>1, <2>3 DEF Relocate
  <2> QED BY <2>2, <2>3
<1>3. DOMAIN t = 1..Len(table)
  BY <1>1 DEF Relocate
<1>4. t \in Seq(Symbol)
  BY <1>1, <1>2 DEF Relocate
<1> QED BY <1>1, <1>2, <1>3, <1>4 DEF TableOK, OneDefinition

-------------------------------------------------------------------------------
(* What a table says of a name.                                            *)

(* Some symbol of that name has this flag.                                 *)
Marked(t, n, flag) == \E k \in DOMAIN t : t[k].label = n /\ flag \in t[k].attributes

(* The symbol of that name a search finds has this flag and address.       *)
Resolves(t, n, flag, address) ==
    LET k == findSymbolInTable(t, n)
    IN  k # 0 /\ flag \in t[k].attributes /\ t[k].address = address

(* A call that succeeds has entered what it was given.                     *)
LEMMA AddSymbolEnters ==
    ASSUME NEW table, TableOK(table), NEW label, NEW address, NEW flag,
           Call(address, flag),
           NEW r \in AddSymbolOutcomes(table, label, address, flag), r.ec = GOOD
    PROVE  /\ Marked(r.table, label, flag)
           /\ flag \in {"DATA", "CODE"} => Resolves(r.table, label, flag, address)
<1> DEFINE k == findSymbolInTable(table, label)
<1>1. table \in Seq(Symbol) /\ Len(table) \in Nat /\ DOMAIN table = 1..Len(table)
  BY DEF TableOK
<1>2. AddSymbolEffect(table, label, address, flag, r)
  BY <1>1, AddSymbolCases
<1>3. CASE /\ label \in Labels /\ (k = 0 \/ flag = "EXTERNAL")
           /\ r.table = Append(table, newSymbol(label, address, flag))
  <2> DEFINE new == newSymbol(label, address, flag)
  <2>1. new = [label |-> label, address |-> address, attributes |-> {flag}]
    BY DEF newSymbol
  <2>2. new \in Symbol
    BY <1>2, <2>1, NamesAssumption DEF AddSymbolEffect, Symbol, Call, Flags, GOOD
  <2> HIDE DEF new
  <2>3. /\ r.table \in Seq(Symbol) /\ DOMAIN r.table = 1..Len(table) + 1
        /\ r.table[Len(table) + 1] = new
    BY <1>1, <1>3, <2>2 DEF new
  <2>4. Marked(r.table, label, flag)
    BY <1>1, <2>1, <2>3 DEF Marked
  <2>5. ASSUME flag \in {"DATA", "CODE"} PROVE Resolves(r.table, label, flag, address)
    <3>1. k = 0
      BY <1>3, <2>5
    <3>2. findSymbolInTable(r.table, label) = Len(table) + 1
      BY <1>1, <1>3, <2>1, <2>2, <3>1, FindInAppend DEF new
    <3> QED BY <1>1, <2>1, <2>3, <3>2 DEF Resolves
  <2> QED BY <2>4, <2>5
<1>4. CASE /\ k # 0 /\ flag # "EXTERNAL" /\ Mergeable(table[k], address, flag)
           /\ r.table = [table EXCEPT ![k] = Merge(table[k], address, flag)]
  <2> DEFINE m == Merge(table[k], address, flag)
  <2>1. k \in DOMAIN table /\ table[k] \in Symbol /\ OneMeaning(table[k])
        /\ table[k].label = label
    BY <1>1, <1>4, FindIsFirst DEF TableOK
  <2>2. m \in Symbol /\ m.label = label
    BY <1>4, <2>1, MergeKeepsMeaning
  <2>3. flag \in m.attributes /\ m.address = IF address = -1 THEN table[k].address ELSE address
    BY DEF Merge
  <2> HIDE DEF m
  <2>4. /\ r.table \in Seq(Symbol) /\ DOMAIN r.table = DOMAIN table /\ r.table[k] = m
        /\ \A i \in DOMAIN table \ {k} : r.table[i] = table[i]
    BY <1>1, <1>4, <2>1, <2>2 DEF m
  <2>5. Marked(r.table, label, flag)
    BY <2>1, <2>2, <2>3, <2>4 DEF Marked
  <2>6. findSymbolInTable(r.table, label) = k
    <3>1. \A i \in DOMAIN table : r.table[i].label = table[i].label
      BY <2>1, <2>2, <2>4
    <3> QED BY <1>1, <2>4, <3>1, FindSameLabels
  <2>7. flag \in {"DATA", "CODE"} => m.address = address
    BY <2>3 DEF Call
  <2> QED BY <1>4, <2>3, <2>4, <2>5, <2>6, <2>7 DEF Resolves
<1> QED BY <1>2, <1>3, <1>4 DEF AddSymbolEffect

(* No call takes back what an earlier one has entered.                     *)
LEMMA AddSymbolKeepsEntered ==
    ASSUME NEW table, TableOK(table), NEW label, NEW address, NEW flag,
           Call(address, flag),
           NEW r \in AddSymbolOutcomes(table, label, address, flag), NEW n, NEW f
    PROVE  /\ Marked(table, n, f) => Marked(r.table, n, f)
           /\ \A a \in Nat : f \in {"DATA", "CODE"} /\ Resolves(table, n, f, a)
                               => Resolves(r.table, n, f, a)
<1> DEFINE k == findSymbolInTable(table, label)
           p == findSymbolInTable(table, n)
<1>1. table \in Seq(Symbol) /\ Len(table) \in Nat /\ DOMAIN table = 1..Len(table)
  BY DEF TableOK
<1>2. AddSymbolEffect(table, label, address, flag, r)
  BY <1>1, AddSymbolCases
<1>3. p # 0 => p \in DOMAIN table /\ table[p].label = n
  BY <1>1, FindIsFirst
<1>4. CASE r.table = table
  BY <1>4
<1>5. CASE /\ label \in Labels
           /\ r.table = Append(table, newSymbol(label, address, flag))
  <2> DEFINE new == newSymbol(label, address, flag)
  <2>1. new \in Symbol
    BY <1>5, NamesAssumption DEF newSymbol, Symbol, Call, Flags
  <2> HIDE DEF new
  <2>2. DOMAIN r.table = 1..Len(table) + 1 /\ \A i \in DOMAIN table : r.table[i] = table[i]
    BY <1>1, <1>5, <2>1 DEF new
  <2>3. p # 0 => findSymbolInTable(r.table, n) = p
    BY <1>1, <1>5, <2>1, FindInAppend DEF new
  <2> QED BY <1>1, <1>3, <2>2, <2>3 DEF Marked, Resolves
<1>6. CASE /\ k # 0 /\ flag # "EXTERNAL" /\ Mergeable(table[k], address, flag)
           /\ r.table = [table EXCEPT ![k] = Merge(table[k], address, flag)]
  <2> DEFINE m == Merge(table[k], address, flag)
  <2>1. k \in DOMAIN table /\ table[k] \in Symbol /\ OneMeaning(table[k])
        /\ table[k].label = label
    BY <1>1, <1>6, FindIsFirst DEF TableOK
  <2>2. m \in Symbol /\ m.label = label
    BY <1>6, <2>1, MergeKeepsMeaning
  <2>3. /\ m.attributes = table[k].attributes \cup {flag}
        /\ m.address = IF address = -1 THEN table[k].address ELSE address
    BY DEF Merge
  <2>4. ("DATA" \in table[k].attributes \/ "CODE" \in table[k].attributes)
            => m.address = table[k].address
    <3>1. table[k].address \in Int
      BY <2>1 DEF Symbol
    <3>2. CASE address = -1
      BY <2>3, <3>2
    <3>3. CASE address # -1
      <4>1. table[k].address = -1
        BY <1>6, <3>3 DEF Mergeable
      <4> QED BY <2>1, <4>1 DEF OneMeaning
    <3> QED BY <3>2, <3>3
  <2> HIDE DEF m
  <2>5. /\ r.table \in Seq(Symbol) /\ DOMAIN r.table = DOMAIN table /\ r.table[k] = m
        /\ \A i \in DOMAIN table \ {k} : r.table[i] = table[i]
    BY <1>1, <1>6, <2>1, <2>2 DEF m
  <2>6. findSymbolInTable(r.table, n) = p
    <3>1. \A i \in DOMAIN table : r.table[i].label = table[i].label
      BY <2>1, <2>2, <2>5
    <3> QED BY <1>1, <2>5, <3>1, FindSameLabels
  <2>7. Marked(table, n, f) => Marked(r.table, n, f)
    <3> SUFFICES ASSUME NEW i \in DOMAIN table, table[i].label = n, f \in table[i].attributes
                 PROVE  r.table[i].label = n /\ f \in r.table[i].attributes
      BY <2>5 DEF Marked
    <3> QED BY <2>1, <2>2, <2>3, <2>5
  <2> QED BY <1>3, <2>3, <2>4, <2>5, <2>6, <2>7 DEF Resolves
<1> QED BY <1>2, <1>4, <1>5, <1>6 DEF AddSymbolEffect

(* No call enters what it was not given.                                   *)
LEMMA AddSymbolEntersNoMore ==
    ASSUME NEW table, TableOK(table), NEW label, NEW address, NEW flag,
           Call(address, flag),
           NEW r \in AddSymbolOutcomes(table, label, address, flag),
           NEW n, NEW f, Marked(r.table, n, f)
    PROVE  Marked(table, n, f) \/ (r.ec = GOOD /\ n = label /\ f = flag)
<1> DEFINE k == findSymbolInTable(table, label)
<1>1. table \in Seq(Symbol) /\ Len(table) \in Nat /\ DOMAIN table = 1..Len(table)
  BY DEF TableOK
<1>2. AddSymbolEffect(table, label, address, flag, r)
  BY <1>1, AddSymbolCases
<1>3. PICK i \in DOMAIN r.table : r.table[i].label = n /\ f \in r.table[i].attributes
  BY DEF Marked
<1>4. CASE r.table = table
  BY <1>4
<1>5. CASE /\ r.ec = GOOD /\ label \in Labels
           /\ r.table = Append(table, newSymbol(label, address, flag))
  <2> DEFINE new == newSymbol(label, address, flag)
  <2>1. new = [label |-> label, address |-> address, attributes |-> {flag}]
    BY DEF newSymbol
  <2>2. new \in Symbol
    BY <1>5, <2>1, NamesAssumption DEF Symbol, Call, Flags
  <2> HIDE DEF new
  <2>3. /\ DOMAIN r.table = 1..Len(table) + 1 /\ r.table[Len(table) + 1] = new
        /\ \A j \in DOMAIN table : r.table[j] = table[j]
    BY <1>1, <1>5, <2>2 DEF new
  <2> QED BY <1>1, <1>3, <1>5, <2>1, <2>3 DEF Marked
<1>6. CASE /\ r.ec = GOOD /\ k # 0 /\ flag # "EXTERNAL" /\ Mergeable(table[k], address, flag)
           /\ r.table = [table EXCEPT ![k] = Merge(table[k], address, flag)]
  <2> DEFINE m == Merge(table[k], address, flag)
  <2>1. k \in DOMAIN table /\ table[k].label = label
    BY <1>1, <1>6, FindIsFirst
  <2>2. m.label = label /\ m.attributes = table[k].attributes \cup {flag}
    BY <2>1 DEF Merge
  <2> HIDE DEF m
  <2>3. /\ DOMAIN r.table = DOMAIN table /\ r.table[k] = m
        /\ \A j \in DOMAIN table \ {k} : r.table[j] = table[j]
    BY <1>1, <1>6, <2>1 DEF m
  <2> QED BY <1>3, <1>6, <2>1, <2>2, <2>3 DEF Marked
<1> QED BY <1>2, <1>4, <1>5, <1>6 DEF AddSymbolEffect

(* Relocation adds ic to the address of data and leaves the rest.          *)
LEMMA RelocateMoves ==
    ASSUME NEW table, TableOK(table), NEW ic \in Nat, NEW n
    PROVE  /\ \A f : Marked(Relocate(table, ic), n, f) <=> Marked(table, n, f)
           /\ \A a \in Nat :
                /\ Resolves(table, n, "DATA", a) => Resolves(Relocate(table, ic), n, "DATA", a + ic)
                /\ Resolves(table, n, "CODE", a) => Resolves(Relocate(table, ic), n, "CODE", a)
<1> DEFINE t == Relocate(table, ic)
           p == findSymbolInTable(table, n)
<1>1. table \in Seq(Symbol) /\ Len(table) \in Nat /\ DOMAIN table = 1..Len(table)
  BY DEF TableOK
<1>2. t \in Seq(Symbol)
  BY RelocateKeepsTable DEF TableOK
<1>3. ASSUME NEW i \in DOMAIN table
      PROVE  /\ t[i].label = table[i].label /\ t[i].attributes = table[i].attributes
             /\ t[i].address =
                  IF "DATA" \in table[i].attributes THEN table[i].address + ic
                  ELSE table[i].address
  BY <1>1 DEF Relocate, Symbol
<1>4. DOMAIN t = DOMAIN table
  BY DEF Relocate
<1> HIDE DEF t
<1>5. findSymbolInTable(t, n) = p
  BY <1>1, <1>2, <1>3, <1>4, FindSameLabels
<1>6. \A f : Marked(t, n, f) <=> Marked(table, n, f)
  BY <1>3, <1>4 DEF Marked
<1>7. p # 0 => p \in DOMAIN table
  BY <1>1, FindIsFirst
<1>8. p # 0 /\ "CODE" \in table[p].attributes => "DATA" \notin table[p].attributes
  BY <1>7 DEF TableOK, OneMeaning
<1> QED BY <1>3, <1>5, <1>6, <1>7, <1>8 DEF Resolves, t

-------------------------------------------------------------------------------
(* The number that is shifted for each byte in turn.                       *)
LEMMA ShiftedValues ==
    ASSUME NEW num \in Int
    PROVE  /\ Shifted(num) \in [0..3 -> Int]
           /\ Shifted(num)[0] = num
           /\ Shifted(num)[1] = num \div 2^8
           /\ Shifted(num)[2] = (num \div 2^8) \div 2^16
           /\ Shifted(num)[3] = ((num \div 2^8) \div 2^16) \div 2^24
<1> DEFINE Recursion(f) ==
             f = [j \in 0..3 |-> IF j = 0 THEN num ELSE f[j - 1] \div 2^(CHAR_BIT * j)]
           one == num \div 2^(CHAR_BIT * 1)
           two == one \div 2^(CHAR_BIT * 2)
           three == two \div 2^(CHAR_BIT * 3)
           g == [j \in 0..3 |-> IF j = 0 THEN num ELSE IF j = 1 THEN one
                                ELSE IF j = 2 THEN two ELSE three]
<1>1. Shifted(num) = CHOOSE f : Recursion(f)
  BY DEF Shifted
<1>2. Recursion(g)
  <2>1. ASSUME NEW j \in 0..3
        PROVE  g[j] = IF j = 0 THEN num ELSE g[j - 1] \div 2^(CHAR_BIT * j)
    BY j \in {0, 1, 2, 3}
  <2> QED BY <2>1
<1>3. Recursion(Shifted(num))
  BY <1>1, <1>2
<1>4. one \in Int /\ two \in Int /\ three \in Int
  BY DEF CHAR_BIT
<1>5. ASSUME NEW f, Recursion(f) PROVE f = g
  <2>1. f[0] = num /\ f[1] = one /\ f[2] = two /\ f[3] = three
    BY <1>5
  <2> QED BY <1>5, <2>1
<1>6. Shifted(num) = g
  BY <1>3, <1>5
<1>7. CHAR_BIT * 1 = 8 /\ CHAR_BIT * 2 = 16 /\ CHAR_BIT * 3 = 24
  BY DEF CHAR_BIT
<1>8. one = num \div 2^8 /\ two = one \div 2^16 /\ three = two \div 2^24
  BY <1>7, Zenon
<1>9. Shifted(num) \in [0..3 -> Int]
  BY <1>4, <1>6
<1>10. /\ Shifted(num)[0] = num /\ Shifted(num)[1] = one
       /\ Shifted(num)[2] = two /\ Shifted(num)[3] = three
  BY <1>6
<1> HIDE DEF g, one, two, three
<1>11. /\ Shifted(num)[1] = num \div 2^8
       /\ Shifted(num)[2] = (num \div 2^8) \div 2^16
       /\ Shifted(num)[3] = ((num \div 2^8) \div 2^16) \div 2^24
  BY <1>8, <1>10, Zenon
<1> QED BY <1>9, <1>10, <1>11, Zenon

(* An element that passes the check; the first that does not is reported.  *)
FitsInto(o, size) == o.kind = "num" /\ ~outOfBounds(o.val, size)

(* ParameterError is the error of the first parameter that does not fit.   *)
LEMMA ParameterErrorCases ==
    ASSUME NEW params \in Seq(Operand), NEW size
    PROVE  LET e == ParameterError(params, size)
           IN  \/ e = GOOD /\ \A i \in DOMAIN params : FitsInto(params[i], size)
               \/ \E k \in DOMAIN params :
                    /\ ~FitsInto(params[k], size)
                    /\ \A j \in 1..k - 1 : FitsInto(params[j], size)
                    /\ e = IF params[k].kind # "num" THEN "INVALID_PARAMETER"
                           ELSE "OUT_OF_RANGE_PARAMETER"
<1> DEFINE wrong == {i \in DOMAIN params : ~FitsInto(params[i], size)}
           first == CHOOSE i \in wrong : \A j \in wrong : i <= j
<1>1. wrong = {i \in DOMAIN params :
                 params[i].kind # "num" \/ outOfBounds(params[i].val, size)}
  BY DEF FitsInto
<1>2. ParameterError(params, size) =
        IF wrong = {} THEN GOOD
        ELSE IF params[first].kind # "num" THEN "INVALID_PARAMETER"
        ELSE "OUT_OF_RANGE_PARAMETER"
  BY <1>1, Zenon DEF ParameterError
<1>3. wrong \in SUBSET (1..Len(params)) /\ Len(params) \in Nat
      /\ DOMAIN params = 1..Len(params)
  OBVIOUS
<1>4. CASE wrong = {}
  BY <1>2, <1>4
<1>5. CASE wrong # {}
  <2>1. first \in wrong /\ \A j \in wrong : first <= j
    <3> HIDE DEF wrong
    <3>1. \E i \in wrong : \A j \in wrong : i <= j
      BY <1>3, <1>5, MinOfPositions
    <3> QED BY <3>1
  <2> HIDE DEF first
  <2>2. \A j \in 1..first - 1 : FitsInto(params[j], size)
    BY <1>3, <2>1
  <2> QED BY <1>2, <1>5, <2>1, <2>2
<1> QED BY <1>4, <1>5

(* Elements that pass the check are numbers; a failed check is an error.   *)
LEMMA ParameterErrorType ==
    ASSUME NEW params \in Seq(Operand), NEW size
    PROVE  /\ ParameterError(params, size) \in ErrorCode
           /\ ParameterError(params, size) = GOOD =>
                \A i \in DOMAIN params : params[i].kind = "num"
BY ParameterErrorCases DEF ErrorCode, GOOD, FitsInto

(* % 256 cuts a number to a byte.                                          *)
LEMMA CutToByte == \A x \in Int : x % 256 \in Char
BY DEF Char

(* The bytes of a list of numbers.                                         *)
LEMMA NumberBytes ==
    ASSUME NEW params \in Seq(Operand), NEW size \in {1, 2, 4},
           \A i \in DOMAIN params : params[i].kind = "num"
    PROVE  /\ lineParametersToBytes(params, size) \in Seq(Char)
           /\ Len(lineParametersToBytes(params, size)) = size * Len(params)
<1> DEFINE n == size * Len(params)
           b == lineParametersToBytes(params, size)
<1>1. Len(params) \in Nat /\ DOMAIN params = 1..Len(params) /\ n \in Nat
  OBVIOUS
<1>2. ASSUME NEW i \in DOMAIN params PROVE params[i].val \in Int
  <2>1. params[i] \in Operand /\ params[i].kind = "num"
    BY <1>1
  <2> QED BY <2>1 DEF Operand
<1>3. ASSUME NEW k \in 1..n
      PROVE  /\ (k - 1) \div size + 1 \in DOMAIN params
             /\ (k - 1) % size \in 0..3
  BY <1>1
<1>4. ASSUME NEW k \in 1..n
      PROVE  Shifted(params[(k - 1) \div size + 1].val)[(k - 1) % size] % 256 \in Char
  <2> DEFINE num == params[(k - 1) \div size + 1].val
             j == (k - 1) % size
  <2>1. num \in Int /\ j \in 0..3
    BY <1>2, <1>3
  <2>2. Shifted(num)[j] \in Int
    <3> HIDE DEF num, j
    <3> QED BY <2>1, ShiftedValues
  <2> HIDE DEF num, j
  <2> QED BY <2>2, CutToByte DEF num, j
<1>5. b = [k \in 1..n |-> Shifted(params[(k - 1) \div size + 1].val)[(k - 1) % size] % 256]
  BY DEF lineParametersToBytes
<1>6. b \in [1..n -> Char]
  BY <1>4, <1>5
<1> HIDE DEF b, n
<1>7. b \in Seq(Char) /\ Len(b) = n
  BY <1>1, <1>6
<1> QED BY <1>7 DEF b, n

(* A line of a data directive, with the label's error code on entry: the   *)
(* bytes are text with its zero or as many as the elements take.           *)
LEMMA DirectiveBytes ==
    ASSUME NEW l \in Line, WellFormed(l), l.error = GOOD, isLineDirective(l),
           l.head = ".asciz" => l.params # <<>>,
           NEW ec \in ErrorCode, NEW r \in directiveToBytes(l, ec)
    PROVE  /\ r.ec \in ErrorCode /\ r.bytes \in Seq(Char)
           /\ r.ec = GOOD =>
                Len(r.bytes) = IF l.head = ".asciz" THEN Len(l.params[1].val) + 1
                               ELSE directiveTypeToSize(l.head) * Len(l.params)
<1>1. l.params \in Seq(Operand)
  BY DEF Line
<1>3. CASE l.head = ".asciz"
  <2> DEFINE str == l.params[1].val
             found == IF \A i \in DOMAIN str : isprint(str[i])
                      THEN GOOD ELSE "ASCIZ_ILLEGAL_CHAR"
  <2>1. Len(l.params) = 1 /\ l.params[1].kind = "str"
    BY <1>3 DEF WellFormed
  <2>2. str \in Seq(Char)
    BY <1>1, <2>1 DEF Operand
  <2>3. ascizParametersToBytes(str) \in Seq(Char)
        /\ Len(ascizParametersToBytes(str)) = Len(str) + 1
    BY <2>2 DEF ascizParametersToBytes, Char
  <2>4. \/ r.ec = found /\ found # GOOD /\ r.bytes = <<>>
        \/ r.ec = ec /\ ec # GOOD /\ r.bytes = <<>>
        \/ r.ec = GOOD /\ r.bytes = ascizParametersToBytes(str)
        \/ r.ec = "INSUFFICIENT_MEMORY" /\ r.bytes = <<>>
    BY <1>3 DEF directiveToBytes
  <2>5. r.ec \in ErrorCode
    BY <2>4 DEF ErrorCode, GOOD
  <2>6. r.bytes = <<>> \/ r.bytes = ascizParametersToBytes(str)
    BY <2>4
  <2>7. r.bytes \in Seq(Char)
    BY <2>3, <2>6, EmptySeq
  <2>8. r.ec = GOOD => r.bytes = ascizParametersToBytes(str)
    BY <2>4 DEF GOOD
  <2> QED BY <1>3, <2>3, <2>5, <2>7, <2>8
<1>4. CASE l.head # ".asciz"
  <2> DEFINE size == directiveTypeToSize(l.head)
             found == ParameterError(l.params, size)
             bytes == lineParametersToBytes(l.params, size)
  <2>1. size \in {1, 2, 4}
    BY <1>4 DEF isLineDirective, DataDirectives, directiveTypeToSize
  <2>2. \/ r.ec = found /\ found # GOOD /\ r.bytes = <<>>
        \/ r.ec = ec /\ ec # GOOD /\ r.bytes = <<>>
        \/ r.ec = GOOD /\ found = GOOD /\ r.bytes = bytes
        \/ r.ec = "INSUFFICIENT_MEMORY" /\ r.bytes = <<>>
    BY <1>4 DEF directiveToBytes
  <2>3. found \in ErrorCode /\ (found = GOOD => \A i \in DOMAIN l.params : l.params[i].kind = "num")
    BY <1>1, ParameterErrorType
  <2>4. found = GOOD => bytes \in Seq(Char) /\ Len(bytes) = size * Len(l.params)
    BY <1>1, <2>1, <2>3, NumberBytes
  <2>5. r.ec \in ErrorCode
    BY <2>2, <2>3 DEF ErrorCode, GOOD
  <2> HIDE DEF bytes, found
  <2>6. r.bytes = <<>> \/ (found = GOOD /\ r.bytes = bytes)
    BY <2>2
  <2>7. r.bytes \in Seq(Char)
    BY <2>4, <2>6, EmptySeq
  <2>8. r.ec = GOOD => found = GOOD /\ r.bytes = bytes
    BY <2>2 DEF GOOD
  <2> QED BY <1>4, <2>4, <2>5, <2>7, <2>8
<1> QED BY <1>3, <1>4

(* A label that was rejected lets no bytes through.                        *)
LEMMA DirectiveBytesNeedLabel ==
    ASSUME NEW l, NEW ec, NEW r \in directiveToBytes(l, ec), r.ec = GOOD
    PROVE  ec = GOOD
<1> SUFFICES ASSUME ec # GOOD PROVE FALSE
  OBVIOUS
<1> DEFINE str == l.params[1].val
           found == IF l.head = ".asciz"
                    THEN IF \A i \in DOMAIN str : isprint(str[i])
                         THEN GOOD ELSE "ASCIZ_ILLEGAL_CHAR"
                    ELSE ParameterError(l.params, directiveTypeToSize(l.head))
<1>1. r \in {[ec |-> found, bytes |-> <<>>], [ec |-> ec, bytes |-> <<>>]}
      /\ (r = [ec |-> found, bytes |-> <<>>] => found # GOOD \/ r.ec = ec)
  BY DEF directiveToBytes
<1> HIDE DEF found
<1> QED BY <1>1

-------------------------------------------------------------------------------
(* The bits of a number and the bytes of a word.                           *)

(* The powers a number of five bits, or of 25, does not reach.             *)
LEMMA LargePowers ==
    \A b \in 5..30 : 2^b \in Nat /\ 2^b >= 32 /\ (b >= 25 => 2^b >= 2^25)
<1> SUFFICES ASSUME NEW b \in 5..30
             PROVE  2^b \in Nat /\ 2^b >= 32 /\ (b >= 25 => 2^b >= 2^25)
  OBVIOUS
<1> DEFINE S == {5, 6, 7, 8, 9, 10, 11, 12, 13, 14, 15, 16, 17, 18, 19, 20, 21, 22, 23, 24}
           T == {25, 26, 27, 28, 29, 30}
<1>1. b \in S \/ b \in T
  OBVIOUS
<1>2. {2^c : c \in S} = {32, 64, 128, 256, 512, 1024, 2048, 4096, 8192, 16384, 32768, 65536,
                         131072, 262144, 524288, 1048576, 2097152, 4194304, 8388608, 16777216}
  OBVIOUS
<1>3. {2^c : c \in T} = {33554432, 67108864, 134217728, 268435456, 536870912, 1073741824}
  OBVIOUS
<1>4. b \in S => 2^b \in {2^c : c \in S}
  OBVIOUS
<1>5. b \in S => b < 25
  OBVIOUS
<1>6. b \in T => 2^b \in {2^c : c \in T}
  OBVIOUS
<1> HIDE DEF S, T
<1> QED BY <1>1, <1>2, <1>3, <1>4, <1>5, <1>6, SMT

(* A number below the divisor has no quotient.                             *)
LEMMA DivSmall == \A n, d \in Nat : n < d => n \div d = 0 /\ (n \div d) % 2 # 1
<1> SUFFICES ASSUME NEW n \in Nat, NEW d \in Nat, n < d
             PROVE  n \div d = 0 /\ (n \div d) % 2 # 1
  OBVIOUS
<1>1. n \div d = 0
  OBVIOUS
<1>2. 0 % 2 # 1
  OBVIOUS
<1> QED BY <1>1, <1>2, Zenon

(* A register number has five bits, an address that is in reach 25.        *)
LEMMA SmallBits ==
    ASSUME NEW n \in Nat
    PROVE  (n < 32 => Bits(n) \subseteq 0..4) /\ (n < 2^25 => Bits(n) \subseteq 0..24)
<1>1. \A b \in Bits(n) : b \in 0..30 /\ (n \div 2^b) % 2 = 1
  <2>1. ~(n < 0)
    OBVIOUS
  <2> QED BY <2>1, Zenon DEF Bits
<1>2. ASSUME n < 32, NEW b \in Bits(n) PROVE b \in 0..4
  <2> SUFFICES ASSUME b \in 5..30 PROVE FALSE
    BY <1>1
  <2>1. 2^b \in Nat /\ 2^b >= 32
    BY LargePowers, Zenon
  <2>2. n < 2^b
    BY <1>2, <2>1, SMT
  <2> QED BY <1>1, <2>1, <2>2, DivSmall, Zenon
<1>3. ASSUME n < 2^25, NEW b \in Bits(n) PROVE b \in 0..24
  <2> SUFFICES ASSUME b \in 25..30 PROVE FALSE
    BY <1>1
  <2>1. b \in 5..30 /\ b >= 25
    OBVIOUS
  <2>2. 2^b \in Nat /\ 2^b >= 2^25
    BY <2>1, LargePowers, Zenon
  <2>3. n < 2^b
    BY <1>3, <2>2, SMT
  <2> QED BY <1>1, <2>2, <2>3, DivSmall, Zenon
<1> QED BY <1>2, <1>3

(* Two by two the halves of a number add up to it.                         *)
LEMMA EightBits ==
    ASSUME NEW n \in Int
    PROVE  n % 256 = (n % 2) + 2 * ((n \div 2) % 2) + 4 * ((n \div 4) % 2)
             + 8 * ((n \div 8) % 2) + 16 * ((n \div 16) % 2) + 32 * ((n \div 32) % 2)
             + 64 * ((n \div 64) % 2) + 128 * ((n \div 128) % 2)
<1>1. \A m \in Int : m = 2 * (m \div 2) + (m % 2)
  OBVIOUS
<1>2. n \div 4 = (n \div 2) \div 2
  OBVIOUS
<1>3. n \div 8 = (n \div 4) \div 2
  OBVIOUS
<1>4. n \div 16 = (n \div 8) \div 2
  OBVIOUS
<1>5. n \div 32 = (n \div 16) \div 2
  OBVIOUS
<1>6. n \div 64 = (n \div 32) \div 2
  OBVIOUS
<1>7. n \div 128 = (n \div 64) \div 2
  OBVIOUS
<1>8. n \div 256 = (n \div 128) \div 2
  OBVIOUS
<1>9. n = 256 * (n \div 256) + (n % 256)
  OBVIOUS
<1>10. n = 256 * (n \div 256) + (n % 2) + 2 * ((n \div 2) % 2) + 4 * ((n \div 4) % 2)
             + 8 * ((n \div 8) % 2) + 16 * ((n \div 16) % 2) + 32 * ((n \div 32) % 2)
             + 64 * ((n \div 64) % 2) + 128 * ((n \div 128) % 2)
  BY <1>1, <1>2, <1>3, <1>4, <1>5, <1>6, <1>7, <1>8
<1> QED BY <1>9, <1>10

-------------------------------------------------------------------------------
(* The verdicts of parseInstruction.                                       *)

(* What comes out of a list of checks.                                     *)
IsList(checks) == \E n \in Nat : DOMAIN checks = 1..n

AllGood(checks) == \A i \in DOMAIN checks : checks[i] = GOOD

Verdict(r, checks, word, ext) ==
    /\ r.ext = ext
    /\ r.ec = GOOD <=> AllGood(checks)
    /\ r.ec = GOOD => r.word = word

(* GOOD is returned with the word if and only if every check passes.       *)
LEMMA OutcomeGood ==
    \A checks, word, ext :
        IsList(checks) => Verdict(Outcome(checks, word, ext), checks, word, ext)
<1> SUFFICES ASSUME NEW checks, IsList(checks), NEW word, NEW ext
             PROVE  Verdict(Outcome(checks, word, ext), checks, word, ext)
  OBVIOUS
<1>1. PICK n \in Nat : DOMAIN checks = 1..n
  BY DEF IsList
<1> DEFINE wrong == {i \in DOMAIN checks : checks[i] # GOOD}
<1>2. CASE wrong = {}
  BY <1>2 DEF Outcome, Verdict, AllGood
<1>3. CASE wrong # {}
  <2>1. wrong \in SUBSET (1..n)
    BY <1>1
  <2>2. Min(wrong) \in wrong
    <3> HIDE DEF wrong
    <3> QED BY <1>3, <2>1, MinOfPositions
  <2> QED BY <1>3, <2>2 DEF Outcome, Verdict, AllGood
<1> QED BY <1>2, <1>3

(* When an operand passes its check.                                       *)
RegisterAt(p, k) == k <= Len(p) /\ p[k].kind = "reg" /\ p[k].val \in 0..31

Immed == 1 - 2^16 .. 2^16 - 2
NumberAt(p, k) == k <= Len(p) /\ p[k].kind = "num" /\ p[k].val \in Immed

(* The range test of an immediate.                                         *)
LEMMA ImmedBounds ==
    ASSUME NEW v \in Int
    PROVE  v \in Immed <=> ~(v <= -(2^16)) /\ ~(v >= 2^16 - 1)
<1>1. ASSUME NEW w \in Int PROVE v \in 1 - w .. w - 2 <=> ~(v <= -w) /\ ~(v >= w - 1)
  BY SMT
<1>2. 2^16 \in Int
  BY SMT
<1> QED BY <1>1, <1>2, Zenon DEF Immed

LabelAt(p, k) ==
    k <= Len(p) /\ p[k].kind = "name" /\ p[k].val \in Words /\ NameLen[p[k].val] <= 31

(* The check of a register passes for these operands.                      *)
LEMMA RegisterGood ==
    \A p \in Seq(Operand) : \A k \in {1, 2, 3} : parseRegister(p, k) = GOOD <=> RegisterAt(p, k)
BY DEF parseRegister, Missing, RegisterAt, GOOD

(* The check of an immediate passes for these operands.                    *)
LEMMA NumberGood ==
    \A p \in Seq(Operand) : readImmed(p, 2) = GOOD <=> NumberAt(p, 2)
<1> SUFFICES ASSUME NEW p \in Seq(Operand)
             PROVE  readImmed(p, 2) = GOOD <=> NumberAt(p, 2)
  OBVIOUS
<1> DEFINE out == p[2].val <= -(2^16) \/ p[2].val >= 2^16 - 1
<1>1. Len(p) \in Nat /\ (2 <= Len(p) => p[2] \in Operand)
  OBVIOUS
<1>2. 2 <= Len(p) /\ p[2].kind = "num" => p[2].val \in Int
  BY <1>1 DEF Operand
<1>3. 2 <= Len(p) /\ p[2].kind = "num" => (p[2].val \in Immed <=> ~out)
  BY <1>2, ImmedBounds, Zenon
<1>4. readImmed(p, 2) = IF Missing(p, 2) THEN "MISSING_ARGUMENTS"
                        ELSE IF p[2].kind # "num" THEN "ILLEAGLE_IMMED"
                        ELSE IF out THEN "IMMED_OUT_OF_RANGE"
                        ELSE GOOD
  BY DEF readImmed
<1> HIDE DEF out
<1>5. CASE 2 <= Len(p) /\ p[2].kind = "num"
  <2>1. ~Missing(p, 2)
    BY <1>1, <1>5 DEF Missing
  <2> QED BY <1>3, <1>4, <1>5, <2>1 DEF NumberAt, GOOD
<1>6. CASE ~(2 <= Len(p) /\ p[2].kind = "num")
  <2>1. Missing(p, 2) \/ p[2].kind # "num"
    BY <1>1, <1>6 DEF Missing
  <2> QED BY <1>4, <1>6, <2>1 DEF NumberAt, GOOD
<1> QED BY <1>5, <1>6

(* The check of the text of a label passes for these operands.             *)
LEMMA LabelTextGood ==
    \A p \in Seq(Operand) : \A k \in {1, 3} :
        /\ readLabel(p, k) = GOOD <=> LabelAt(p, k)
        /\ LabelAt(p, k) => p[k].val \in Names /\ p[k].val # NULL /\ LabelOf(p[k]) = p[k].val
<1>1. NULL \notin Words /\ NULL \notin Names /\ Words \subseteq Names
  BY NamesAssumption
<1> QED BY <1>1 DEF readLabel, LabelAt, LabelOf, GOOD

(* With the last operand in its place, the list is as long as it may be.   *)
LEMMA LastGood ==
    \A p \in Seq(Operand) : \A k \in {1, 2, 3} :
        k <= Len(p) => (NoMore(p, k) = GOOD <=> Len(p) = k)
BY DEF NoMore, GOOD

(* A label that is checked against the table.                              *)
LEMMA LabelGood ==
    \A p \in Seq(Operand) : \A k \in {1, 3} : \A st :
        LabelAt(p, k) =>
            /\ Known(p, k, st) = GOOD <=> findSymbolInTable(st, p[k].val) # 0
            /\ Local(p, k, st) = GOOD <=> ~IsExternal(p, k, st)
            /\ Find(p, k, st) = findSymbolInTable(st, p[k].val)
<1> SUFFICES ASSUME NEW p \in Seq(Operand), NEW k \in {1, 3}, NEW st, LabelAt(p, k)
             PROVE  /\ Known(p, k, st) = GOOD <=> findSymbolInTable(st, p[k].val) # 0
                    /\ Local(p, k, st) = GOOD <=> ~IsExternal(p, k, st)
                    /\ Find(p, k, st) = findSymbolInTable(st, p[k].val)
  BY Zenon
<1>1. ~(Len(p) < k) /\ LabelOf(p[k]) = p[k].val
  BY DEF LabelAt, LabelOf
<1> QED BY <1>1 DEF Known, Local, Find, GOOD

RegisterMoves == {"move", "mvlo", "mvhi"}
LabelBranches == {"bne", "beq", "blt", "bgt"}
LabelJumps == {"la", "call"}

(* What parseInstruction has found and what it returns when it accepts.    *)
Accepted(l, st, a, r) ==
    LET p == l.params
        inst == INSTRUCTIONS[l.head]
        known(k) == LabelAt(p, k) /\ findSymbolInTable(st, p[k].val) # 0
        at(k) == st[findSymbolInTable(st, p[k].val)]
        external(k) == "EXTERNAL" \in at(k).attributes
        jump == /\ Len(p) = 1 /\ known(1)
                /\ r.word = JWord(inst, 0, at(1).address)
                /\ r.ext = IF external(1) THEN p[1].val ELSE NULL
    IN  /\ l.head \in RegisterMoves =>
             /\ Len(p) = 2 /\ RegisterAt(p, 1) /\ RegisterAt(p, 2)
             /\ r.word = RWord(inst, p[1].val, 0, p[2].val)
        /\ l.head \in LabelBranches =>
             /\ Len(p) = 3 /\ RegisterAt(p, 1) /\ RegisterAt(p, 2) /\ known(3)
             /\ ~external(3)
             /\ r.word = IWord(inst, p[1].val, p[2].val, at(3).address - a)
        /\ l.head \in LabelJumps => jump
        /\ l.head = "jmp" =>
             \/ /\ Len(p) = 1 /\ RegisterAt(p, 1)
                /\ r.word = JWord(inst, 1, p[1].val) /\ r.ext = NULL
             \/ jump
        /\ l.head = "stop" => Len(p) = 0 /\ r.word = Shl(inst.opcode, 26)
        /\ l.head \notin LabelJumps \cup {"jmp"} => r.ext = NULL
        /\ l.head \notin RegisterMoves \cup LabelBranches \cup LabelJumps \cup {"jmp", "stop"} =>
             /\ l.head \in DOMAIN INSTRUCTIONS /\ Len(p) = 3
             /\ IF inst.type = "R"
                THEN /\ RegisterAt(p, 1) /\ RegisterAt(p, 2) /\ RegisterAt(p, 3)
                     /\ r.word = RWord(inst, p[1].val, p[2].val, p[3].val)
                ELSE /\ RegisterAt(p, 1) /\ NumberAt(p, 2) /\ RegisterAt(p, 3)
                     /\ r.word = IWord(inst, p[1].val, p[3].val, to16bit(p[2].val))

(* What instructionJ accepts, and the use of a label it notes.             *)
LEMMA AcceptedJ ==
    ASSUME NEW inst, NEW p \in Seq(Operand), NEW st
    PROVE  LET r == instructionJ(inst, p, st)
               k == findSymbolInTable(st, p[1].val)
           IN  /\ r.ec = GOOD <=> Len(p) = 1 /\ LabelAt(p, 1) /\ k # 0
               /\ r.ec = GOOD =>
                    /\ r.word = JWord(inst, 0, st[k].address)
                    /\ r.ext = IF "EXTERNAL" \in st[k].attributes THEN p[1].val ELSE NULL
               /\ r.ext # NULL =>
                    /\ LabelAt(p, 1) /\ k # 0 /\ "EXTERNAL" \in st[k].attributes
                    /\ r.ext = p[1].val
<1> DEFINE r == instructionJ(inst, p, st)
           k == findSymbolInTable(st, p[1].val)
           ext == IF readLabel(p, 1) = GOOD /\ IsExternal(p, 1, st) THEN p[1].val ELSE NULL
           checks == <<readLabel(p, 1), Known(p, 1, st), NoMore(p, 1)>>
           word == JWord(inst, 0, AddressOf(p, 1, st))
<1>1. IsList(checks)
  BY DEF IsList
<1>2. AllGood(checks) <=>
        readLabel(p, 1) = GOOD /\ Known(p, 1, st) = GOOD /\ NoMore(p, 1) = GOOD
  BY DEF AllGood
<1>3. r = Outcome(checks, word, ext)
  BY DEF instructionJ
<1> HIDE DEF checks, r, k
<1>4. Verdict(r, checks, word, ext)
  <2> HIDE DEF word, ext
  <2> QED BY <1>1, <1>3, OutcomeGood
<1>5. /\ readLabel(p, 1) = GOOD <=> LabelAt(p, 1)
      /\ LabelAt(p, 1) => (NoMore(p, 1) = GOOD <=> Len(p) = 1) /\ p[1].val # NULL
  BY LabelTextGood, LastGood DEF LabelAt
<1>6. LabelAt(p, 1) => /\ Find(p, 1, st) = k /\ (Known(p, 1, st) = GOOD <=> k # 0)
  BY LabelGood DEF k
<1>7. ext # NULL => LabelAt(p, 1) /\ k # 0 /\ "EXTERNAL" \in st[k].attributes /\ ext = p[1].val
  BY <1>5, <1>6 DEF IsExternal
<1>8. r.ec = GOOD <=> Len(p) = 1 /\ LabelAt(p, 1) /\ k # 0
  BY <1>2, <1>4, <1>5, <1>6, Zenon DEF Verdict
<1>9. LabelAt(p, 1) /\ k # 0 =>
        /\ word = JWord(inst, 0, st[k].address)
        /\ ext = IF "EXTERNAL" \in st[k].attributes THEN p[1].val ELSE NULL
  BY <1>5, <1>6 DEF IsExternal, AddressOf
<1> HIDE DEF ext, word
<1> QED BY <1>4, <1>7, <1>8, <1>9 DEF r, k, Verdict

(* What instructionJJMP accepts: a register, or what instructionJ accepts. *)
LEMMA AcceptedJmp ==
    ASSUME NEW inst, NEW p \in Seq(Operand), NEW st
    PROVE  LET r == instructionJJMP(inst, p, st)
               j == instructionJ(inst, p, st)
           IN  /\ r.ec = GOOD => IF RegisterAt(p, 1)
                                 THEN /\ Len(p) = 1 /\ r.ext = NULL
                                      /\ r.word = JWord(inst, 1, p[1].val)
                                 ELSE r = j
               /\ RegisterAt(p, 1) /\ Len(p) = 1 => r.ec = GOOD
               /\ LabelAt(p, 1) => r = j
               /\ r.ext = NULL \/ r = j
<1> DEFINE r == instructionJJMP(inst, p, st)
<1>1. parseRegister(p, 1) = GOOD <=> RegisterAt(p, 1)
  BY RegisterGood
<1>2. LabelAt(p, 1) => parseRegister(p, 1) = "OPERAND_NOT_REGISTER"
  <2>1. LabelAt(p, 1) => 1 <= Len(p) /\ p[1].kind = "name"
    BY DEF LabelAt
  <2>2. Len(p) \in Nat
    OBVIOUS
  <2> QED BY <2>1, <2>2 DEF parseRegister, Missing
<1>3. CASE RegisterAt(p, 1)
  <2> DEFINE checks == <<NoMore(p, 1)>>
             word == JWord(inst, 1, p[1].val)
  <2>1. r = Outcome(checks, word, NULL)
    BY <1>1, <1>3 DEF instructionJJMP, GOOD
  <2>2. IsList(checks)
    BY DEF IsList
  <2>3. AllGood(checks) <=> Len(p) = 1
    BY <1>3, LastGood DEF RegisterAt, AllGood
  <2>5. ~LabelAt(p, 1)
    BY <1>3 DEF RegisterAt, LabelAt
  <2> HIDE DEF checks, word, r
  <2>4. Verdict(r, checks, word, NULL)
    BY <2>1, <2>2, OutcomeGood
  <2> QED BY <1>3, <2>3, <2>4, <2>5 DEF word, r, Verdict
<1>4. CASE parseRegister(p, 1) = "OPERAND_NOT_REGISTER"
  BY <1>1, <1>4 DEF instructionJJMP, GOOD
<1>5. CASE parseRegister(p, 1) \notin {GOOD, "OPERAND_NOT_REGISTER"}
  <2> DEFINE checks == <<parseRegister(p, 1)>>
  <2>1. r = Outcome(checks, {}, NULL)
    BY <1>5, Zenon DEF instructionJJMP
  <2>2. IsList(checks) /\ ~AllGood(checks)
    BY <1>5 DEF IsList, AllGood
  <2> HIDE DEF checks, r
  <2>3. Verdict(r, checks, {}, NULL)
    BY <2>1, <2>2, OutcomeGood
  <2>4. ~LabelAt(p, 1)
    BY <1>5, <1>2
  <2> QED BY <1>1, <1>5, <2>2, <2>3, <2>4 DEF r, Verdict
<1> QED BY <1>1, <1>2, <1>3, <1>4, <1>5

(* What instructionRMove accepts.                                          *)
LEMMA AcceptedMove ==
    ASSUME NEW inst, NEW p \in Seq(Operand)
    PROVE  LET r == instructionRMove(inst, p)
           IN  /\ r.ec = GOOD <=> Len(p) = 2 /\ RegisterAt(p, 1) /\ RegisterAt(p, 2)
               /\ r.ec = GOOD => r.word = RWord(inst, p[1].val, 0, p[2].val)
               /\ r.ext = NULL
<1> DEFINE r == instructionRMove(inst, p)
           checks == <<parseRegister(p, 1), parseRegister(p, 2), NoMore(p, 2)>>
           word == RWord(inst, p[1].val, 0, p[2].val)
<1>1. IsList(checks)
  BY DEF IsList
<1>2. AllGood(checks) <=> /\ parseRegister(p, 1) = GOOD
                          /\ parseRegister(p, 2) = GOOD
                          /\ NoMore(p, 2) = GOOD
  BY DEF AllGood
<1>3. r = Outcome(checks, word, NULL)
  BY DEF instructionRMove
<1>4. /\ parseRegister(p, 1) = GOOD <=> RegisterAt(p, 1)
      /\ parseRegister(p, 2) = GOOD <=> RegisterAt(p, 2)
      /\ RegisterAt(p, 2) => (NoMore(p, 2) = GOOD <=> Len(p) = 2)
  BY RegisterGood, LastGood DEF RegisterAt
<1> HIDE DEF checks, word, r
<1>5. Verdict(r, checks, word, NULL)
  BY <1>1, <1>3, OutcomeGood
<1> QED BY <1>2, <1>4, <1>5 DEF word, r, Verdict

(* What instructionRArithmetic accepts.                                    *)
LEMMA AcceptedRArithmetic ==
    ASSUME NEW inst, NEW p \in Seq(Operand)
    PROVE  LET r == instructionRArithmetic(inst, p)
           IN  /\ r.ec = GOOD <=>
                    Len(p) = 3 /\ RegisterAt(p, 1) /\ RegisterAt(p, 2) /\ RegisterAt(p, 3)
               /\ r.ec = GOOD => r.word = RWord(inst, p[1].val, p[2].val, p[3].val)
               /\ r.ext = NULL
<1> DEFINE r == instructionRArithmetic(inst, p)
           checks == <<parseRegister(p, 1), parseRegister(p, 2), parseRegister(p, 3),
                       NoMore(p, 3)>>
           word == RWord(inst, p[1].val, p[2].val, p[3].val)
<1>1. IsList(checks)
  BY DEF IsList
<1>2. AllGood(checks) <=> /\ parseRegister(p, 1) = GOOD
                          /\ parseRegister(p, 2) = GOOD
                          /\ parseRegister(p, 3) = GOOD
                          /\ NoMore(p, 3) = GOOD
  BY DEF AllGood
<1>3. r = Outcome(checks, word, NULL)
  BY DEF instructionRArithmetic
<1>4. /\ parseRegister(p, 1) = GOOD <=> RegisterAt(p, 1)
      /\ parseRegister(p, 2) = GOOD <=> RegisterAt(p, 2)
      /\ parseRegister(p, 3) = GOOD <=> RegisterAt(p, 3)
      /\ RegisterAt(p, 3) => (NoMore(p, 3) = GOOD <=> Len(p) = 3)
  BY RegisterGood, LastGood DEF RegisterAt
<1> HIDE DEF checks, word, r
<1>5. Verdict(r, checks, word, NULL)
  BY <1>1, <1>3, OutcomeGood
<1> QED BY <1>2, <1>4, <1>5 DEF word, r, Verdict

(* What instructionIArithmetic and instructionILoad accept.                *)
LEMMA AcceptedIArithmetic ==
    ASSUME NEW inst, NEW p \in Seq(Operand)
    PROVE  LET r == instructionIArithmetic(inst, p)
           IN  /\ r.ec = GOOD <=>
                    Len(p) = 3 /\ RegisterAt(p, 1) /\ NumberAt(p, 2) /\ RegisterAt(p, 3)
               /\ r.ec = GOOD => r.word = IWord(inst, p[1].val, p[3].val, to16bit(p[2].val))
               /\ r.ext = NULL
<1> DEFINE r == instructionIArithmetic(inst, p)
           checks == <<parseRegister(p, 1), readImmed(p, 2), parseRegister(p, 3),
                       NoMore(p, 3)>>
           word == IWord(inst, p[1].val, p[3].val, to16bit(p[2].val))
<1>1. IsList(checks)
  BY DEF IsList
<1>2. AllGood(checks) <=> /\ parseRegister(p, 1) = GOOD
                          /\ readImmed(p, 2) = GOOD
                          /\ parseRegister(p, 3) = GOOD
                          /\ NoMore(p, 3) = GOOD
  BY DEF AllGood
<1>3. r = Outcome(checks, word, NULL)
  BY DEF instructionIArithmetic
<1>4. /\ parseRegister(p, 1) = GOOD <=> RegisterAt(p, 1)
      /\ parseRegister(p, 3) = GOOD <=> RegisterAt(p, 3)
      /\ readImmed(p, 2) = GOOD <=> NumberAt(p, 2)
      /\ RegisterAt(p, 3) => (NoMore(p, 3) = GOOD <=> Len(p) = 3)
  BY RegisterGood, NumberGood, LastGood DEF RegisterAt
<1> HIDE DEF checks, word, r
<1>5. Verdict(r, checks, word, NULL)
  BY <1>1, <1>3, OutcomeGood
<1> QED BY <1>2, <1>4, <1>5 DEF word, r, Verdict

(* What instructionIBranch accepts.                                        *)
LEMMA AcceptedBranch ==
    ASSUME NEW inst, NEW p \in Seq(Operand), NEW st, NEW a
    PROVE  LET r == instructionIBranch(inst, p, st, a)
               k == findSymbolInTable(st, p[3].val)
           IN  /\ r.ec = GOOD <=>
                    /\ Len(p) = 3 /\ RegisterAt(p, 1) /\ RegisterAt(p, 2) /\ LabelAt(p, 3)
                    /\ k # 0 /\ "EXTERNAL" \notin st[k].attributes
               /\ r.ec = GOOD => r.word = IWord(inst, p[1].val, p[2].val, st[k].address - a)
               /\ r.ext = NULL
<1> DEFINE r == instructionIBranch(inst, p, st, a)
           k == findSymbolInTable(st, p[3].val)
           checks == <<parseRegister(p, 1), parseRegister(p, 2), readLabel(p, 3),
                       NoMore(p, 3), Known(p, 3, st), Local(p, 3, st)>>
           word == IWord(inst, p[1].val, p[2].val, AddressOf(p, 3, st) - a)
<1>1. IsList(checks)
  BY DEF IsList
<1>2. AllGood(checks) <=> /\ parseRegister(p, 1) = GOOD
                          /\ parseRegister(p, 2) = GOOD
                          /\ readLabel(p, 3) = GOOD
                          /\ NoMore(p, 3) = GOOD
                          /\ Known(p, 3, st) = GOOD
                          /\ Local(p, 3, st) = GOOD
  BY DEF AllGood
<1>3. r = Outcome(checks, word, NULL)
  BY DEF instructionIBranch
<1>4. /\ parseRegister(p, 1) = GOOD <=> RegisterAt(p, 1)
      /\ parseRegister(p, 2) = GOOD <=> RegisterAt(p, 2)
      /\ readLabel(p, 3) = GOOD <=> LabelAt(p, 3)
      /\ LabelAt(p, 3) => (NoMore(p, 3) = GOOD <=> Len(p) = 3)
  BY RegisterGood, LabelTextGood, LastGood DEF LabelAt
<1>5. LabelAt(p, 3) =>
        /\ Known(p, 3, st) = GOOD <=> k # 0
        /\ k # 0 => (Local(p, 3, st) = GOOD <=> "EXTERNAL" \notin st[k].attributes)
        /\ word = IWord(inst, p[1].val, p[2].val, st[k].address - a)
  BY LabelGood DEF IsExternal, AddressOf
<1> HIDE DEF checks, word, r, k
<1>6. Verdict(r, checks, word, NULL)
  BY <1>1, <1>3, OutcomeGood
<1> QED BY <1>2, <1>4, <1>5, <1>6 DEF r, k, Verdict

(* What instructionJStop accepts.                                          *)
LEMMA AcceptedStop ==
    ASSUME NEW inst, NEW p \in Seq(Operand)
    PROVE  LET r == instructionJStop(inst, p)
           IN  /\ r.ec = GOOD <=> Len(p) = 0
               /\ r.ec = GOOD => r.word = Shl(inst.opcode, 26)
               /\ r.ext = NULL
<1> DEFINE r == instructionJStop(inst, p)
           checks == <<NoMore(p, 0)>>
           word == Shl(inst.opcode, 26)
<1>1. IsList(checks)
  BY DEF IsList
<1>2. AllGood(checks) <=> NoMore(p, 0) = GOOD
  BY DEF AllGood
<1>3. r = Outcome(checks, word, NULL)
  BY DEF instructionJStop
<1>4. NoMore(p, 0) = GOOD <=> Len(p) = 0
  <2>1. Len(p) \in Nat
    OBVIOUS
  <2> QED BY <2>1 DEF NoMore, GOOD
<1> HIDE DEF checks, word, r
<1>5. Verdict(r, checks, word, NULL)
  BY <1>1, <1>3, OutcomeGood
<1> QED BY <1>2, <1>4, <1>5 DEF word, r, Verdict

(* The mnemonics parseInstruction asks for are in the table.               *)
LEMMA AskedMnemonics ==
    RegisterMoves \cup LabelBranches \cup LabelJumps \cup {"jmp", "stop"}
        \subseteq DOMAIN INSTRUCTIONS
BY DEF INSTRUCTIONS, RegisterMoves, LabelBranches, LabelJumps

(* A mnemonic that is not in the table is rejected.                        *)
LEMMA UnknownMnemonic ==
    ASSUME NEW l, l.head \notin DOMAIN INSTRUCTIONS, NEW st, NEW a
    PROVE  LET r == parseInstruction(l, st, a) IN r.ec # GOOD /\ r.ext = NULL
<1> DEFINE r == parseInstruction(l, st, a)
           checks == <<"UNRECOGNIZED_INSTRUCTION">>
<1>1. r = Outcome(checks, {}, NULL)
  <2>1. l.head \notin RegisterMoves \cup LabelBranches \cup LabelJumps \cup {"jmp", "stop"}
    BY AskedMnemonics
  <2> QED BY <2>1 DEF parseInstruction, RegisterMoves, LabelBranches, LabelJumps
<1>2. IsList(checks) /\ ~AllGood(checks)
  BY DEF IsList, AllGood, GOOD
<1> HIDE DEF checks, r
<1>3. Verdict(r, checks, {}, NULL)
  BY <1>1, <1>2, OutcomeGood
<1> QED BY <1>2, <1>3 DEF r, Verdict

(* What parseInstruction accepts.                                          *)
LEMMA AcceptedInstruction ==
    ASSUME NEW l \in Line, NEW st, NEW a
    PROVE  LET r == parseInstruction(l, st, a)
           IN  r.ec = GOOD => l.head \in DOMAIN INSTRUCTIONS /\ Accepted(l, st, a, r)
<1> DEFINE r == parseInstruction(l, st, a)
           inst == INSTRUCTIONS[l.head]
           p == l.params
<1>1. p \in Seq(Operand)
  BY DEF Line
<1>2. l.head \notin DOMAIN INSTRUCTIONS => r.ec # GOOD
  BY UnknownMnemonic
<1> SUFFICES ASSUME l.head \in DOMAIN INSTRUCTIONS, r.ec = GOOD PROVE Accepted(l, st, a, r)
  BY <1>2
<1>3. CASE l.head \in RegisterMoves
  <2>1. r = instructionRMove(inst, p)
    BY <1>3 DEF parseInstruction, RegisterMoves
  <2> HIDE DEF r, p, inst
  <2>2. /\ Len(p) = 2 /\ RegisterAt(p, 1) /\ RegisterAt(p, 2)
        /\ r.word = RWord(inst, p[1].val, 0, p[2].val) /\ r.ext = NULL
    BY <1>1, <2>1, AcceptedMove
  <2> QED BY <1>3, <2>2 DEF Accepted, p, inst, RegisterMoves, LabelBranches, LabelJumps
<1>4. CASE l.head \in LabelBranches
  <2>1. r = instructionIBranch(inst, p, st, a)
    BY <1>4 DEF parseInstruction, LabelBranches
  <2> HIDE DEF r, p, inst
  <2> DEFINE k == findSymbolInTable(st, p[3].val)
  <2>2. /\ Len(p) = 3 /\ RegisterAt(p, 1) /\ RegisterAt(p, 2) /\ LabelAt(p, 3)
        /\ k # 0 /\ "EXTERNAL" \notin st[k].attributes
        /\ r.word = IWord(inst, p[1].val, p[2].val, st[k].address - a) /\ r.ext = NULL
    BY <1>1, <2>1, AcceptedBranch
  <2> QED BY <1>4, <2>2 DEF Accepted, p, inst, RegisterMoves, LabelBranches, LabelJumps
<1>5. CASE l.head \in LabelJumps \cup {"jmp"}
  <2> DEFINE k == findSymbolInTable(st, p[1].val)
             j == instructionJ(inst, p, st)
  <2>1. r = IF l.head = "jmp" THEN instructionJJMP(inst, p, st) ELSE j
    BY <1>5 DEF parseInstruction, LabelJumps
  <2> HIDE DEF r, p, inst, j
  <2>2. r = j => /\ Len(p) = 1 /\ LabelAt(p, 1) /\ k # 0
                 /\ r.word = JWord(inst, 0, st[k].address)
                 /\ r.ext = IF "EXTERNAL" \in st[k].attributes THEN p[1].val ELSE NULL
    BY <1>1, AcceptedJ DEF j
  <2>3. l.head = "jmp" /\ r # j => /\ RegisterAt(p, 1) /\ Len(p) = 1 /\ r.ext = NULL
                                   /\ r.word = JWord(inst, 1, p[1].val)
    BY <1>1, <2>1, AcceptedJmp DEF j
  <2> HIDE DEF k
  <2> QED BY <1>5, <2>1, <2>2, <2>3
          DEF Accepted, p, inst, k, RegisterMoves, LabelBranches, LabelJumps
<1>6. CASE l.head = "stop"
  <2>1. r = instructionJStop(inst, p)
    BY <1>6 DEF parseInstruction
  <2> HIDE DEF r, p, inst
  <2>2. Len(p) = 0 /\ r.word = Shl(inst.opcode, 26) /\ r.ext = NULL
    BY <1>1, <2>1, AcceptedStop
  <2> QED BY <1>6, <2>2 DEF Accepted, p, inst, RegisterMoves, LabelBranches, LabelJumps
<1>7. CASE l.head \notin RegisterMoves \cup LabelBranches \cup LabelJumps \cup {"jmp", "stop"}
  <2>1. r = IF inst.type = "R" THEN instructionRArithmetic(inst, p)
            ELSE instructionIArithmetic(inst, p)
    BY <1>7 DEF parseInstruction, RegisterMoves, LabelBranches, LabelJumps
  <2> HIDE DEF r, p, inst
  <2>2. /\ Len(p) = 3 /\ r.ext = NULL
        /\ IF inst.type = "R"
           THEN /\ RegisterAt(p, 1) /\ RegisterAt(p, 2) /\ RegisterAt(p, 3)
                /\ r.word = RWord(inst, p[1].val, p[2].val, p[3].val)
           ELSE /\ RegisterAt(p, 1) /\ NumberAt(p, 2) /\ RegisterAt(p, 3)
                /\ r.word = IWord(inst, p[1].val, p[3].val, to16bit(p[2].val))
    BY <1>1, <2>1, AcceptedRArithmetic, AcceptedIArithmetic
  <2> QED BY <1>7, <2>2 DEF Accepted, p, inst, RegisterMoves, LabelBranches, LabelJumps
<1> QED BY <1>3, <1>4, <1>5, <1>6, <1>7

(* The operand lists parseInstruction accepts, mnemonic by mnemonic.        *)
Acceptable(l, st) ==
    LET p == l.params
        inst == INSTRUCTIONS[l.head]
        k(i) == findSymbolInTable(st, p[i].val)
        registers == RegisterAt(p, 1) /\ RegisterAt(p, 2)
        jump == Len(p) = 1 /\ LabelAt(p, 1) /\ k(1) # 0
    IN  /\ l.head \in RegisterMoves => Len(p) = 2 /\ registers
        /\ l.head \in LabelBranches =>
             /\ Len(p) = 3 /\ registers /\ LabelAt(p, 3)
             /\ k(3) # 0 /\ "EXTERNAL" \notin st[k(3)].attributes
        /\ l.head \in LabelJumps => jump
        /\ l.head = "jmp" => (Len(p) = 1 /\ RegisterAt(p, 1)) \/ jump
        /\ l.head = "stop" => Len(p) = 0
        /\ l.head \notin RegisterMoves \cup LabelBranches \cup LabelJumps \cup {"jmp", "stop"} =>
             /\ l.head \in DOMAIN INSTRUCTIONS /\ Len(p) = 3
             /\ RegisterAt(p, 1) /\ RegisterAt(p, 3)
             /\ IF inst.type = "R" THEN RegisterAt(p, 2) ELSE NumberAt(p, 2)

(* It accepts no other, and it accepts all of them.                        *)
LEMMA AcceptsInstruction ==
    ASSUME NEW l \in Line, NEW st, NEW a
    PROVE  parseInstruction(l, st, a).ec = GOOD <=> Acceptable(l, st)
<1> DEFINE r == parseInstruction(l, st, a)
           inst == INSTRUCTIONS[l.head]
           p == l.params
           j == instructionJ(inst, p, st)
<1>1. p \in Seq(Operand)
  BY DEF Line
<1>2. r.ec = GOOD => Acceptable(l, st)
  <2>1. r.ec = GOOD => l.head \in DOMAIN INSTRUCTIONS /\ Accepted(l, st, a, r)
    BY AcceptedInstruction
  <2> HIDE DEF r
  <2> QED BY <2>1 DEF Accepted, Acceptable
<1>3. ASSUME Acceptable(l, st) PROVE r.ec = GOOD
  <2>1. l.head \in DOMAIN INSTRUCTIONS
    BY <1>3, AskedMnemonics DEF Acceptable
  <2>2. CASE l.head \in RegisterMoves
    <3>1. r = instructionRMove(inst, p)
      BY <2>1, <2>2 DEF parseInstruction, RegisterMoves
    <3>2. Len(p) = 2 /\ RegisterAt(p, 1) /\ RegisterAt(p, 2)
      BY <1>3, <2>2 DEF Acceptable
    <3> HIDE DEF r, p, inst
    <3> QED BY <1>1, <3>1, <3>2, AcceptedMove
  <2>3. CASE l.head \in LabelBranches
    <3> DEFINE k == findSymbolInTable(st, p[3].val)
    <3>1. r = instructionIBranch(inst, p, st, a)
      BY <2>1, <2>3 DEF parseInstruction, LabelBranches
    <3>2. /\ Len(p) = 3 /\ RegisterAt(p, 1) /\ RegisterAt(p, 2) /\ LabelAt(p, 3)
          /\ k # 0 /\ "EXTERNAL" \notin st[k].attributes
      BY <1>3, <2>3 DEF Acceptable
    <3> HIDE DEF r, p, inst
    <3> QED BY <1>1, <3>1, <3>2, AcceptedBranch
  <2>4. CASE l.head \in LabelJumps \cup {"jmp"}
    <3> DEFINE jump == Len(p) = 1 /\ LabelAt(p, 1) /\ findSymbolInTable(st, p[1].val) # 0
    <3>1. r = IF l.head = "jmp" THEN instructionJJMP(inst, p, st) ELSE j
      BY <2>1, <2>4 DEF parseInstruction, LabelJumps
    <3>2. jump \/ (l.head = "jmp" /\ Len(p) = 1 /\ RegisterAt(p, 1))
      BY <1>3, <2>4 DEF Acceptable
    <3> HIDE DEF r, p, inst, j
    <3>3. jump => j.ec = GOOD
      BY <1>1, AcceptedJ DEF j
    <3>4. jump => r = j
      BY <1>1, <3>1, AcceptedJmp DEF j
    <3>5. l.head = "jmp" /\ Len(p) = 1 /\ RegisterAt(p, 1) => r.ec = GOOD
      BY <1>1, <3>1, AcceptedJmp
    <3> QED BY <3>2, <3>3, <3>4, <3>5
  <2>5. CASE l.head = "stop"
    <3>1. r = instructionJStop(inst, p)
      BY <2>1, <2>5 DEF parseInstruction
    <3>2. Len(p) = 0
      BY <1>3, <2>5 DEF Acceptable
    <3> HIDE DEF r, p, inst
    <3> QED BY <1>1, <3>1, <3>2, AcceptedStop
  <2>6. CASE l.head \notin RegisterMoves \cup LabelBranches \cup LabelJumps \cup {"jmp", "stop"}
    <3>1. r = IF inst.type = "R" THEN instructionRArithmetic(inst, p)
              ELSE instructionIArithmetic(inst, p)
      BY <2>1, <2>6 DEF parseInstruction, RegisterMoves, LabelBranches, LabelJumps
    <3>2. /\ Len(p) = 3 /\ RegisterAt(p, 1) /\ RegisterAt(p, 3)
          /\ IF inst.type = "R" THEN RegisterAt(p, 2) ELSE NumberAt(p, 2)
      BY <1>3, <2>6 DEF Acceptable
    <3> HIDE DEF r, p, inst
    <3> QED BY <1>1, <3>1, <3>2, AcceptedRArithmetic, AcceptedIArithmetic
  <2> QED BY <2>2, <2>3, <2>4, <2>5, <2>6
<1> QED BY <1>2, <1>3

(* Accepted or not, only a use of an external label in a jump is noted.    *)
LEMMA NotedUse ==
    ASSUME NEW l \in Line, NEW st, NEW a, parseInstruction(l, st, a).ext # NULL
    PROVE  LET k == findSymbolInTable(st, l.params[1].val)
           IN  /\ l.head \in LabelJumps \cup {"jmp"} /\ LabelAt(l.params, 1)
               /\ k # 0 /\ "EXTERNAL" \in st[k].attributes
               /\ parseInstruction(l, st, a).ext = l.params[1].val
<1> DEFINE r == parseInstruction(l, st, a)
           inst == INSTRUCTIONS[l.head]
           p == l.params
<1>1. p \in Seq(Operand)
  BY DEF Line
<1>2. l.head \in DOMAIN INSTRUCTIONS
  BY UnknownMnemonic
<1>3. l.head \in LabelJumps \cup {"jmp"}
  <2> SUFFICES ASSUME l.head \notin LabelJumps \cup {"jmp"} PROVE FALSE
    OBVIOUS
  <2>1. \/ r = instructionRMove(inst, p) \/ r = instructionIBranch(inst, p, st, a)
        \/ r = instructionJStop(inst, p) \/ r = instructionRArithmetic(inst, p)
        \/ r = instructionIArithmetic(inst, p)
    BY <1>2 DEF parseInstruction, LabelJumps
  <2> HIDE DEF p, inst
  <2> QED BY <1>1, <2>1, AcceptedMove, AcceptedBranch, AcceptedStop, AcceptedRArithmetic,
             AcceptedIArithmetic
<1>4. r = instructionJ(inst, p, st)
  <2>1. r = IF l.head = "jmp" THEN instructionJJMP(inst, p, st) ELSE instructionJ(inst, p, st)
    BY <1>2, <1>3 DEF parseInstruction, LabelJumps
  <2> HIDE DEF p, inst
  <2> QED BY <1>1, <2>1, AcceptedJmp
<1> HIDE DEF inst
<1> QED BY <1>1, <1>3, <1>4, AcceptedJ

-------------------------------------------------------------------------------
(* The bytes of a word.                                                    *)

(* What a bit of the word adds to its byte, and a byte of eight of them.   *)
Bit(word, b, value) == IF b \in word THEN value ELSE 0

(* A bit that is a binary digit of a number.                               *)
LEMMA BitOfNumber ==
    \A word, b : \A k \in Int :
        (b \in word <=> k % 2 = 1) =>
            /\ Bit(word, b, 1) = k % 2 /\ Bit(word, b, 2) = 2 * (k % 2)
            /\ Bit(word, b, 4) = 4 * (k % 2) /\ Bit(word, b, 8) = 8 * (k % 2)
            /\ Bit(word, b, 16) = 16 * (k % 2) /\ Bit(word, b, 32) = 32 * (k % 2)
            /\ Bit(word, b, 64) = 64 * (k % 2) /\ Bit(word, b, 128) = 128 * (k % 2)
BY DEF Bit

ByteOf(word, b0, b1, b2, b3, b4, b5, b6, b7) ==
    Bit(word, b0, 1) + Bit(word, b1, 2) + Bit(word, b2, 4) + Bit(word, b3, 8)
      + Bit(word, b4, 16) + Bit(word, b5, 32) + Bit(word, b6, 64) + Bit(word, b7, 128)

(* The bits at these eight places are the low bits of m.                   *)
IsBits(word, b0, b1, b2, b3, b4, b5, b6, b7, m) ==
    /\ b0 \in word <=> m % 2 = 1
    /\ b1 \in word <=> (m \div 2) % 2 = 1
    /\ b2 \in word <=> (m \div 4) % 2 = 1
    /\ b3 \in word <=> (m \div 8) % 2 = 1
    /\ b4 \in word <=> (m \div 16) % 2 = 1
    /\ b5 \in word <=> (m \div 32) % 2 = 1
    /\ b6 \in word <=> (m \div 64) % 2 = 1
    /\ b7 \in word <=> (m \div 128) % 2 = 1

(* Eight low bits of a number are the number modulo 256.                   *)
LEMMA ByteOfNumber ==
    ASSUME NEW word, NEW m \in Int,
           NEW b0, NEW b1, NEW b2, NEW b3, NEW b4, NEW b5, NEW b6, NEW b7,
           IsBits(word, b0, b1, b2, b3, b4, b5, b6, b7, m)
    PROVE  ByteOf(word, b0, b1, b2, b3, b4, b5, b6, b7) = m % 256
<1>1. Bit(word, b0, 1) = m % 2
  BY BitOfNumber DEF IsBits
<1>2. Bit(word, b1, 2) = 2 * ((m \div 2) % 2)
  BY BitOfNumber DEF IsBits
<1>3. Bit(word, b2, 4) = 4 * ((m \div 4) % 2)
  BY BitOfNumber DEF IsBits
<1>4. Bit(word, b3, 8) = 8 * ((m \div 8) % 2)
  BY BitOfNumber DEF IsBits
<1>5. Bit(word, b4, 16) = 16 * ((m \div 16) % 2)
  BY BitOfNumber DEF IsBits
<1>6. Bit(word, b5, 32) = 32 * ((m \div 32) % 2)
  BY BitOfNumber DEF IsBits
<1>7. Bit(word, b6, 64) = 64 * ((m \div 64) % 2)
  BY BitOfNumber DEF IsBits
<1>8. Bit(word, b7, 128) = 128 * ((m \div 128) % 2)
  BY BitOfNumber DEF IsBits
<1> QED BY <1>1, <1>2, <1>3, <1>4, <1>5, <1>6, <1>7, <1>8, EightBits, Zenon DEF ByteOf

(* What printInstruction writes: four bytes, the lowest first.             *)
LEMMA PrintedBytes ==
    ASSUME NEW word
    PROVE  /\ printInstruction(word) \in Seq(0..255) /\ Len(printInstruction(word)) = 4
           /\ printInstruction(word)[1] = ByteOf(word, 0, 1, 2, 3, 4, 5, 6, 7)
           /\ printInstruction(word)[2] = ByteOf(word, 8, 9, 10, 11, 12, 13, 14, 15)
           /\ printInstruction(word)[3] = ByteOf(word, 16, 17, 18, 19, 20, 21, 22, 23)
           /\ printInstruction(word)[4] = ByteOf(word, 24, 25, 26, 27, 28, 29, 30, 31)
BY DEF printInstruction, Bit, ByteOf

(* What a shift puts where.                                                *)
LEMMA ShlMember ==
    \A n, offset \in Int : \A x \in 0..31 : x \in Shl(n, offset) <=> x - offset \in Bits(n)
<1> SUFFICES ASSUME NEW n \in Int, NEW offset \in Int, NEW x \in 0..31
             PROVE  x \in Shl(n, offset) <=> x - offset \in Bits(n)
  OBVIOUS
<1>1. \A b \in Bits(n) : b \in Int
  BY DEF Bits
<1> QED BY <1>1 DEF Shl, WordBits

(* The low byte of a number, as far as the word has its bits.              *)
LEMMA LowByte ==
    ASSUME NEW word, NEW n \in Int, \A x \in 0..7 : x \in word <=> x \in Bits(n)
    PROVE  printInstruction(word)[1] = n % 256
<1>1. IsBits(word, 0, 1, 2, 3, 4, 5, 6, 7, n)
  <2>1. n \div 2^0 = n
    BY SMT
  <2> QED BY <2>1, SMT DEF IsBits, Bits
<1>2. ByteOf(word, 0, 1, 2, 3, 4, 5, 6, 7) = n % 256
  BY <1>1, ByteOfNumber, SMT
<1> QED BY <1>2, PrintedBytes, SMT

(* The same of its second byte.                                            *)
LEMMA SecondByte ==
    ASSUME NEW word, NEW n \in Int, \A x \in 8..15 : x \in word <=> x \in Bits(n)
    PROVE  printInstruction(word)[2] = (n \div 2^8) % 256
<1>1. n \div 2^8 \in Int
  BY SMT
<1>2. IsBits(word, 8, 9, 10, 11, 12, 13, 14, 15, n \div 2^8)
  <2>1. /\ n \div 2^9 = (n \div 2^8) \div 2 /\ n \div 2^10 = (n \div 2^8) \div 4
        /\ n \div 2^11 = (n \div 2^8) \div 8 /\ n \div 2^12 = (n \div 2^8) \div 16
        /\ n \div 2^13 = (n \div 2^8) \div 32 /\ n \div 2^14 = (n \div 2^8) \div 64
        /\ n \div 2^15 = (n \div 2^8) \div 128
    BY SMT
  <2>2. /\ 8 \in word <=> (n \div 2^8) % 2 = 1
        /\ 9 \in word <=> (n \div 2^9) % 2 = 1
        /\ 10 \in word <=> (n \div 2^10) % 2 = 1
        /\ 11 \in word <=> (n \div 2^11) % 2 = 1
        /\ 12 \in word <=> (n \div 2^12) % 2 = 1
        /\ 13 \in word <=> (n \div 2^13) % 2 = 1
        /\ 14 \in word <=> (n \div 2^14) % 2 = 1
        /\ 15 \in word <=> (n \div 2^15) % 2 = 1
    BY SMT DEF Bits
  <2> QED BY <2>1, <2>2, SMT DEF IsBits
<1> DEFINE m == n \div 2^8
<1> HIDE DEF m
<1>3. m \in Int /\ IsBits(word, 8, 9, 10, 11, 12, 13, 14, 15, m)
  BY <1>1, <1>2, Zenon DEF m
<1>4. ByteOf(word, 8, 9, 10, 11, 12, 13, 14, 15) = m % 256
  BY <1>3, ByteOfNumber, SMT
<1> QED BY <1>4, PrintedBytes, SMT DEF m

(* The same of its third byte.                                             *)
LEMMA ThirdByte ==
    ASSUME NEW word, NEW n \in Int, \A x \in 16..23 : x \in word <=> x \in Bits(n)
    PROVE  printInstruction(word)[3] = (n \div 2^16) % 256
<1> DEFINE m == n \div 2^16
<1>1. m \in Int
  BY SMT
<1>2. IsBits(word, 16, 17, 18, 19, 20, 21, 22, 23, m)
  <2>1. /\ n \div 2^17 = (n \div 2^16) \div 2 /\ n \div 2^18 = (n \div 2^16) \div 4
        /\ n \div 2^19 = (n \div 2^16) \div 8 /\ n \div 2^20 = (n \div 2^16) \div 16
        /\ n \div 2^21 = (n \div 2^16) \div 32 /\ n \div 2^22 = (n \div 2^16) \div 64
        /\ n \div 2^23 = (n \div 2^16) \div 128
    BY SMT
  <2>2. /\ 16 \in word <=> (n \div 2^16) % 2 = 1
        /\ 17 \in word <=> (n \div 2^17) % 2 = 1
        /\ 18 \in word <=> (n \div 2^18) % 2 = 1
        /\ 19 \in word <=> (n \div 2^19) % 2 = 1
        /\ 20 \in word <=> (n \div 2^20) % 2 = 1
        /\ 21 \in word <=> (n \div 2^21) % 2 = 1
        /\ 22 \in word <=> (n \div 2^22) % 2 = 1
        /\ 23 \in word <=> (n \div 2^23) % 2 = 1
    BY SMT DEF Bits
  <2> QED BY <2>1, <2>2, SMT DEF IsBits
<1> HIDE DEF m
<1>3. ByteOf(word, 16, 17, 18, 19, 20, 21, 22, 23) = m % 256
  BY <1>1, <1>2, ByteOfNumber, SMT
<1> QED BY <1>3, PrintedBytes, SMT DEF m

(* The byte with the opcode and the flag.                                  *)
LEMMA OpcodeByte ==
    ASSUME NEW word, NEW o \in 0..63, \A x \in 26..31 : x \in word <=> x - 26 \in Bits(o)
    PROVE  /\ printInstruction(word)[4] = Bit(word, 24, 1) + Bit(word, 25, 2) + 4 * o
           /\ printInstruction(word)[4] \div 4 = o
           /\ printInstruction(word)[4] % 2 = Bit(word, 24, 1)
           /\ (printInstruction(word)[4] \div 2) % 2 = 1 <=> 25 \in word
<1>1. /\ 26 \in word <=> o % 2 = 1
      /\ 27 \in word <=> (o \div 2) % 2 = 1
      /\ 28 \in word <=> (o \div 4) % 2 = 1
      /\ 29 \in word <=> (o \div 8) % 2 = 1
      /\ 30 \in word <=> (o \div 16) % 2 = 1
      /\ 31 \in word <=> (o \div 32) % 2 = 1
  <2>1. /\ 26 \in word <=> 0 \in Bits(o)
        /\ 27 \in word <=> 1 \in Bits(o)
        /\ 28 \in word <=> 2 \in Bits(o)
        /\ 29 \in word <=> 3 \in Bits(o)
        /\ 30 \in word <=> 4 \in Bits(o)
        /\ 31 \in word <=> 5 \in Bits(o)
    BY SMT
  <2>2. o \div 2^0 = o
    BY SMT
  <2>3. /\ 0 \in Bits(o) <=> o % 2 = 1
        /\ 1 \in Bits(o) <=> (o \div 2) % 2 = 1
        /\ 2 \in Bits(o) <=> (o \div 4) % 2 = 1
        /\ 3 \in Bits(o) <=> (o \div 8) % 2 = 1
        /\ 4 \in Bits(o) <=> (o \div 16) % 2 = 1
        /\ 5 \in Bits(o) <=> (o \div 32) % 2 = 1
    BY <2>2, SMT DEF Bits
  <2> QED BY <2>1, <2>3
<1>2. o \in Int /\ o % 256 = o /\ o \div 64 = 0 /\ o \div 128 = 0
  BY SMT
<1>3. o = (o % 2) + 2 * ((o \div 2) % 2) + 4 * ((o \div 4) % 2) + 8 * ((o \div 8) % 2)
             + 16 * ((o \div 16) % 2) + 32 * ((o \div 32) % 2)
  BY <1>2, EightBits, SMT
<1>4. /\ Bit(word, 26, 4) = 4 * (o % 2)
      /\ Bit(word, 27, 8) = 8 * ((o \div 2) % 2)
      /\ Bit(word, 28, 16) = 16 * ((o \div 4) % 2)
      /\ Bit(word, 29, 32) = 32 * ((o \div 8) % 2)
      /\ Bit(word, 30, 64) = 64 * ((o \div 16) % 2)
      /\ Bit(word, 31, 128) = 128 * ((o \div 32) % 2)
  BY <1>1, BitOfNumber
<1>5. ByteOf(word, 24, 25, 26, 27, 28, 29, 30, 31) = Bit(word, 24, 1) + Bit(word, 25, 2) + 4 * o
  <2> DEFINE x == Bit(word, 24, 1)
             y == Bit(word, 25, 2)
             b0 == o % 2
             b1 == (o \div 2) % 2
             b2 == (o \div 4) % 2
             b3 == (o \div 8) % 2
             b4 == (o \div 16) % 2
             b5 == (o \div 32) % 2
  <2>1. x \in Int /\ y \in Int
    BY DEF Bit
  <2>2. /\ b0 \in Int /\ b1 \in Int /\ b2 \in Int
        /\ b3 \in Int /\ b4 \in Int /\ b5 \in Int
    BY <1>2
  <2>3. ByteOf(word, 24, 25, 26, 27, 28, 29, 30, 31)
          = x + y + 4 * b0 + 8 * b1 + 16 * b2 + 32 * b3 + 64 * b4 + 128 * b5
    BY <1>4, Zenon DEF ByteOf
  <2>4. o = b0 + 2 * b1 + 4 * b2 + 8 * b3 + 16 * b4 + 32 * b5
    BY <1>3
  <2> HIDE DEF x, y, b0, b1, b2, b3, b4, b5
  <2>5. ByteOf(word, 24, 25, 26, 27, 28, 29, 30, 31) = x + y + 4 * o
    BY <2>1, <2>2, <2>3, <2>4, SMT
  <2> QED BY <2>5 DEF x, y
<1>6. printInstruction(word)[4] = Bit(word, 24, 1) + Bit(word, 25, 2) + 4 * o
  BY <1>5, PrintedBytes
<1>7. /\ Bit(word, 24, 1) \in {0, 1} /\ Bit(word, 25, 2) \in {0, 2}
      /\ Bit(word, 25, 2) = 2 <=> 25 \in word
  BY DEF Bit
<1> QED BY <1>6, <1>7

(* A register that is shifted takes five bits.                             *)
LEMMA RegisterShift ==
    \A n \in 0..31 : \A offset \in Int : \A x \in Shl(n, offset) :
        x \in 0..31 /\ x - offset \in 0..4
<1> SUFFICES ASSUME NEW n \in 0..31, NEW offset \in Int, NEW x \in Shl(n, offset)
             PROVE  x \in 0..31 /\ x - offset \in 0..4
  OBVIOUS
<1>1. x \in 0..31
  BY DEF Shl, WordBits
<1>2. x - offset \in Bits(n)
  <2>1. n \in Int
    OBVIOUS
  <2> QED BY <1>1, <2>1, ShlMember, Zenon
<1>3. n \in Nat /\ n < 32
  OBVIOUS
<1> QED BY <1>1, <1>2, <1>3, SmallBits, Zenon

(* The six top bits are the opcode if nothing else reaches them.           *)
LEMMA OpcodeOnTop ==
    ASSUME NEW o \in 0..63, NEW rest, \A x \in 26..31 : x \notin rest
    PROVE  \A x \in 26..31 : x \in Shl(o, 26) \cup rest <=> x - 26 \in Bits(o)
<1>1. \A x \in 26..31 : x \in 0..31
  OBVIOUS
<1>2. o \in Int /\ 26 \in Int
  OBVIOUS
<1> QED BY <1>1, <1>2, ShlMember, Zenon

(* The opcode is in the six top bits.                                      *)
LEMMA OpcodeAbove ==
    \A o \in 0..63 : \A x \in Shl(o, 26) : x \in 26..31
<1> SUFFICES ASSUME NEW o \in 0..63, NEW x \in Shl(o, 26) PROVE x \in 26..31
  OBVIOUS
<1>1. x \in 0..31
  BY DEF Shl, WordBits
<1>2. x - 26 \in Bits(o)
  <2>1. o \in Int /\ 26 \in Int
    OBVIOUS
  <2> QED BY <1>1, <2>1, ShlMember, Zenon
<1>3. \A b \in Bits(o) : b >= 0
  BY DEF Bits
<1> QED BY <1>1, <1>2, <1>3

(* The bits of the flag of a jump.                                         *)
LEMMA FlagBits == Bits(0) = {} /\ Bits(1) = {0}
<1>1. \A n \in 0..1 : \A b \in Bits(n) : b \in 0..4 /\ (n \div 2^b) % 2 = 1
  <2> SUFFICES ASSUME NEW n \in 0..1, NEW b \in Bits(n)
               PROVE  b \in 0..4 /\ (n \div 2^b) % 2 = 1
    OBVIOUS
  <2>1. n \in Nat /\ n < 32 /\ ~(n < 0)
    OBVIOUS
  <2>2. (n \div 2^b) % 2 = 1
    BY <2>1, Zenon DEF Bits
  <2> QED BY <2>1, <2>2, SmallBits, Zenon
<1>2. ASSUME NEW b \in 0..4 PROVE (0 \div 2^b) % 2 # 1 /\ ((1 \div 2^b) % 2 = 1 => b = 0)
  <2>1. \/ b = 0 /\ 2^b = 1
        \/ b # 0 /\ 2^b \in {2, 4, 8, 16}
    <3>1. 2^0 = 1 /\ 2^1 = 2 /\ 2^2 = 4 /\ 2^3 = 8 /\ 2^4 = 16
      BY SMT
    <3>2. b = 0 \/ b = 1 \/ b = 2 \/ b = 3 \/ b = 4
      OBVIOUS
    <3> QED BY <3>1, <3>2, Zenon
  <2>2. ASSUME NEW d \in {1, 2, 4, 8, 16}
        PROVE  (0 \div d) % 2 # 1 /\ ((1 \div d) % 2 = 1 => d = 1)
    BY SMT
  <2> QED BY <2>1, <2>2
<1>3. Bits(0) = {} /\ \A b \in Bits(1) : b = 0
  <2>1. 0 \in 0..1 /\ 1 \in 0..1
    OBVIOUS
  <2> QED BY <1>1, <1>2, <2>1, Zenon
<1>4. 0 \in Bits(1)
  BY SMT DEF Bits
<1> QED BY <1>3, <1>4

(* A number of 25 bits is put together again from its bytes.               *)
LEMMA FourBytes ==
    ASSUME NEW n \in Nat, n < 2^25
    PROVE  (n % 256) + 2^8 * ((n \div 2^8) % 256) + 2^16 * ((n \div 2^16) % 256)
             + 2^24 * ((n \div 2^24) % 2) = n
BY SMT

(* Two bytes are the number modulo 2^16.                                   *)
LEMMA TwoBytes ==
    \A n \in Int : (n % 256) + 2^8 * ((n \div 2^8) % 256) = n % 2^16
BY SMT

(* A jump reads back: its opcode, its flag and an address of 25 bits.      *)
LEMMA JumpReadsBack ==
    ASSUME NEW inst, inst.opcode \in 0..63, NEW flag \in {0, 1}, NEW n \in Nat, n < 2^25
    PROVE  LET b == printInstruction(JWord(inst, flag, n))
           IN  /\ b[4] \div 4 = inst.opcode
               /\ (b[4] \div 2) % 2 = 1 <=> flag = 1
               /\ b[1] + 2^8 * b[2] + 2^16 * b[3] + 2^24 * (b[4] % 2) = n
<1> DEFINE word == JWord(inst, flag, n)
           o == inst.opcode
           b == printInstruction(word)
<1>1. Bits(n) \subseteq 0..24
  BY SmallBits
<1>2. Shl(flag, 25) = IF flag = 1 THEN {25} ELSE {}
  <2>1. \A x \in 0..31 : x \in Shl(flag, 25) <=> flag = 1 /\ x = 25
    <3> SUFFICES ASSUME NEW x \in 0..31 PROVE x \in Shl(flag, 25) <=> flag = 1 /\ x = 25
      OBVIOUS
    <3>0. flag \in Int /\ 25 \in Int
      OBVIOUS
    <3>1. x \in Shl(flag, 25) <=> x - 25 \in Bits(flag)
      BY <3>0, ShlMember, Zenon
    <3>2. x - 25 = 0 <=> x = 25
      OBVIOUS
    <3> QED BY <3>1, <3>2, FlagBits
  <2>2. \A x \in Shl(flag, 25) : x \in 0..31
    BY DEF Shl, WordBits
  <2> QED BY <2>1, <2>2
<1> DEFINE rest == Shl(flag, 25) \cup Bits(n)
<1>3. word = Shl(o, 26) \cup rest
  BY DEF JWord
<1>4. \A x \in Shl(o, 26) : x \in 26..31
  BY OpcodeAbove
<1>5. \A x \in rest : x \in 0..24 \/ (x = 25 /\ flag = 1)
  BY <1>1, <1>2
<1>6. \A x \in 0..24 : x \in word <=> x \in Bits(n)
  BY <1>2, <1>3, <1>4
<1>7. 25 \in word <=> flag = 1
  BY <1>1, <1>2, <1>3, <1>4
<1>8. \A x \in 26..31 : x \in word <=> x - 26 \in Bits(o)
  <2>1. \A x \in 26..31 : x \notin rest
    BY <1>5
  <2> HIDE DEF rest, word
  <2> QED BY <1>3, <2>1, OpcodeOnTop
<1> HIDE DEF word, rest, o
<1>9. b[1] = n % 256 /\ b[2] = (n \div 2^8) % 256 /\ b[3] = (n \div 2^16) % 256
  <2>1. /\ \A x \in 0..7 : x \in word <=> x \in Bits(n)
        /\ \A x \in 8..15 : x \in word <=> x \in Bits(n)
        /\ \A x \in 16..23 : x \in word <=> x \in Bits(n)
    BY <1>6
  <2> QED BY <2>1, LowByte, SecondByte, ThirdByte
<1>10. /\ b[4] \div 4 = o
       /\ b[4] % 2 = Bit(word, 24, 1)
       /\ (b[4] \div 2) % 2 = 1 <=> 25 \in word
  BY <1>8, OpcodeByte DEF o
<1>11. Bit(word, 24, 1) = (n \div 2^24) % 2
  <2>1. 24 \in word <=> (n \div 2^24) % 2 = 1
    BY <1>6, SMT DEF Bits
  <2>2. n \div 2^24 \in Int
    BY SMT
  <2> QED BY <2>1, <2>2, BitOfNumber
<1> QED BY <1>7, <1>9, <1>10, <1>11, FourBytes, Zenon DEF word, o

(* The five bits of a register number, at any place of the word.           *)
LEMMA FiveBits ==
    ASSUME NEW n \in 0..31
    PROVE  /\ n % 8 = (n % 2) + 2 * ((n \div 2) % 2) + 4 * ((n \div 4) % 2)
           /\ n \div 8 = ((n \div 8) % 2) + 2 * ((n \div 16) % 2)
           /\ n % 4 = (n % 2) + 2 * ((n \div 2) % 2)
           /\ n \div 4 = ((n \div 4) % 2) + 2 * ((n \div 8) % 2) + 4 * ((n \div 16) % 2)
           /\ n = (n % 2) + 2 * ((n \div 2) % 2) + 4 * ((n \div 4) % 2)
                    + 8 * ((n \div 8) % 2) + 16 * ((n \div 16) % 2)
OBVIOUS

(* Which of the five low bits are set.                                     *)
LEMMA FiveBitsTested ==
    ASSUME NEW n \in 0..31
    PROVE  /\ 0 \in Bits(n) <=> n % 2 = 1
           /\ 1 \in Bits(n) <=> (n \div 2) % 2 = 1
           /\ 2 \in Bits(n) <=> (n \div 4) % 2 = 1
           /\ 3 \in Bits(n) <=> (n \div 8) % 2 = 1
           /\ 4 \in Bits(n) <=> (n \div 16) % 2 = 1
<1>1. n \div 2^0 = n
  BY SMT
<1> QED BY <1>1, SMT DEF Bits

(* The opcode and the registers rs and rt in the upper half of a word.     *)
UpperBits(word, rs, rt, o) ==
    /\ \A x \in 16..20 : x \in word <=> x - 16 \in Bits(rt)
    /\ \A x \in 21..25 : x \in word <=> x - 21 \in Bits(rs)
    /\ \A x \in 26..31 : x \in word <=> x - 26 \in Bits(o)

(* The upper two bytes hold them.                                          *)
LEMMA UpperHalf ==
    ASSUME NEW word, NEW rs \in 0..31, NEW rt \in 0..31, NEW o \in 0..63,
           UpperBits(word, rs, rt, o)
    PROVE  LET b == printInstruction(word)
           IN  /\ b[3] = rt + 32 * (rs % 8)
               /\ b[4] = (rs \div 8) + 4 * o
<1> DEFINE b == printInstruction(word)
<1>0. /\ \A x \in 16..20 : x \in word <=> x - 16 \in Bits(rt)
      /\ \A x \in 21..25 : x \in word <=> x - 21 \in Bits(rs)
      /\ \A x \in 26..31 : x \in word <=> x - 26 \in Bits(o)
  BY DEF UpperBits
<1>1. rs \in Int /\ rt \in Int /\ rs \div 8 \in Int /\ rs \div 16 \in Int
  OBVIOUS
<1>2. /\ Bit(word, 16, 1) = rt % 2 /\ Bit(word, 17, 2) = 2 * ((rt \div 2) % 2)
      /\ Bit(word, 18, 4) = 4 * ((rt \div 4) % 2) /\ Bit(word, 19, 8) = 8 * ((rt \div 8) % 2)
      /\ Bit(word, 20, 16) = 16 * ((rt \div 16) % 2)
  <2>1. /\ 16 \in word <=> rt % 2 = 1
        /\ 17 \in word <=> (rt \div 2) % 2 = 1
        /\ 18 \in word <=> (rt \div 4) % 2 = 1
        /\ 19 \in word <=> (rt \div 8) % 2 = 1
        /\ 20 \in word <=> (rt \div 16) % 2 = 1
    <3>1. /\ 16 \in word <=> 0 \in Bits(rt)
          /\ 17 \in word <=> 1 \in Bits(rt)
          /\ 18 \in word <=> 2 \in Bits(rt)
          /\ 19 \in word <=> 3 \in Bits(rt)
          /\ 20 \in word <=> 4 \in Bits(rt)
      BY <1>0, SMT
    <3> QED BY <3>1, FiveBitsTested
  <2> QED BY <1>1, <2>1, BitOfNumber
<1>3. /\ Bit(word, 21, 32) = 32 * (rs % 2) /\ Bit(word, 22, 64) = 64 * ((rs \div 2) % 2)
      /\ Bit(word, 23, 128) = 128 * ((rs \div 4) % 2)
      /\ Bit(word, 24, 1) = (rs \div 8) % 2 /\ Bit(word, 25, 2) = 2 * ((rs \div 16) % 2)
  <2>1. /\ 21 \in word <=> rs % 2 = 1
        /\ 22 \in word <=> (rs \div 2) % 2 = 1
        /\ 23 \in word <=> (rs \div 4) % 2 = 1
        /\ 24 \in word <=> (rs \div 8) % 2 = 1
        /\ 25 \in word <=> (rs \div 16) % 2 = 1
    <3>1. /\ 21 \in word <=> 0 \in Bits(rs)
          /\ 22 \in word <=> 1 \in Bits(rs)
          /\ 23 \in word <=> 2 \in Bits(rs)
          /\ 24 \in word <=> 3 \in Bits(rs)
          /\ 25 \in word <=> 4 \in Bits(rs)
      BY <1>0, SMT
    <3> QED BY <3>1, FiveBitsTested
  <2> QED BY <1>1, <2>1, BitOfNumber
<1>4. b[4] = (rs \div 8) + 4 * o
  <2>1. b[4] = Bit(word, 24, 1) + Bit(word, 25, 2) + 4 * o
    BY <1>0, OpcodeByte
  <2> HIDE DEF b
  <2> QED BY <1>3, <2>1, FiveBits
<1>5. b[3] = rt + 32 * (rs % 8)
  <2> DEFINE r0 == rt % 2
             r1 == (rt \div 2) % 2
             r2 == (rt \div 4) % 2
             r3 == (rt \div 8) % 2
             r4 == (rt \div 16) % 2
             s0 == rs % 2
             s1 == (rs \div 2) % 2
             s2 == (rs \div 4) % 2
  <2>1. /\ r0 \in Int /\ r1 \in Int /\ r2 \in Int /\ r3 \in Int /\ r4 \in Int
        /\ s0 \in Int /\ s1 \in Int /\ s2 \in Int /\ rs % 8 \in Int
    BY <1>1
  <2>2. rt = r0 + 2 * r1 + 4 * r2 + 8 * r3 + 16 * r4 /\ rs % 8 = s0 + 2 * s1 + 4 * s2
    BY FiveBits, Zenon
  <2>3. b[3] = r0 + 2 * r1 + 4 * r2 + 8 * r3 + 16 * r4 + 32 * s0 + 64 * s1 + 128 * s2
    BY <1>2, <1>3, PrintedBytes, Zenon DEF ByteOf
  <2> HIDE DEF b, r0, r1, r2, r3, r4, s0, s1, s2
  <2> QED BY <1>1, <2>1, <2>2, <2>3, SMT
<1> QED BY <1>4, <1>5

(* A register field holds its register and reaches no further.             *)
LEMMA RegisterField ==
    \A n \in 0..31 : \A x \in 0..31 :
        /\ x \in Shl(n, 6) => x \in 6..10
        /\ x \in Shl(n, 11) => x \in 11..15
        /\ x \in Shl(n, 16) => x \in 16..20
        /\ x \in Shl(n, 21) => x \in 21..25
<1> SUFFICES ASSUME NEW n \in 0..31, NEW x \in 0..31, NEW offset \in {6, 11, 16, 21},
                    x \in Shl(n, offset)
             PROVE  x - offset \in 0..4
  OBVIOUS
<1>1. offset \in Int
  OBVIOUS
<1> QED BY <1>1, RegisterShift, Zenon

(* The word of an R instruction, bit by bit.                               *)
LEMMA RBits ==
    ASSUME NEW inst, inst.opcode \in 0..63, inst.funct \in 0..31,
           NEW rs \in 0..31, NEW rt \in 0..31, NEW rd \in 0..31
    PROVE  LET word == RWord(inst, rs, rt, rd)
           IN  /\ \A x \in 0..5 : x \notin word
               /\ \A x \in 6..10 : x \in word <=> x - 6 \in Bits(inst.funct)
               /\ \A x \in 11..15 : x \in word <=> x - 11 \in Bits(rd)
               /\ \A x \in 16..20 : x \in word <=> x - 16 \in Bits(rt)
               /\ \A x \in 21..25 : x \in word <=> x - 21 \in Bits(rs)
               /\ \A x \in 26..31 : x \in word <=> x - 26 \in Bits(inst.opcode)
<1> DEFINE word == RWord(inst, rs, rt, rd)
           o == inst.opcode
           f == inst.funct
<1>1. \A x \in 0..31 :
        x \in word <=> \/ x \in Shl(o, 26) \/ x \in Shl(rs, 21) \/ x \in Shl(rt, 16)
                       \/ x \in Shl(rd, 11) \/ x \in Shl(f, 6)
  BY DEF RWord
<1>2. /\ o \in Int /\ f \in Int /\ rs \in Int /\ rt \in Int /\ rd \in Int
      /\ 26 \in Int /\ 21 \in Int /\ 16 \in Int /\ 11 \in Int /\ 6 \in Int
  OBVIOUS
<1>3. \A x \in 0..31 :
        /\ x \in Shl(o, 26) <=> x - 26 \in Bits(o)
        /\ x \in Shl(rs, 21) <=> x - 21 \in Bits(rs)
        /\ x \in Shl(rt, 16) <=> x - 16 \in Bits(rt)
        /\ x \in Shl(rd, 11) <=> x - 11 \in Bits(rd)
        /\ x \in Shl(f, 6) <=> x - 6 \in Bits(f)
  BY <1>2, ShlMember, Zenon
<1>4. \A x \in Shl(o, 26) : x \in 26..31
  BY OpcodeAbove
<1>5. \A x \in 0..31 :
        /\ x \in Shl(f, 6) => x \in 6..10
        /\ x \in Shl(rd, 11) => x \in 11..15
        /\ x \in Shl(rt, 16) => x \in 16..20
        /\ x \in Shl(rs, 21) => x \in 21..25
  BY RegisterField
<1> HIDE DEF word, o, f
<1>6. \A x \in 0..5 : x \notin word
  BY <1>1, <1>4, <1>5
<1>7. \A x \in 6..10 : x \in word <=> x - 6 \in Bits(f)
  BY <1>1, <1>3, <1>4, <1>5
<1>8. \A x \in 11..15 : x \in word <=> x - 11 \in Bits(rd)
  BY <1>1, <1>3, <1>4, <1>5
<1>9. \A x \in 16..20 : x \in word <=> x - 16 \in Bits(rt)
  BY <1>1, <1>3, <1>4, <1>5
<1>10. \A x \in 21..25 : x \in word <=> x - 21 \in Bits(rs)
  BY <1>1, <1>3, <1>4, <1>5
<1>11. \A x \in 26..31 : x \in word <=> x - 26 \in Bits(o)
  BY <1>1, <1>3, <1>4, <1>5
<1> QED BY <1>6, <1>7, <1>8, <1>9, <1>10, <1>11 DEF word, o, f

(* The word of an I instruction, bit by bit.                               *)
LEMMA IBits ==
    ASSUME NEW inst, inst.opcode \in 0..63, NEW rs \in 0..31, NEW rt \in 0..31,
           NEW immed \in Int
    PROVE  LET word == IWord(inst, rs, rt, immed)
           IN  /\ \A x \in 0..15 : x \in word <=> x \in Bits(immed)
               /\ \A x \in 16..20 : x \in word <=> x - 16 \in Bits(rt)
               /\ \A x \in 21..25 : x \in word <=> x - 21 \in Bits(rs)
               /\ \A x \in 26..31 : x \in word <=> x - 26 \in Bits(inst.opcode)
<1> DEFINE word == IWord(inst, rs, rt, immed)
           o == inst.opcode
<1>1. \A x \in 0..31 :
        x \in word <=> \/ x \in Shl(o, 26) \/ x \in Shl(rs, 21) \/ x \in Shl(rt, 16)
                       \/ x \in 0..15 /\ x \in Bits(immed)
  BY DEF IWord, Low16
<1>2. /\ o \in Int /\ rs \in Int /\ rt \in Int
      /\ 26 \in Int /\ 21 \in Int /\ 16 \in Int
  OBVIOUS
<1>3. \A x \in 0..31 :
        /\ x \in Shl(o, 26) <=> x - 26 \in Bits(o)
        /\ x \in Shl(rs, 21) <=> x - 21 \in Bits(rs)
        /\ x \in Shl(rt, 16) <=> x - 16 \in Bits(rt)
  BY <1>2, ShlMember, Zenon
<1>4. \A x \in Shl(o, 26) : x \in 26..31
  BY OpcodeAbove
<1>5. \A x \in 0..31 : /\ x \in Shl(rt, 16) => x \in 16..20
                       /\ x \in Shl(rs, 21) => x \in 21..25
  BY RegisterField
<1> HIDE DEF word, o
<1>6. \A x \in 0..15 : x \in word <=> x \in Bits(immed)
  BY <1>1, <1>4, <1>5
<1>7. \A x \in 16..20 : x \in word <=> x - 16 \in Bits(rt)
  BY <1>1, <1>3, <1>4, <1>5
<1>8. \A x \in 21..25 : x \in word <=> x - 21 \in Bits(rs)
  BY <1>1, <1>3, <1>4, <1>5
<1>9. \A x \in 26..31 : x \in word <=> x - 26 \in Bits(o)
  BY <1>1, <1>3, <1>4, <1>5
<1> QED BY <1>6, <1>7, <1>8, <1>9 DEF word, o

(* An I instruction reads back.                                            *)
LEMMA ImmediateReadsBack ==
    ASSUME NEW inst, inst.opcode \in 0..63, NEW rs \in 0..31, NEW rt \in 0..31,
           NEW immed \in Int
    PROVE  LET b == printInstruction(IWord(inst, rs, rt, immed))
           IN  /\ b[1] + 2^8 * b[2] = immed % 2^16
               /\ b[3] = rt + 32 * (rs % 8)
               /\ b[4] = (rs \div 8) + 4 * inst.opcode
               /\ b[4] \div 4 = inst.opcode
<1> DEFINE word == IWord(inst, rs, rt, immed)
           b == printInstruction(word)
           o == inst.opcode
<1>1. /\ \A x \in 0..15 : x \in word <=> x \in Bits(immed)
      /\ \A x \in 16..20 : x \in word <=> x - 16 \in Bits(rt)
      /\ \A x \in 21..25 : x \in word <=> x - 21 \in Bits(rs)
      /\ \A x \in 26..31 : x \in word <=> x - 26 \in Bits(o)
  BY IBits
<1> HIDE DEF word, o
<1>2. b[1] = immed % 256 /\ b[2] = (immed \div 2^8) % 256
  <2>1. /\ \A x \in 0..7 : x \in word <=> x \in Bits(immed)
        /\ \A x \in 8..15 : x \in word <=> x \in Bits(immed)
    BY <1>1
  <2> QED BY <2>1, LowByte, SecondByte
<1>3. b[3] = rt + 32 * (rs % 8) /\ b[4] = (rs \div 8) + 4 * o
  <2>1. UpperBits(word, rs, rt, o)
    BY <1>1 DEF UpperBits
  <2> QED BY <2>1, UpperHalf DEF o
<1>4. b[4] \div 4 = o
  BY <1>1, OpcodeByte DEF o
<1> QED BY <1>2, <1>3, <1>4, TwoBytes, Zenon DEF word, o

(* An R instruction reads back.                                            *)
LEMMA RegistersReadBack ==
    ASSUME NEW inst, inst.opcode \in 0..63, inst.funct \in 0..31,
           NEW rs \in 0..31, NEW rt \in 0..31, NEW rd \in 0..31
    PROVE  LET b == printInstruction(RWord(inst, rs, rt, rd))
           IN  /\ b[1] = 64 * (inst.funct % 4)
               /\ b[2] = (inst.funct \div 4) + 8 * rd
               /\ b[3] = rt + 32 * (rs % 8)
               /\ b[4] = (rs \div 8) + 4 * inst.opcode
               /\ b[4] \div 4 = inst.opcode
<1> DEFINE word == RWord(inst, rs, rt, rd)
           b == printInstruction(word)
           o == inst.opcode
           f == inst.funct
<1>1. /\ \A x \in 0..5 : x \notin word
      /\ \A x \in 6..10 : x \in word <=> x - 6 \in Bits(f)
      /\ \A x \in 11..15 : x \in word <=> x - 11 \in Bits(rd)
      /\ \A x \in 16..20 : x \in word <=> x - 16 \in Bits(rt)
      /\ \A x \in 21..25 : x \in word <=> x - 21 \in Bits(rs)
      /\ \A x \in 26..31 : x \in word <=> x - 26 \in Bits(o)
  BY RBits
<1>0. o \in 0..63 /\ f \in 0..31
  OBVIOUS
<1> HIDE DEF word, o, f
<1>2. b[3] = rt + 32 * (rs % 8) /\ b[4] = (rs \div 8) + 4 * o
  <2>1. UpperBits(word, rs, rt, o)
    BY <1>1 DEF UpperBits
  <2> QED BY <1>0, <2>1, UpperHalf
<1>3. b[4] \div 4 = o
  BY <1>0, <1>1, OpcodeByte
<1>4. /\ 6 \in word <=> f % 2 = 1
      /\ 7 \in word <=> (f \div 2) % 2 = 1
      /\ 8 \in word <=> (f \div 4) % 2 = 1
      /\ 9 \in word <=> (f \div 8) % 2 = 1
      /\ 10 \in word <=> (f \div 16) % 2 = 1
  <2>1. /\ 6 \in word <=> 0 \in Bits(f)
        /\ 7 \in word <=> 1 \in Bits(f)
        /\ 8 \in word <=> 2 \in Bits(f)
        /\ 9 \in word <=> 3 \in Bits(f)
        /\ 10 \in word <=> 4 \in Bits(f)
    BY <1>1, SMT
  <2> QED BY <1>0, <2>1, FiveBitsTested
<1>5. /\ 11 \in word <=> rd % 2 = 1
      /\ 12 \in word <=> (rd \div 2) % 2 = 1
      /\ 13 \in word <=> (rd \div 4) % 2 = 1
      /\ 14 \in word <=> (rd \div 8) % 2 = 1
      /\ 15 \in word <=> (rd \div 16) % 2 = 1
  <2>1. /\ 11 \in word <=> 0 \in Bits(rd)
        /\ 12 \in word <=> 1 \in Bits(rd)
        /\ 13 \in word <=> 2 \in Bits(rd)
        /\ 14 \in word <=> 3 \in Bits(rd)
        /\ 15 \in word <=> 4 \in Bits(rd)
    BY <1>1, SMT
  <2> QED BY <2>1, FiveBitsTested
<1>6. /\ f \div 2 \in Int /\ f \div 4 \in Int /\ f \div 8 \in Int /\ f \div 16 \in Int
      /\ rd \div 2 \in Int /\ rd \div 4 \in Int /\ rd \div 8 \in Int /\ rd \div 16 \in Int
      /\ f \in Int /\ rd \in Int
  BY <1>0
<1> DEFINE f0 == f % 2
           f1 == (f \div 2) % 2
           f2 == (f \div 4) % 2
           f3 == (f \div 8) % 2
           f4 == (f \div 16) % 2
           r0 == rd % 2
           r1 == (rd \div 2) % 2
           r2 == (rd \div 4) % 2
           r3 == (rd \div 8) % 2
           r4 == (rd \div 16) % 2
<1>7. /\ Bit(word, 6, 64) = 64 * f0 /\ Bit(word, 7, 128) = 128 * f1
      /\ Bit(word, 8, 1) = f2 /\ Bit(word, 9, 2) = 2 * f3 /\ Bit(word, 10, 4) = 4 * f4
  BY <1>4, <1>6, BitOfNumber
<1>8. /\ Bit(word, 11, 8) = 8 * r0 /\ Bit(word, 12, 16) = 16 * r1
      /\ Bit(word, 13, 32) = 32 * r2 /\ Bit(word, 14, 64) = 64 * r3
      /\ Bit(word, 15, 128) = 128 * r4
  BY <1>5, <1>6, BitOfNumber
<1>9. /\ Bit(word, 0, 1) = 0 /\ Bit(word, 1, 2) = 0 /\ Bit(word, 2, 4) = 0
      /\ Bit(word, 3, 8) = 0 /\ Bit(word, 4, 16) = 0 /\ Bit(word, 5, 32) = 0
  BY <1>1 DEF Bit
<1>10. /\ f0 \in Int /\ f1 \in Int /\ f2 \in Int /\ f3 \in Int /\ f4 \in Int
       /\ r0 \in Int /\ r1 \in Int /\ r2 \in Int /\ r3 \in Int /\ r4 \in Int
  BY <1>6
<1>11. f % 4 = f0 + 2 * f1 /\ f \div 4 = f2 + 2 * f3 + 4 * f4
  BY <1>0, FiveBits, Zenon
<1>12. rd = r0 + 2 * r1 + 4 * r2 + 8 * r3 + 16 * r4
  BY FiveBits, Zenon
<1>13. f % 4 \in Int
  BY <1>6
<1>14. /\ b[1] = ByteOf(word, 0, 1, 2, 3, 4, 5, 6, 7)
       /\ b[2] = ByteOf(word, 8, 9, 10, 11, 12, 13, 14, 15)
  BY PrintedBytes
<1> HIDE DEF b, f0, f1, f2, f3, f4, r0, r1, r2, r3, r4
<1>15. b[1] = 64 * (f % 4)
  BY <1>7, <1>9, <1>10, <1>11, <1>13, <1>14, SMT DEF ByteOf
<1>16. b[2] = (f \div 4) + 8 * rd
  BY <1>6, <1>7, <1>8, <1>10, <1>11, <1>12, <1>14, SMT DEF ByteOf
<1> QED BY <1>2, <1>3, <1>15, <1>16, Zenon DEF b, word, o, f

(* stop has its opcode and nothing else.                                   *)
LEMMA StopReadsBack ==
    ASSUME NEW o \in 0..63
    PROVE  LET b == printInstruction(Shl(o, 26))
           IN  /\ b[1] = 0 /\ b[2] = 0 /\ b[3] = 0 /\ b[4] = 4 * o /\ b[4] \div 4 = o
<1> DEFINE word == Shl(o, 26)
           b == printInstruction(word)
<1>1. \A x \in 26..31 : x \in word <=> x - 26 \in Bits(o)
  <2>1. \A x \in 26..31 : x \in 0..31
    OBVIOUS
  <2>2. o \in Int /\ 26 \in Int
    OBVIOUS
  <2> QED BY <2>1, <2>2, ShlMember, Zenon
<1>2. \A x \in 0..25 : x \notin word
  BY OpcodeAbove
<1> HIDE DEF word
<1>3. b[4] = Bit(word, 24, 1) + Bit(word, 25, 2) + 4 * o /\ b[4] \div 4 = o
  BY <1>1, OpcodeByte
<1>4. Bit(word, 24, 1) = 0 /\ Bit(word, 25, 2) = 0
  BY <1>2 DEF Bit
<1>5. b[1] = 0 /\ b[2] = 0 /\ b[3] = 0
  <2>1. \A x \in 0..25 : \A v : Bit(word, x, v) = 0
    BY <1>2 DEF Bit
  <2>2. /\ b[1] = ByteOf(word, 0, 1, 2, 3, 4, 5, 6, 7)
        /\ b[2] = ByteOf(word, 8, 9, 10, 11, 12, 13, 14, 15)
        /\ b[3] = ByteOf(word, 16, 17, 18, 19, 20, 21, 22, 23)
    BY PrintedBytes
  <2> HIDE DEF b
  <2> QED BY <2>1, <2>2, SMT DEF ByteOf
<1>6. b[4] = 4 * o
  BY <1>3, <1>4
<1> QED BY <1>3, <1>5, <1>6 DEF word

(* The codes of the mnemonics fit their fields.                            *)
LEMMA CodesFit ==
    \A h \in DOMAIN INSTRUCTIONS :
        /\ INSTRUCTIONS[h].opcode \in 0..63 /\ INSTRUCTIONS[h].funct \in 0..31
        /\ INSTRUCTIONS[h].type \in {"R", "I", "J"}
        /\ INSTRUCTIONS[h].type = "J" <=> h \in LabelJumps \cup {"jmp", "stop"}
        /\ h \in RegisterMoves => INSTRUCTIONS[h].type = "R"
        /\ h \in LabelBranches => INSTRUCTIONS[h].type = "I"
BY DEF INSTRUCTIONS, LabelJumps, RegisterMoves, LabelBranches
===============================================================================
