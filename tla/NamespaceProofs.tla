--------------------------- MODULE NamespaceProofs ----------------------------
(***************************************************************************)
(* Proof that the first pass, whatever the program, implements the name    *)
(* space of Namespace.tla under the refinement mapping of FirstPass.tla.   *)
(***************************************************************************)
EXTENDS FirstPassProofs

-------------------------------------------------------------------------------
(* What a line may do to the meaning of names: nothing; give one name its  *)
(* meaning; or export one name.                                            *)
OnlyDeclares(t, u) ==
    \/ /\ \A n \in Names : Meaning(u, n) = Meaning(t, n)
       /\ Exported(u) = Exported(t)
    \/ \E n \in Names :
         /\ \A m \in Names \ {n} : Meaning(u, m) = Meaning(t, m)
         /\ Exported(u) = Exported(t)
         /\ Meaning(t, n) = [kind |-> "none", address |-> -1]
         /\ \/ Meaning(u, n).kind \in {"code", "data"} /\ Meaning(u, n).address \in Nat
            \/ Meaning(u, n) = [kind |-> "extern", address |-> 0] /\ n \notin Exported(t)
    \/ \E n \in Names :
         /\ \A m \in Names : Meaning(u, m) = Meaning(t, m)
         /\ Exported(u) = Exported(t) \cup {n}

(* Appending a symbol declares its name, unless an earlier one does.       *)
LEMMA AppendDeclares ==
    ASSUME NEW table, TableOK(table), NEW label \in Labels, NEW address, NEW flag,
           Call(address, flag),
           findSymbolInTable(table, label) = 0 \/ flag = "EXTERNAL"
    PROVE  OnlyDeclares(table, Append(table, newSymbol(label, address, flag)))
<1> DEFINE new == newSymbol(label, address, flag)
           u == Append(table, new)
<1>1. table \in Seq(Symbol) /\ Len(table) \in Nat /\ DOMAIN table = 1..Len(table)
  BY DEF TableOK
<1>2. new = [label |-> label, address |-> address, attributes |-> {flag}]
  BY DEF newSymbol
<1>3. new \in Symbol
  BY <1>2 DEF Symbol, Call, Flags
<1>4. u[Len(table) + 1] = new /\ \A i \in DOMAIN table : u[i] = table[i]
  BY <1>1
<1>5. \A n : findSymbolInTable(u, n) =
               IF findSymbolInTable(table, n) # 0 THEN findSymbolInTable(table, n)
               ELSE IF label = n THEN Len(table) + 1 ELSE 0
  <2> HIDE DEF new
  <2>1. new.label = label
    BY <1>2
  <2> QED BY <1>1, <1>3, <2>1, FindInAppend
<1> HIDE DEF u, new
<1>6. ASSUME NEW n \in Names, findSymbolInTable(table, n) # 0 \/ n # label
      PROVE  Meaning(u, n) = Meaning(table, n)
             /\ (n \in Exported(u) <=> n \in Exported(table))
  <2>1. findSymbolInTable(u, n) = findSymbolInTable(table, n)
    BY <1>5, <1>6
  <2>2. findSymbolInTable(table, n) # 0 =>
          u[findSymbolInTable(table, n)] = table[findSymbolInTable(table, n)]
    BY <1>1, <1>4, FindIsFirst
  <2> QED BY <2>1, <2>2 DEF Meaning, Exported
<1>7. Exported(u) \subseteq Names /\ Exported(table) \subseteq Names
  BY DEF Exported
<1>8. CASE findSymbolInTable(table, label) # 0
  <2>1. \A n \in Names : Meaning(u, n) = Meaning(table, n)
                         /\ (n \in Exported(u) <=> n \in Exported(table))
    BY <1>6, <1>8
  <2> QED BY <1>7, <2>1 DEF OnlyDeclares, u, new
<1>9. CASE findSymbolInTable(table, label) = 0
  <2>1. /\ Meaning(table, label) = [kind |-> "none", address |-> -1]
        /\ label \notin Exported(table)
    BY <1>9 DEF Meaning, Exported
  <2>2. findSymbolInTable(u, label) = Len(table) + 1 /\ Len(table) + 1 # 0
    BY <1>1, <1>5, <1>9
  <2>3. /\ Meaning(u, label) = [kind |-> Kind({flag}), address |-> address]
        /\ label \in Exported(u) <=> flag = "ENTRY"
    <3>1. /\ u[Len(table) + 1].attributes = {flag}
          /\ u[Len(table) + 1].address = address
      BY <1>2, <1>4
    <3> QED BY LabelsAreNames, <2>2, <3>1 DEF Meaning, Exported
  <2>4. \A m \in Names \ {label} : Meaning(u, m) = Meaning(table, m)
                                   /\ (m \in Exported(u) <=> m \in Exported(table))
    BY <1>6
  <2>5. CASE flag \in {"DATA", "CODE"} /\ address \in Nat
    <3>1. Kind({flag}) \in {"code", "data"}
      BY <2>5 DEF Kind
    <3>2. Exported(u) = Exported(table)
      BY <1>7, <2>1, <2>3, <2>4, <2>5
    <3> QED BY <2>1, <2>3, <2>4, <2>5, <3>1, <3>2 DEF OnlyDeclares, u, new
  <2>6. CASE flag = "EXTERNAL" /\ address = 0
    <3>1. Kind({flag}) = "extern"
      BY <2>6 DEF Kind
    <3>2. Exported(u) = Exported(table)
      BY <1>7, <2>1, <2>3, <2>4, <2>6
    <3> QED BY <2>1, <2>3, <2>4, <2>6, <3>1, <3>2 DEF OnlyDeclares, u, new
  <2>7. CASE flag = "ENTRY" /\ address = -1
    <3>1. Kind({flag}) = "none"
      BY <2>7 DEF Kind
    <3>2. \A m \in Names : Meaning(u, m) = Meaning(table, m)
      BY <2>1, <2>3, <2>4, <2>7, <3>1
    <3>3. Exported(u) = Exported(table) \cup {label}
      BY <1>7, <2>1, <2>3, <2>4, <2>7
    <3> QED BY LabelsAreNames, <3>2, <3>3 DEF OnlyDeclares, u, new
  <2> QED BY <2>5, <2>6, <2>7 DEF Call
<1> QED BY <1>8, <1>9

(* Merging gives a name .entry mentioned its meaning, or exports it.       *)
LEMMA MergeDeclares ==
    ASSUME NEW table, TableOK(table), NEW label \in Labels, NEW address, NEW flag,
           Call(address, flag), flag # "EXTERNAL",
           NEW k, k = findSymbolInTable(table, label), k # 0,
           Mergeable(table[k], address, flag)
    PROVE  OnlyDeclares(table, [table EXCEPT ![k] = Merge(table[k], address, flag)])
<1> DEFINE s == table[k]
           m == Merge(s, address, flag)
           u == [table EXCEPT ![k] = m]
<1>1. table \in Seq(Symbol) /\ Len(table) \in Nat /\ DOMAIN table = 1..Len(table)
  BY DEF TableOK
<1>2. k \in DOMAIN table /\ s.label = label /\ s \in Symbol /\ OneMeaning(s)
  BY <1>1, FindIsFirst DEF TableOK
<1>3. m \in Symbol /\ m.label = s.label
  BY <1>2, MergeKeepsMeaning
<1>4. /\ u \in Seq(Symbol) /\ DOMAIN u = DOMAIN table /\ u[k] = m
      /\ \A i \in DOMAIN table \ {k} : u[i] = table[i]
  BY <1>1, <1>2, <1>3
<1>5. /\ m.address = IF address = -1 THEN s.address ELSE address
      /\ m.attributes = s.attributes \cup {flag}
  BY DEF Merge
<1>6. Mergeable(s, address, flag)
  OBVIOUS
<1> HIDE DEF u, m, s
<1>7. \A n : findSymbolInTable(u, n) = findSymbolInTable(table, n)
  <2>1. \A i \in DOMAIN table : u[i].label = table[i].label
    BY <1>2, <1>3, <1>4 DEF s
  <2> QED BY <1>1, <1>4, <2>1, FindSameLabels
<1>8. ASSUME NEW n \in Names \ {label}
      PROVE  Meaning(u, n) = Meaning(table, n)
             /\ (n \in Exported(u) <=> n \in Exported(table))
  <2>1. findSymbolInTable(table, n) # 0 =>
          findSymbolInTable(table, n) \in DOMAIN table \ {k}
    BY <1>1, <1>2, FindIsFirst DEF s
  <2> QED BY <1>4, <1>7, <2>1 DEF Meaning, Exported
<1>9. /\ Meaning(table, label) = [kind |-> Kind(s.attributes), address |-> s.address]
      /\ Meaning(u, label) = [kind |-> Kind(m.attributes), address |-> m.address]
      /\ label \in Exported(table) <=> "ENTRY" \in s.attributes
      /\ label \in Exported(u) <=> "ENTRY" \in m.attributes
  BY LabelsAreNames, <1>4, <1>7 DEF Meaning, Exported, s
<1>10. Exported(u) \subseteq Names /\ Exported(table) \subseteq Names
  BY DEF Exported
<1>11. CASE flag = "ENTRY" /\ address = -1
  <2>1. m.address = s.address /\ Kind(m.attributes) = Kind(s.attributes)
    BY <1>5, <1>11 DEF Kind
  <2>2. \A n \in Names : Meaning(u, n) = Meaning(table, n)
    BY <1>8, <1>9, <2>1
  <2>3. Exported(u) = Exported(table) \cup {label}
    BY <1>5, <1>8, <1>9, <1>10, <1>11
  <2> QED BY LabelsAreNames, <2>2, <2>3 DEF OnlyDeclares, u, m, s
<1>12. CASE flag \in {"DATA", "CODE"} /\ address \in Nat
  <2>1. s.attributes = {"ENTRY"} /\ s.address = -1
    BY <1>2, <1>6, <1>12 DEF Mergeable, OneMeaning, Symbol
  <2>2. m.attributes = {"ENTRY", flag} /\ m.address = address
    BY <1>5, <1>12, <2>1
  <2>3. Kind(s.attributes) = "none" /\ Kind(m.attributes) \in {"code", "data"}
    BY <1>12, <2>1, <2>2 DEF Kind
  <2>4. Exported(u) = Exported(table)
    BY <1>8, <1>9, <1>10, <2>1, <2>2
  <2>5. /\ Meaning(table, label) = [kind |-> "none", address |-> -1]
        /\ Meaning(u, label).kind \in {"code", "data"}
        /\ Meaning(u, label).address \in Nat
    BY <1>9, <1>12, <2>1, <2>2, <2>3
  <2> QED BY <1>8, <2>4, <2>5 DEF OnlyDeclares, u, m, s
<1> QED BY <1>11, <1>12 DEF Call

(* A call of addSymbol changes the meaning of at most the name it is given.*)
LEMMA AddSymbolDeclares ==
    ASSUME NEW table, TableOK(table), NEW label, NEW address, NEW flag,
           Call(address, flag),
           NEW r \in AddSymbolOutcomes(table, label, address, flag)
    PROVE  OnlyDeclares(table, r.table)
<1> DEFINE k == findSymbolInTable(table, label)
<1>1. AddSymbolEffect(table, label, address, flag, r)
  BY AddSymbolCases DEF TableOK
<1>2. CASE r.table = table
  BY <1>2 DEF OnlyDeclares
<1>3. CASE /\ label \in Labels /\ (k = 0 \/ flag = "EXTERNAL")
           /\ r.table = Append(table, newSymbol(label, address, flag))
  BY <1>3, AppendDeclares, NamesAssumption
<1>4. CASE /\ label \in Labels /\ k # 0 /\ flag # "EXTERNAL"
           /\ Mergeable(table[k], address, flag)
           /\ r.table = [table EXCEPT ![k] = Merge(table[k], address, flag)]
  BY <1>4, MergeDeclares, NamesAssumption
<1> QED BY <1>1, <1>2, <1>3, <1>4 DEF AddSymbolEffect

-------------------------------------------------------------------------------
(* The values of the abstract variables.                                   *)
Bind == [n \in Names |-> Meaning(symbolTable, n)]
AbstractVars == <<Bind, Exported(symbolTable), relocated>>

(* A line of the first pass is a step of the name space or none.           *)
LEMMA LineRefines ==
    ASSUME OnlyDeclares(symbolTable, symbolTable'), ~relocated, ~relocated'
    PROVE  [N!Next]_AbstractVars
<1>1. Bind' = [n \in Names |-> Meaning(symbolTable', n)]
  BY DEF Bind
<1>2. relocated' = relocated
  BY DEF relocated
<1>3. CASE /\ \A n \in Names : Meaning(symbolTable', n) = Meaning(symbolTable, n)
           /\ Exported(symbolTable') = Exported(symbolTable)
  BY <1>2, <1>3 DEF AbstractVars, Bind
<1>4. CASE \E n \in Names :
             /\ \A m \in Names \ {n} : Meaning(symbolTable', m) = Meaning(symbolTable, m)
             /\ Exported(symbolTable') = Exported(symbolTable)
             /\ Meaning(symbolTable, n) = [kind |-> "none", address |-> -1]
             /\ \/ /\ Meaning(symbolTable', n).kind \in {"code", "data"}
                   /\ Meaning(symbolTable', n).address \in Nat
                \/ /\ Meaning(symbolTable', n) = [kind |-> "extern", address |-> 0]
                   /\ n \notin Exported(symbolTable)
  BY <1>2, <1>4 DEF N!Next, N!Define, N!Import, N!OnlyBinds, N!Unbound
<1>5. CASE \E n \in Names :
             /\ \A m \in Names : Meaning(symbolTable', m) = Meaning(symbolTable, m)
             /\ Exported(symbolTable') = Exported(symbolTable) \cup {n}
  BY <1>2, <1>5 DEF N!Next, N!Export
<1> QED BY <1>3, <1>4, <1>5 DEF OnlyDeclares

(* The relocation is the one move of all data.                             *)
LEMMA RelocationRefines ==
    ASSUME Inv, EndFirstPass
    PROVE  N!Next
<1> DEFINE t == symbolTable
           u == symbolTable'
<1>1. /\ t \in Seq(Symbol) /\ TableOK(t) /\ Len(t) \in Nat /\ DOMAIN t = 1..Len(t)
      /\ ic \in Nat /\ u = Relocate(t, ic)
  BY DEF Inv, TableOK, TypeOK, DataTypeOK, EndFirstPass
<1>2. u \in Seq(Symbol)
  BY <1>1, RelocateKeepsTable DEF TableOK
<1>3. ASSUME NEW i \in DOMAIN t
      PROVE  /\ u[i].label = t[i].label /\ u[i].attributes = t[i].attributes
             /\ u[i].address = t[i].address + IF "DATA" \in t[i].attributes THEN ic ELSE 0
             /\ t[i].address \in Int
  <2>1. t[i] \in Symbol
    BY <1>1
  <2>2. t[i].address \in Int
    BY <2>1 DEF Symbol
  <2>3. CASE "DATA" \in t[i].attributes
    <3>1. u[i] = [t[i] EXCEPT !.address = @ + ic]
      BY <1>1, <2>3 DEF Relocate
    <3>2. u[i] = [label |-> t[i].label, address |-> t[i].address + ic,
                  attributes |-> t[i].attributes]
      BY <2>1, <3>1 DEF Symbol
    <3> QED BY <2>2, <2>3, <3>2
  <2>4. CASE "DATA" \notin t[i].attributes
    BY <1>1, <2>2, <2>4 DEF Relocate
  <2> QED BY <2>3, <2>4
<1>4. DOMAIN u = DOMAIN t
  BY <1>1 DEF Relocate
<1>5. \A n : findSymbolInTable(u, n) = findSymbolInTable(t, n)
  BY <1>1, <1>2, <1>3, <1>4, FindSameLabels
<1>6. \A i \in DOMAIN t : Kind(t[i].attributes) = "data" <=> "DATA" \in t[i].attributes
  BY <1>1 DEF Kind, TableOK, OneMeaning
<1> HIDE DEF t, u
<1>7. ASSUME NEW n \in Names
      PROVE  /\ Meaning(u, n).kind = Meaning(t, n).kind
             /\ Meaning(t, n).address \in Int
             /\ Meaning(u, n).address =
                  Meaning(t, n).address + IF Meaning(t, n).kind = "data" THEN ic ELSE 0
             /\ Meaning(t, n).kind # "data" => Meaning(u, n) = Meaning(t, n)
             /\ n \in Exported(u) <=> n \in Exported(t)
  <2> DEFINE k == findSymbolInTable(t, n)
  <2>1. CASE k = 0
    BY <1>5, <2>1 DEF Meaning, Exported
  <2>2. CASE k # 0
    <3>1. k \in DOMAIN t
      BY <1>1, <2>2, FindIsFirst
    <3>2. /\ Meaning(t, n) = [kind |-> Kind(t[k].attributes), address |-> t[k].address]
          /\ Meaning(u, n) = [kind |-> Kind(t[k].attributes), address |-> u[k].address]
          /\ n \in Exported(u) <=> n \in Exported(t)
      BY <1>3, <1>5, <2>2, <3>1 DEF Meaning, Exported
    <3> HIDE DEF k
    <3>3. u[k].address = t[k].address + IF Kind(t[k].attributes) = "data" THEN ic ELSE 0
      BY <1>3, <1>6, <3>1
    <3>4. t[k].address \in Int
      BY <1>3, <3>1
    <3> QED BY <3>2, <3>3, <3>4, <1>1
  <2> QED BY <2>1, <2>2
<1>8. Exported(u) = Exported(t)
  BY <1>7 DEF Exported
<1>9. ~relocated /\ relocated' = TRUE
  BY DEF EndFirstPass, relocated
<1>10. N!Move
  BY <1>1, <1>7, <1>8, <1>9 DEF N!Move, t, u
<1> QED BY <1>10 DEF N!Next

(* The first pass implements the name space: whatever lines a program has  *)
(* and whichever allocations fail, a name gets its meaning once, by its    *)
(* first declaration, and keeps it but for the one move of all data.       *)
THEOREM FirstPassImplementsNamespace == FirstPassSpec => ImplementsNamespace
<1>1. Init => N!Init
  <2> SUFFICES ASSUME Init PROVE N!Init
    OBVIOUS
  <2>1. symbolTable = <<>> /\ symbolTable \in Seq(Symbol) /\ DOMAIN symbolTable = {}
    BY EmptySeq DEF Init
  <2>2. \A n : findSymbolInTable(symbolTable, n) = 0
    BY <2>1, FindIsFirst
  <2>3. relocated = FALSE
    BY DEF Init, relocated
  <2> QED BY <2>2, <2>3 DEF N!Init, N!Unbound, Meaning, Exported
<1>2. Inv /\ [Pass1 \/ FirstPassOver]_firstPassVars => [N!Next]_AbstractVars
  <2> SUFFICES ASSUME Inv, [Pass1 \/ FirstPassOver]_firstPassVars
               PROVE  [N!Next]_AbstractVars
    OBVIOUS
  <2>1. ASSUME symbolTable' = symbolTable, ~relocated, ~relocated'
        PROVE  [N!Next]_AbstractVars
    BY <2>1, LineRefines DEF OnlyDeclares
  <2>2. CASE UNCHANGED firstPassVars
    BY <2>2 DEF firstPassVars, AbstractVars, Bind, relocated
  <2>3. CASE SkipLine
    BY <2>1, <2>3 DEF SkipLine, AtLine, Advance, relocated
  <2>4. CASE CrashLine
    BY <2>1, <2>4 DEF CrashLine, AtUsableLine, AtLine, relocated
  <2>5. ASSUME NEW label, NEW address, NEW flag, Call(address, flag),
               NEW r \in LabelOutcomes(label, address, flag), symbolTable' = r.table
        PROVE  OnlyDeclares(symbolTable, symbolTable')
    <3>1. CASE label = NULL
      BY <2>5, <3>1 DEF LabelOutcomes, OnlyDeclares
    <3>2. CASE label # NULL
      BY <2>5, <3>2, AddSymbolDeclares DEF LabelOutcomes, Inv
    <3> QED BY <3>1, <3>2
  <2>6. CASE DirectiveLine
    <3>1. Call(dc, "DATA")
      BY DEF Call, Inv, TypeOK, DataTypeOK
    <3>2. OnlyDeclares(symbolTable, symbolTable')
      BY <2>5, <2>6, <3>1 DEF DirectiveLine
    <3> QED BY <2>6, <3>2, LineRefines
            DEF DirectiveLine, AtUsableLine, AtLine, Advance, relocated
  <2>7. CASE InstructionLine
    <3>1. Call(ic, "CODE")
      BY DEF Call, Inv, TypeOK, DataTypeOK
    <3>2. OnlyDeclares(symbolTable, symbolTable')
      BY <2>5, <2>7, <3>1 DEF InstructionLine
    <3> QED BY <2>7, <3>2, LineRefines
            DEF InstructionLine, AtUsableLine, AtLine, Advance, relocated
  <2>8. CASE EntryLine
    <3>1. Call(-1, "ENTRY")
      BY DEF Call
    <3>2. OnlyDeclares(symbolTable, symbolTable')
      BY <2>8, <3>1, AddSymbolDeclares DEF EntryLine, Inv
    <3> QED BY <2>8, <3>2, LineRefines
            DEF EntryLine, AtUsableLine, AtLine, Advance, relocated
  <2>9. CASE ExternLine
    <3>1. Call(0, "EXTERNAL")
      BY DEF Call
    <3>2. PICK r \in processExtern(cur.params) : symbolTable' = r.table
      BY <2>9 DEF ExternLine
    <3>3. \/ r.table = symbolTable
          \/ r \in AddSymbolOutcomes(symbolTable, LabelOf(cur.params[1]), 0, "EXTERNAL")
      BY DEF processExtern
    <3>4. OnlyDeclares(symbolTable, symbolTable')
      <4>1. CASE r.table = symbolTable
        BY <3>2, <4>1 DEF OnlyDeclares
      <4>2. CASE r \in AddSymbolOutcomes(symbolTable, LabelOf(cur.params[1]), 0, "EXTERNAL")
        BY <3>1, <3>2, <4>2, AddSymbolDeclares DEF Inv
      <4> QED BY <3>3, <4>1, <4>2
    <3> QED BY <2>9, <3>4, LineRefines
            DEF ExternLine, AtUsableLine, AtLine, Advance, relocated
  <2>10. CASE EndFirstPass
    BY <2>10, RelocationRefines
  <2> QED BY <2>2, <2>3, <2>4, <2>6, <2>7, <2>8, <2>9, <2>10 DEF Pass1, FirstPassOver
<1> QED BY <1>1, <1>2, FirstPassInvariant, PTL
        DEF FirstPassSpec, ImplementsNamespace, N!Spec, AbstractVars, Bind
===============================================================================
