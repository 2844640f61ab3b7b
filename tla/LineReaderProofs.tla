--------------------------- MODULE LineReaderProofs ---------------------------
(***************************************************************************)
(* Proofs about the reader of the source file, for every file and every    *)
(* length of a line: its buffer is never exceeded, both passes are handed  *)
(* the lines of the file, each one once and under its number, and the      *)
(* parse of a line keeps its words, its parameters and its string.         *)
(***************************************************************************)
EXTENDS LineReader, OperatorProofs

Text == Seq(Char \ {0})

-------------------------------------------------------------------------------
(* The reader keeps its types, whatever is in the file.                    *)
THEOREM ReaderTypes == Spec => []ReaderTypeOK
<1>1. Init => ReaderTypeOK
  <2> SUFFICES ASSUME Init PROVE ReaderTypeOK
    OBVIOUS
  <2>1. file \in Text /\ LINE_LENGTH \in Nat
    BY ReaderAssumption DEF Init, Text
  <2>2. buffer \in Text /\ Len(buffer) <= LINE_LENGTH
    BY <2>1, EmptySeq DEF Init, Text
  <2> QED BY <2>1, <2>2 DEF Init, ReaderTypeOK, Text
<1>2. ReaderTypeOK /\ [Reading \/ Rewind \/ Over]_vars => ReaderTypeOK'
  <2> SUFFICES ASSUME ReaderTypeOK, [Reading \/ Rewind \/ Over]_vars
               PROVE  ReaderTypeOK'
    OBVIOUS
  <2> USE ReaderAssumption DEF ReaderTypeOK
  <2>1. Getc => at' \in 1..Len(file) + 1
    BY DEF Getc, EOF
  <2>2. CASE BeginLine
    BY <2>2, EmptySeq DEF BeginLine
  <2>3. CASE Fill
    <3>1. at \in 1..Len(file) /\ file[at] \in Char \ {0}
      BY <2>3 DEF Fill, Ends, EOF
    <3>2. /\ Append(buffer, file[at]) \in Seq(Char \ {0})
          /\ Len(Append(buffer, file[at])) <= LINE_LENGTH
      BY <2>3, <3>1 DEF Fill
    <3> QED BY <2>1, <2>3, <3>2 DEF Fill
  <2>4. CASE BufferFull
    BY <2>4 DEF BufferFull
  <2>5. CASE Shred
    BY <2>1, <2>5 DEF Shred
  <2>6. CASE LineEnd
    BY <2>1, <2>6 DEF LineEnd
  <2>7. CASE HandOver
    BY <2>7 DEF HandOver
  <2>8. CASE EndOfFile
    BY <2>8 DEF EndOfFile
  <2>9. CASE Rewind
    BY <2>9 DEF Rewind
  <2>10. CASE UNCHANGED vars
    BY <2>10 DEF vars
  <2> QED BY <2>2, <2>3, <2>4, <2>5, <2>6, <2>7, <2>8, <2>9, <2>10 DEF Reading, Over
<1> QED BY <1>1, <1>2, PTL DEF Spec

-------------------------------------------------------------------------------
(* The beginnings of the lines, counted.                                   *)

(* How many lines begin before position i.                                 *)
Seen(f, i) == Cardinality({h \in Beginnings(f) : h < i})

(* No line ends from b on and before i.                                    *)
Unbroken(f, b, i) == \A j \in b..i - 1 : f[j] # NEWLINE

AtBeginning(f, i) == i \in Beginnings(f) \/ i = Len(f) + 1

(* There are finitely many of them.                                        *)
LEMMA BeginningsFinite ==
    ASSUME NEW f \in Text
    PROVE  /\ Beginnings(f) \subseteq 1..Len(f) /\ Len(f) \in Nat
           /\ IsFiniteSet(Beginnings(f)) /\ Cardinality(Beginnings(f)) \in Nat
<1>1. Len(f) \in Nat /\ Beginnings(f) \subseteq 1..Len(f)
  BY DEF Text, Beginnings
<1>2. IsFiniteSet(1..Len(f)) /\ Beginnings(f) \in SUBSET (1..Len(f))
  BY <1>1, FS_Interval
<1>3. IsFiniteSet(Beginnings(f))
  BY <1>2, FS_Subset
<1> QED BY <1>1, <1>3, FS_CardinalityType

(* So there are before any position.                                       *)
LEMMA SeenFinite ==
    ASSUME NEW f \in Text, NEW i
    PROVE  IsFiniteSet({h \in Beginnings(f) : h < i}) /\ Seen(f, i) \in Nat
<1>1. {h \in Beginnings(f) : h < i} \in SUBSET Beginnings(f)
  OBVIOUS
<1>2. IsFiniteSet({h \in Beginnings(f) : h < i})
  BY <1>1, BeginningsFinite, FS_Subset
<1> QED BY <1>2, FS_CardinalityType DEF Seen

(* Up to the next line break there is one more of them.                    *)
LEMMA SeenNext ==
    ASSUME NEW f \in Text, NEW b \in Beginnings(f), NEW i \in Nat,
           b < i, i <= Len(f) + 1, Unbroken(f, b, i - 1)
    PROVE  Seen(f, i) = Seen(f, b) + 1
<1> DEFINE B(n) == {h \in Beginnings(f) : h < n}
<1>1. B(i) = B(b) \cup {b}
  <2>1. b \in Nat \ {0} /\ Beginnings(f) \subseteq Nat
    BY BeginningsFinite
  <2>2. ASSUME NEW h \in B(i), h > b PROVE FALSE
    <3>1. h \in Nat /\ h - 1 \in b..i - 1 - 1
      BY <2>1, <2>2
    <3>2. f[h - 1] # NEWLINE /\ h # 1
      BY <2>1, <2>2, <3>1 DEF Unbroken
    <3> QED BY <2>2, <3>2 DEF Beginnings
  <2>3. ASSUME NEW h PROVE h \in B(i) <=> h \in B(b) \cup {b}
    BY <2>1, <2>2
  <2> QED BY <2>3
<1>2. IsFiniteSet(B(b)) /\ b \notin B(b)
  <2>1. IsFiniteSet(B(b))
    BY SeenFinite
  <2>2. b \in Nat
    BY BeginningsFinite
  <2> QED BY <2>1, <2>2
<1> HIDE DEF B
<1>3. Cardinality(B(i)) = Cardinality(B(b)) + 1
  BY <1>1, <1>2, FS_AddElement
<1> QED BY <1>3 DEF Seen, B

(* Before the end of the file are all of them.                             *)
LEMMA SeenAll ==
    ASSUME NEW f \in Text
    PROVE  Seen(f, Len(f) + 1) = Cardinality(Beginnings(f))
<1>1. {h \in Beginnings(f) : h < Len(f) + 1} = Beginnings(f)
  BY BeginningsFinite
<1> QED BY <1>1 DEF Seen

(* The first line begins at the first position.                            *)
LEMMA SeenNone ==
    ASSUME NEW f \in Text
    PROVE  Seen(f, 1) = 0 /\ AtBeginning(f, 1)
<1>1. {h \in Beginnings(f) : h < 1} = {}
  BY BeginningsFinite
<1>2. Seen(f, 1) = 0
  BY <1>1, FS_EmptySet DEF Seen
<1>3. 1 = Len(f) + 1 \/ 1 \in DOMAIN f
  BY DEF Text
<1>4. AtBeginning(f, 1)
  BY <1>3 DEF AtBeginning, Beginnings
<1> QED BY <1>2, <1>4

(* A line's number says how many began before it.                          *)
LEMMA TextOfLine ==
    ASSUME NEW f \in Text, NEW b \in Beginnings(f)
    PROVE  /\ Seen(f, b) + 1 <= Len(SourceTexts(f))
           /\ SourceTexts(f)[Seen(f, b) + 1] = TextFrom(f, b)
<1> DEFINE Upto(j) == {h \in Beginnings(f) : h <= j}
           k == Seen(f, b) + 1
<1>1. /\ Beginnings(f) \subseteq Nat /\ IsFiniteSet(Beginnings(f))
      /\ IsFiniteSet({h \in Beginnings(f) : h < b}) /\ Seen(f, b) \in Nat
      /\ Cardinality(Beginnings(f)) \in Nat
  BY BeginningsFinite, SeenFinite
<1>2. ASSUME NEW j PROVE IsFiniteSet(Upto(j)) /\ Upto(j) \in SUBSET Beginnings(f)
  <2>1. Upto(j) \in SUBSET Beginnings(f)
    OBVIOUS
  <2> HIDE DEF Upto
  <2> QED BY <1>1, <2>1, FS_Subset
<1>3. Cardinality(Upto(b)) = k
  <2>1. Upto(b) = {h \in Beginnings(f) : h < b} \cup {b}
    BY <1>1
  <2>2. b \notin {h \in Beginnings(f) : h < b}
    BY <1>1
  <2> HIDE DEF Upto
  <2> QED BY <1>1, <2>1, <2>2, FS_AddElement DEF Seen
<1>4. ASSUME NEW j \in Beginnings(f), Cardinality(Upto(j)) = k PROVE j = b
  <2>1. CASE j <= b
    <3>1. Upto(j) \in SUBSET Upto(b) /\ b \in Upto(b)
      BY <1>1, <2>1
    <3>2. Upto(j) = Upto(b)
      <4> HIDE DEF Upto, k
      <4> QED BY <1>2, <1>3, <1>4, <3>1, FS_Subset
    <3> QED BY <1>1, <2>1, <3>1, <3>2
  <2>2. CASE b <= j
    <3>1. Upto(b) \in SUBSET Upto(j) /\ j \in Upto(j)
      BY <1>1, <2>2
    <3>2. Upto(j) = Upto(b)
      <4> HIDE DEF Upto, k
      <4> QED BY <1>2, <1>3, <1>4, <3>1, FS_Subset
    <3> QED BY <1>1, <2>2, <3>1, <3>2
  <2> QED BY <1>1, <2>1, <2>2
<1>5. (CHOOSE j \in Beginnings(f) : Cardinality(Upto(j)) = k) = b
  <2> HIDE DEF Upto, k
  <2> QED BY <1>3, <1>4
<1>6. Cardinality(Upto(b)) <= Cardinality(Beginnings(f))
  <2> HIDE DEF Upto
  <2> QED BY <1>1, <1>2, FS_Subset
<1>7. k \in 1..Cardinality(Beginnings(f))
  BY <1>1, <1>3, <1>6
<1>8. SourceTexts(f) =
        [n \in 1..Cardinality(Beginnings(f)) |->
            TextFrom(f, CHOOSE j \in Beginnings(f) : Cardinality(Upto(j)) = n)]
  BY DEF SourceTexts
<1> HIDE DEF Upto
<1>9. Len(SourceTexts(f)) = Cardinality(Beginnings(f))
  BY <1>1, <1>8
<1>10. SourceTexts(f)[k] = TextFrom(f, b)
  <2> HIDE DEF k
  <2> QED BY <1>5, <1>7, <1>8
<1> QED BY <1>7, <1>9, <1>10

(* A line's text ends where the first of its three possible ends is.       *)
LEMMA TextEnds ==
    ASSUME NEW f \in Text, NEW b \in Beginnings(f), NEW m \in Nat,
           b <= m, m <= Len(f) + 1, m <= b + LINE_LENGTH, Unbroken(f, b, m),
           \/ m = Len(f) + 1
           \/ m = b + LINE_LENGTH
           \/ m \in DOMAIN f /\ f[m] = NEWLINE
    PROVE  TextFrom(f, b) = SubSeq(f, b, m - 1)
<1> DEFINE stop == {j \in b..Len(f) : f[j] = NEWLINE} \cup {Len(f) + 1, b + LINE_LENGTH}
<1>1. b \in Nat /\ Len(f) \in Nat /\ DOMAIN f = 1..Len(f)
  BY BeginningsFinite DEF Text
<1>2. m \in stop
  BY <1>1
<1>3. ASSUME NEW j \in stop PROVE j \in Nat /\ m <= j
  BY <1>1, <1>3, ReaderAssumption DEF Unbroken
<1>4. Min(stop) = m
  <2>1. \A x : x \in stop /\ (\A y \in stop : x <= y) => x = m
    <3> HIDE DEF stop
    <3> QED BY <1>2, <1>3
  <2>2. m \in stop /\ \A y \in stop : m <= y
    BY <1>2, <1>3
  <2> HIDE DEF stop
  <2> QED BY <2>1, <2>2 DEF Min
<1> QED BY <1>4 DEF TextFrom

-------------------------------------------------------------------------------
(* The invariant: which line the reader is in, and how much of it has been *)
(* put into the buffer.                                                    *)
Current(b) == b \in Beginnings(file) /\ lineNumber = Seen(file, b) + 1

Filling(b) ==
    /\ Current(b)
    /\ b <= at
    /\ Unbroken(file, b, at)
    /\ buffer = SubSeq(file, b, at - 1)

Shredding(b) ==
    /\ Current(b)
    /\ b + LINE_LENGTH <= at
    /\ Unbroken(file, b, at)
    /\ buffer = SubSeq(file, b, b + LINE_LENGTH - 1)

Complete(b) ==
    /\ Current(b)
    /\ buffer = TextFrom(file, b)
    /\ AtBeginning(file, at)
    /\ Seen(file, at) = Seen(file, b) + 1

LinesInv ==
    /\ ReaderTypeOK
    /\ pc = "fgets" => AtBeginning(file, at) /\ lineNumber = Seen(file, at) + 1
    /\ pc = "fill" => \E b : Filling(b)
    /\ pc = "shred" => \E b : Shredding(b)
    /\ pc = "parse" => \E b : Complete(b)
    /\ pc = "end" => lineNumber = Cardinality(Beginnings(file)) + 1

(* Reading a character into the buffer.                                    *)
LEMMA FillKeepsLines ==
    ASSUME LinesInv, ReaderTypeOK', BeginLine \/ Fill \/ BufferFull
    PROVE  LinesInv'
<1>1. file \in Text /\ at \in Nat /\ Len(file) \in Nat /\ at <= Len(file) + 1
  BY DEF LinesInv, ReaderTypeOK, Text
<1>2. CASE BeginLine
  <2>1. /\ pc = "fgets" /\ pc' = "fill" /\ at' = at /\ at <= Len(file) /\ file' = file
        /\ buffer' = <<>> /\ lineNumber' = lineNumber
    BY <1>1, <1>2 DEF BeginLine, EOF
  <2>2. at \in Beginnings(file) /\ lineNumber = Seen(file, at) + 1
    BY <1>1, <2>1 DEF LinesInv, AtBeginning
  <2>3. SubSeq(file, at, at - 1) = <<>>
    BY <1>1, SubSeqEmpty
  <2>4. Unbroken(file, at, at)
    BY <1>1 DEF Unbroken
  <2>5. Filling(at)'
    BY <1>1, <2>1, <2>2, <2>3, <2>4 DEF Filling, Current
  <2>6. \E b : Filling(b)'
    BY <2>5
  <2> QED BY <2>1, <2>6 DEF LinesInv
<1>3. CASE Fill
  <2>1. /\ pc = "fill" /\ pc' = "fill" /\ at' = at + 1 /\ at <= Len(file)
        /\ file[at] # NEWLINE /\ file' = file /\ lineNumber' = lineNumber
        /\ buffer' = Append(buffer, file[at])
    BY <1>1, <1>3 DEF Fill, Ends, EOF, Getc
  <2>2. PICK b : Filling(b)
    BY <2>1 DEF LinesInv
  <2>3. b \in 1..Len(file) /\ b <= at
    BY <1>1, <2>2, BeginningsFinite DEF Filling, Current
  <2>4. Append(SubSeq(file, b, at - 1), file[at]) = SubSeq(file, b, at)
    BY <1>1, <2>1, <2>3 DEF Text
  <2>5. Unbroken(file, b, at + 1)
    BY <1>1, <2>1, <2>2, <2>3 DEF Filling, Unbroken
  <2>6. Filling(b)'
    BY <1>1, <2>1, <2>2, <2>3, <2>4, <2>5 DEF Filling, Current
  <2> QED BY <2>1, <2>6 DEF LinesInv
<1>4. CASE BufferFull
  <2>1. /\ pc = "fill" /\ pc' = "shred" /\ Len(buffer) = LINE_LENGTH
        /\ UNCHANGED <<file, at, buffer, lineNumber>>
    BY <1>4 DEF BufferFull
  <2>2. PICK b : Filling(b)
    BY <2>1 DEF LinesInv
  <2>3. b \in 1..Len(file) /\ b <= at
    BY <1>1, <2>2, BeginningsFinite DEF Filling, Current
  <2>4. Len(buffer) = at - b
    BY <1>1, <2>2, <2>3 DEF Filling, Text
  <2>5. at - 1 = b + LINE_LENGTH - 1 /\ b + LINE_LENGTH <= at
    BY <1>1, <2>1, <2>3, <2>4, ReaderAssumption
  <2>6. Shredding(b)'
    BY <2>1, <2>2, <2>5 DEF Filling, Shredding, Current
  <2> QED BY <2>1, <2>6 DEF LinesInv
<1> QED BY <1>2, <1>3, <1>4

(* Skipping what exceeds the buffer.                                       *)
LEMMA ShredKeepsLines ==
    ASSUME LinesInv, ReaderTypeOK', Shred
    PROVE  LinesInv'
<1>1. /\ file \in Text /\ at \in Nat /\ Len(file) \in Nat
      /\ pc = "shred" /\ pc' = "shred" /\ at' = at + 1 /\ file[at] # NEWLINE
      /\ UNCHANGED <<file, buffer, lineNumber>>
  BY DEF LinesInv, ReaderTypeOK, Text, Shred, Ends, EOF, Getc
<1>2. PICK b : Shredding(b)
  BY <1>1 DEF LinesInv
<1>3. b \in 1..Len(file) /\ LINE_LENGTH \in Nat
  BY <1>1, <1>2, BeginningsFinite, ReaderAssumption DEF Shredding, Current
<1>4. Unbroken(file, b, at + 1)
  BY <1>1, <1>2, <1>3 DEF Shredding, Unbroken
<1>5. Shredding(b)'
  BY <1>1, <1>2, <1>3, <1>4 DEF Shredding, Current
<1> QED BY <1>1, <1>5 DEF LinesInv

(* The end of a line, whether it fitted or not.                            *)
LEMMA LineEndKeepsLines ==
    ASSUME LinesInv, ReaderTypeOK', LineEnd
    PROVE  LinesInv'
<1>1. /\ file \in Text /\ at \in Nat \ {0} /\ Len(file) \in Nat /\ at <= Len(file) + 1
      /\ DOMAIN file = 1..Len(file)
      /\ pc' = "parse" /\ UNCHANGED <<file, buffer, lineNumber>>
      /\ pc = "shred" \/ (pc = "fill" /\ Len(buffer) < LINE_LENGTH)
  BY DEF LinesInv, ReaderTypeOK, Text, LineEnd
<1>2. \/ at = Len(file) + 1 /\ at' = at
      \/ at \in DOMAIN file /\ file[at] = NEWLINE /\ at' = at + 1
  BY <1>1 DEF LineEnd, Ends, EOF, Getc
<1>3. PICK b : Current(b) /\ b <= at /\ Unbroken(file, b, at) /\ buffer = TextFrom(file, b)
  <2>1. CASE pc = "shred"
    <3>1. PICK b : Shredding(b)
      BY <2>1 DEF LinesInv
    <3>2. b \in Beginnings(file) /\ b \in Nat /\ LINE_LENGTH \in Nat /\ b + LINE_LENGTH <= at
      BY <1>1, <3>1, BeginningsFinite, ReaderAssumption DEF Shredding, Current
    <3>3. Unbroken(file, b, b + LINE_LENGTH)
      BY <1>1, <3>1, <3>2 DEF Shredding, Unbroken
    <3>4. TextFrom(file, b) = SubSeq(file, b, b + LINE_LENGTH - 1)
      <4>1. b + LINE_LENGTH \in Nat /\ b <= b + LINE_LENGTH
            /\ b + LINE_LENGTH <= Len(file) + 1
        BY <1>1, <3>2
      <4> QED BY <1>1, <3>2, <3>3, <4>1, TextEnds
    <3> QED BY <1>1, <3>1, <3>2, <3>4 DEF Shredding
  <2>2. CASE pc = "fill" /\ Len(buffer) < LINE_LENGTH
    <3>1. PICK b : Filling(b)
      BY <2>2 DEF LinesInv
    <3>2. b \in Beginnings(file) /\ b \in 1..Len(file) /\ b <= at
      BY <1>1, <3>1, BeginningsFinite DEF Filling, Current
    <3>3. Len(buffer) = at - b
      BY <1>1, <3>1, <3>2 DEF Filling, Text
    <3>4. at <= b + LINE_LENGTH
      BY <1>1, <2>2, <3>2, <3>3, ReaderAssumption
    <3>5. TextFrom(file, b) = SubSeq(file, b, at - 1)
      BY <1>1, <1>2, <3>1, <3>2, <3>4, TextEnds DEF Filling
    <3> QED BY <3>1, <3>2, <3>5 DEF Filling
  <2> QED BY <1>1, <2>1, <2>2
<1>4. b \in Beginnings(file) /\ b \in 1..Len(file)
  BY <1>1, <1>3, BeginningsFinite DEF Current
<1>5. at' \in Nat /\ b < at' /\ at' <= Len(file) + 1 /\ Unbroken(file, b, at' - 1)
  BY <1>1, <1>2, <1>3, <1>4 DEF Unbroken
<1>6. Seen(file, at') = Seen(file, b) + 1
  BY <1>1, <1>4, <1>5, SeenNext
<1>7. AtBeginning(file, at')
  <2>1. CASE at' = Len(file) + 1
    BY <2>1 DEF AtBeginning
  <2>2. CASE at' # Len(file) + 1
    <3>1. at' = at + 1 /\ file[at] = NEWLINE
      BY <1>2, <2>2
    <3>2. at' \in 1..Len(file) /\ at' - 1 = at
      BY <1>1, <1>5, <2>2, <3>1
    <3> QED BY <1>1, <3>1, <3>2 DEF AtBeginning, Beginnings
  <2> QED BY <2>1, <2>2
<1>8. Complete(b)'
  BY <1>1, <1>3, <1>6, <1>7 DEF Complete, Current
<1> QED BY <1>1, <1>8 DEF LinesInv

(* Between the lines and between the passes.                               *)
LEMMA TurnKeepsLines ==
    ASSUME LinesInv, ReaderTypeOK', HandOver \/ EndOfFile \/ Rewind \/ UNCHANGED vars
    PROVE  LinesInv'
<1>1. file \in Text /\ at \in Nat /\ Len(file) \in Nat /\ at <= Len(file) + 1 /\ file' = file
  BY DEF LinesInv, ReaderTypeOK, Text, HandOver, EndOfFile, Rewind, vars
<1>2. CASE HandOver
  <2>1. pc = "parse" /\ pc' = "fgets" /\ at' = at /\ lineNumber' = lineNumber + 1
    BY <1>2 DEF HandOver
  <2>2. PICK b : Complete(b)
    BY <2>1 DEF LinesInv
  <2> QED BY <1>1, <2>1, <2>2 DEF LinesInv, Complete, Current
<1>3. CASE EndOfFile
  <2>1. pc = "fgets" /\ pc' = "end" /\ at = Len(file) + 1 /\ lineNumber' = lineNumber
    BY <1>1, <1>3 DEF EndOfFile, EOF
  <2> QED BY <1>1, <2>1, SeenAll DEF LinesInv
<1>4. CASE Rewind
  <2>1. pc' = "fgets" /\ at' = 1 /\ lineNumber' = 1
    BY <1>4 DEF Rewind
  <2> QED BY <1>1, <2>1, SeenNone DEF LinesInv
<1>5. CASE UNCHANGED vars
  <2>1. UNCHANGED <<file, at, buffer, lineNumber, pc>>
    BY <1>5 DEF vars
  <2> QED BY <2>1 DEF LinesInv, Filling, Shredding, Complete, Current
<1> QED BY <1>2, <1>3, <1>4, <1>5

(* Both passes are handed the lines of the file, each one once, in order   *)
(* and under its number, for every file and every length of a line.        *)
THEOREM ReaderImplementsLineSource == Spec => ImplementsLineSource
<1>1. Init /\ ReaderTypeOK => LinesInv
  BY SeenNone DEF Init, LinesInv, ReaderTypeOK, Text
<1>2. /\ LinesInv /\ ReaderTypeOK' /\ [Reading \/ Rewind \/ Over]_vars
      => LinesInv'
  BY FillKeepsLines, ShredKeepsLines, LineEndKeepsLines, TurnKeepsLines
     DEF Reading, Over
<1>3. Init => LS!Init
  BY DEF Init, LS!Init
<1>4. LinesInv /\ [Reading \/ Rewind \/ Over]_vars => [LS!Take \/ LS!Again]_LS!vars
  <2> SUFFICES ASSUME LinesInv, [Reading \/ Rewind \/ Over]_vars
               PROVE  [LS!Take \/ LS!Again]_LS!vars
    OBVIOUS
  <2>1. file \in Text
    BY DEF LinesInv, ReaderTypeOK, Text
  <2>2. CASE HandOver
    <3>1. PICK b : Complete(b)
      BY <2>2 DEF HandOver, LinesInv
    <3>2. /\ lineNumber <= Len(SourceTexts(file))
          /\ SourceTexts(file)[lineNumber] = buffer
      BY <2>1, <3>1, TextOfLine DEF Complete, Current
    <3> QED BY <2>2, <3>2 DEF HandOver, LS!Take
  <2>3. CASE Rewind
    <3>1. lineNumber = Cardinality(Beginnings(file)) + 1
      BY <2>3 DEF Rewind, LinesInv
    <3>2. Cardinality(Beginnings(file)) \in Nat
      BY <2>1, BeginningsFinite
    <3>3. Len(SourceTexts(file)) = Cardinality(Beginnings(file))
      BY <3>2 DEF SourceTexts
    <3> QED BY <2>3, <3>1, <3>2, <3>3 DEF Rewind, LS!Again
  <2>4. CASE \/ BeginLine \/ Fill \/ BufferFull \/ Shred \/ LineEnd \/ EndOfFile
             \/ UNCHANGED vars
    BY <2>4 DEF BeginLine, Fill, BufferFull, Shred, LineEnd, EndOfFile, vars, LS!vars
  <2> QED BY <2>2, <2>3, <2>4 DEF Reading, Over
<1> QED BY <1>1, <1>2, <1>3, <1>4, ReaderTypes, PTL DEF Spec, ImplementsLineSource, LS!Spec

(* Induction over positions: a set of them that has the first and with     *)
(* each but the last also the next one has them all.                       *)
LEMMA PositionInduction ==
    ASSUME NEW n \in Nat, NEW S, 0 \in S, \A k \in 0..n - 1 : k \in S => k + 1 \in S
    PROVE  \A k \in 0..n : k \in S
<1> DEFINE T == {k \in 1..n : k \notin S}
<1> SUFFICES ASSUME NEW i \in 0..n, i \notin S PROVE FALSE
  OBVIOUS
<1>1. T \in SUBSET (1..n) /\ T # {}
  OBVIOUS
<1>2. PICK k \in T : \A j \in T : k <= j
  <2> HIDE DEF T
  <2> QED BY <1>1, MinOfPositions
<1>3. k - 1 \in 0..n - 1 /\ k - 1 \in S
  BY <1>2
<1> QED BY <1>2, <1>3

(* The last one of a set of positions.                                     *)
LEMMA MaxOfPositions ==
    ASSUME NEW n \in Nat, NEW S \in SUBSET (1..n), S # {}
    PROVE  Max(S) \in S /\ \A j \in S : j <= Max(S)
<1> DEFINE T == {n + 1 - k : k \in S}
<1>1. T \in SUBSET (1..n) /\ T # {}
  OBVIOUS
<1>2. PICK m \in T : \A j \in T : m <= j
  <2> HIDE DEF T
  <2> QED BY <1>1, MinOfPositions
<1>3. PICK k \in S : m = n + 1 - k
  BY <1>2
<1>4. ASSUME NEW j \in S PROVE j <= k
  <2>1. n + 1 - j \in T
    OBVIOUS
  <2> HIDE DEF T
  <2> QED BY <1>2, <1>3, <2>1
<1> QED BY <1>4 DEF Max

-------------------------------------------------------------------------------
(* Texts put together: FlattenSeq step by step.                            *)

Texts == Seq(Text)

(* What FlattenSeq has done behind the first n of them.                    *)
Flattens(f, ss, n) ==
    f = [i \in 1..n |-> IF i = 1 THEN ss[i] ELSE f[i - 1] \o ss[i]]

(* Such a function at a position, by its value before it.                  *)
LEMMA FlattensAt ==
    ASSUME NEW f, NEW ss, NEW n \in Nat, Flattens(f, ss, n), NEW i \in 1..n
    PROVE  f[i] = IF i = 1 THEN ss[i] ELSE f[i - 1] \o ss[i]
<1>1. f[i] = [j \in 1..n |-> IF j = 1 THEN ss[j] ELSE f[j - 1] \o ss[j]][i]
  BY Zenon DEF Flattens
<1> QED BY <1>1

(* There is such a function ...                                            *)
LEMMA FlattensExists ==
    ASSUME NEW ss \in Texts
    PROVE  \A n \in 0..Len(ss) : \E f \in [1..n -> Text] : Flattens(f, ss, n)
<1> DEFINE S == {n \in 0..Len(ss) : \E f \in [1..n -> Text] : Flattens(f, ss, n)}
<1>1. Len(ss) \in Nat /\ \A i \in 1..Len(ss) : ss[i] \in Text
  BY DEF Texts
<1>2. 0 \in S
  <2>1. [i \in 1..0 |-> <<>>] \in [1..0 -> Text]
    OBVIOUS
  <2>2. Flattens([i \in 1..0 |-> <<>>], ss, 0)
    BY DEF Flattens
  <2>3. \E f \in [1..0 -> Text] : Flattens(f, ss, 0)
    BY <2>1, <2>2, Zenon
  <2>4. 0 \in 0..Len(ss)
    BY <1>1
  <2> QED BY <2>3, <2>4, Zenon
<1>3. ASSUME NEW n \in 0..Len(ss) - 1, n \in S PROVE n + 1 \in S
  <2>1. PICK f \in [1..n -> Text] : Flattens(f, ss, n)
    BY <1>3
  <2> DEFINE g == [i \in 1..n + 1 |->
                     IF i = n + 1 THEN IF i = 1 THEN ss[i] ELSE f[n] \o ss[i] ELSE f[i]]
  <2>2. n + 1 \in 1..Len(ss)
    BY <1>1
  <2>3. ss[n + 1] \in Text
    BY <1>1, <2>2
  <2>4. n # 0 => f[n] \o ss[n + 1] \in Text
    BY <2>3 DEF Text
  <2>5. g \in [1..n + 1 -> Text]
    BY <2>3, <2>4
  <2>6. g = [i \in 1..n + 1 |-> IF i = 1 THEN ss[i] ELSE g[i - 1] \o ss[i]]
    <3>1. ASSUME NEW i \in 1..n + 1
          PROVE  g[i] = IF i = 1 THEN ss[i] ELSE g[i - 1] \o ss[i]
      <4>1. CASE i = n + 1
        BY <4>1
      <4>2. CASE i # n + 1
        <5>1. f[i] = IF i = 1 THEN ss[i] ELSE f[i - 1] \o ss[i]
          BY <2>1, <4>2, FlattensAt
        <5> QED BY <4>2, <5>1
      <4> QED BY <4>1, <4>2
    <3> QED BY <3>1
  <2> HIDE DEF g
  <2>7. Flattens(g, ss, n + 1)
    BY <2>6 DEF Flattens
  <2> QED BY <2>2, <2>5, <2>7
<1> HIDE DEF S
<1>4. \A n \in 0..Len(ss) : n \in S
  BY <1>1, <1>2, <1>3, PositionInduction
<1> QED BY <1>4 DEF S

(* ... and only one: what is behind position m does not matter before it.  *)
LEMMA FlattensAgree ==
    ASSUME NEW m \in Nat, NEW n \in Nat, m <= n, NEW f, NEW g, NEW ss, NEW tt,
           Flattens(f, ss, m), Flattens(g, tt, n), \A i \in 1..m : ss[i] = tt[i]
    PROVE  \A i \in 1..m : f[i] = g[i]
<1> DEFINE S == {i \in 0..m : i # 0 => f[i] = g[i]}
<1>1. ASSUME NEW i \in 0..m - 1, i \in S PROVE i + 1 \in S
  <2>1. /\ f[i + 1] = IF i + 1 = 1 THEN ss[i + 1] ELSE f[i + 1 - 1] \o ss[i + 1]
        /\ g[i + 1] = IF i + 1 = 1 THEN tt[i + 1] ELSE g[i + 1 - 1] \o tt[i + 1]
    <3>1. i + 1 \in 1..m /\ i + 1 \in 1..n
      OBVIOUS
    <3> HIDE DEF S
    <3> QED BY <3>1, FlattensAt
  <2>2. i + 1 - 1 = i /\ ss[i + 1] = tt[i + 1]
    OBVIOUS
  <2>3. f[i + 1] = g[i + 1]
    <3>1. CASE i = 0
      BY <2>1, <2>2, <3>1
    <3>2. CASE i # 0
      <4>1. f[i] = g[i] /\ i + 1 # 1
        BY <1>1, <3>2
      <4> HIDE DEF S
      <4> QED BY <2>1, <2>2, <4>1
    <3> QED BY <3>1, <3>2
  <2> QED BY <2>3
<1>2. 0 \in S
  OBVIOUS
<1> HIDE DEF S
<1>3. \A i \in 0..m : i \in S
  BY <1>1, <1>2, PositionInduction
<1> QED BY <1>3 DEF S

(* FlattenSeq is that function's last value.                               *)
LEMMA FlattenSeqIs ==
    ASSUME NEW ss \in Texts, NEW f \in [1..Len(ss) -> Text], Flattens(f, ss, Len(ss))
    PROVE  FlattenSeq(ss) = IF ss = <<>> THEN <<>> ELSE f[Len(ss)]
<1>1. Len(ss) \in Nat /\ (Len(ss) = 0 <=> ss = <<>>)
  BY EmptySeq DEF Texts
<1>2. CASE ss = <<>>
  BY <1>1, <1>2 DEF FlattenSeq
<1>3. CASE ss # <<>>
  <2> DEFINE g == CHOOSE g : Flattens(g, ss, Len(ss))
  <2>1. Flattens(g, ss, Len(ss))
    <3> HIDE DEF Flattens
    <3> QED OBVIOUS
  <2>2. FlattenSeq(ss) = g[Len(ss)]
    BY <1>1, <1>3 DEF FlattenSeq, Flattens
  <2> HIDE DEF g
  <2>3. \A i \in 1..Len(ss) : f[i] = g[i]
    BY <1>1, <2>1, FlattensAgree
  <2> QED BY <1>1, <1>3, <2>2, <2>3
<1> QED BY <1>2, <1>3

(* One text more is put behind the others.                                 *)
LEMMA FlattenAppend ==
    ASSUME NEW ss \in Texts, NEW t \in Text
    PROVE  /\ FlattenSeq(ss) \in Text
           /\ FlattenSeq(Append(ss, t)) = FlattenSeq(ss) \o t
<1> DEFINE n == Len(ss)
           tt == Append(ss, t)
<1>1. /\ n \in Nat /\ tt \in Texts /\ Len(tt) = n + 1 /\ tt # <<>> /\ tt[n + 1] = t
      /\ \A i \in 1..n : ss[i] = tt[i]
      /\ ss = <<>> <=> n = 0
  BY AppendProperties, EmptySeq DEF Texts
<1> HIDE DEF n, tt
<1>2. PICK f \in [1..n -> Text] : Flattens(f, ss, n)
  <2>1. n \in 0..Len(ss)
    BY <1>1 DEF n
  <2> QED BY <2>1, FlattensExists
<1>3. PICK g \in [1..n + 1 -> Text] : Flattens(g, tt, n + 1)
  <2>1. n + 1 \in 0..Len(tt)
    BY <1>1
  <2> QED BY <1>1, <2>1, FlattensExists
<1>4. FlattenSeq(ss) = IF ss = <<>> THEN <<>> ELSE f[n]
  BY <1>2, FlattenSeqIs DEF n
<1>5. FlattenSeq(tt) = g[n + 1]
  BY <1>1, <1>3, FlattenSeqIs
<1>6. g[n + 1] = IF n + 1 = 1 THEN t ELSE g[n + 1 - 1] \o t
  <2>1. n + 1 \in 1..n + 1 /\ n + 1 \in Nat
    BY <1>1
  <2> QED BY <1>1, <1>3, <2>1, FlattensAt
<1>7. CASE n = 0
  <2>1. FlattenSeq(ss) = <<>> /\ g[n + 1] = t
    BY <1>1, <1>4, <1>6, <1>7
  <2>2. <<>> \o t = t /\ <<>> \in Text
    BY EmptySeq, ConcatEmptySeq DEF Text
  <2> QED BY <1>5, <2>1, <2>2 DEF tt
<1>8. CASE n # 0
  <2>1. f[n] = g[n] /\ f[n] \in Text
    <3>1. \A i \in 1..n : f[i] = g[i]
      BY <1>1, <1>2, <1>3, FlattensAgree
    <3> QED BY <1>1, <1>2, <1>8, <3>1
  <2>2. FlattenSeq(ss) = f[n] /\ g[n + 1] = g[n] \o t
    BY <1>1, <1>4, <1>6, <1>8
  <2> QED BY <1>5, <2>1, <2>2 DEF tt
<1> QED BY <1>7, <1>8

(* Texts behind each other.                                                *)
LEMMA Behind ==
    ASSUME NEW r \in Text, NEW s \in Text
    PROVE  r \o s \in Text /\ r \o <<>> = r /\ <<>> \o r = r
BY ConcatProperties, ConcatEmptySeq DEF Text

(* It does not matter which two of three are put together first.           *)
LEMMA BehindBoth ==
    ASSUME NEW r \in Text, NEW s \in Text, NEW t \in Text
    PROVE  (r \o s) \o t = r \o (s \o t)
BY ConcatAssociative DEF Text

(* What the first k texts make, and what k + 1 of them.                    *)
Flat(ss, k) == FlattenSeq(SubSeq(ss, 1, k))

(* That is step by step what FlattenSeq does.                              *)
LEMMA FlatSteps ==
    ASSUME NEW ss \in Texts
    PROVE  /\ Flat(ss, 0) = <<>>
           /\ Flat(ss, Len(ss)) = FlattenSeq(ss)
           /\ \A k \in 0..Len(ss) : Flat(ss, k) \in Text
           /\ \A k \in 0..Len(ss) - 1 : Flat(ss, k + 1) = Flat(ss, k) \o ss[k + 1]
<1>1. Len(ss) \in Nat
  BY DEF Texts
<1>2. Flat(ss, 0) = <<>>
  <2>1. SubSeq(ss, 1, 0) = <<>>
    BY SubSeqEmpty
  <2> QED BY <2>1 DEF Flat, FlattenSeq
<1>3. Flat(ss, Len(ss)) = FlattenSeq(ss)
  BY SubSeqFull DEF Flat, Texts
<1>4. ASSUME NEW k \in 0..Len(ss) PROVE SubSeq(ss, 1, k) \in Texts
  BY <1>1 DEF Texts
<1>5. ASSUME NEW k \in 0..Len(ss) PROVE Flat(ss, k) \in Text
  <2>1. <<>> \in Text
    BY EmptySeq DEF Text
  <2> QED BY <1>4, <2>1, FlattenAppend DEF Flat
<1>6. ASSUME NEW k \in 0..Len(ss) - 1
      PROVE  Flat(ss, k + 1) = Flat(ss, k) \o ss[k + 1]
  <2>1. SubSeq(ss, 1, k + 1) = Append(SubSeq(ss, 1, k), ss[k + 1])
    BY <1>1 DEF Texts
  <2>2. k + 1 \in 1..Len(ss) /\ k \in 0..Len(ss)
    BY <1>1
  <2>3. ss[k + 1] \in Text
    BY <2>2 DEF Texts
  <2> QED BY <1>4, <2>1, <2>2, <2>3, FlattenAppend DEF Flat
<1> QED BY <1>2, <1>3, <1>5, <1>6

(* Texts behind texts.                                                     *)
LEMMA FlattenConcat ==
    ASSUME NEW ss \in Texts, NEW tt \in Texts
    PROVE  /\ FlattenSeq(ss) \in Text /\ FlattenSeq(tt) \in Text
           /\ FlattenSeq(ss \o tt) = FlattenSeq(ss) \o FlattenSeq(tt)
<1> DEFINE m == Len(ss)
           n == Len(tt)
           uu == ss \o tt
           S == {k \in 0..n : Flat(uu, m + k) = FlattenSeq(ss) \o Flat(tt, k)}
<1>1. /\ m \in Nat /\ n \in Nat /\ uu \in Texts /\ Len(uu) = m + n
      /\ \A k \in 1..n : uu[m + k] = tt[k] /\ tt[k] \in Text
  BY DEF Texts
<1>2. SubSeq(uu, 1, m) = ss
  BY <1>1 DEF Texts
<1> HIDE DEF m, n, uu
<1>3. FlattenSeq(ss) \in Text /\ FlattenSeq(tt) \in Text
  BY <1>1, FlatSteps DEF m, n
<1>4. 0 \in S
  <2>1. Flat(uu, m) = FlattenSeq(ss)
    BY <1>2 DEF Flat
  <2>2. FlattenSeq(ss) \o <<>> = FlattenSeq(ss)
    BY <1>3, ConcatEmptySeq DEF Text
  <2>3. Flat(tt, 0) = <<>> /\ m + 0 = m /\ 0 \in 0..n
    BY <1>1, FlatSteps
  <2> QED BY <2>1, <2>2, <2>3
<1>5. ASSUME NEW k \in 0..n - 1, k \in S PROVE k + 1 \in S
  <2>0. Flat(uu, m + k) = FlattenSeq(ss) \o Flat(tt, k)
    BY <1>5
  <2> HIDE DEF S
  <2>1. Flat(uu, m + k + 1) = Flat(uu, m + k) \o uu[m + k + 1]
    <3>1. m + k \in 0..Len(uu) - 1
      BY <1>1
    <3> QED BY <1>1, <3>1, FlatSteps
  <2>2. Flat(tt, k + 1) = Flat(tt, k) \o tt[k + 1] /\ Flat(tt, k) \in Text
    BY <1>1, FlatSteps DEF n
  <2>3. k + 1 \in 1..n /\ m + k + 1 = m + (k + 1)
    BY <1>1
  <2>4. uu[m + k + 1] = tt[k + 1] /\ tt[k + 1] \in Text
    BY <1>1, <2>3
  <2>5. (FlattenSeq(ss) \o Flat(tt, k)) \o tt[k + 1]
          = FlattenSeq(ss) \o (Flat(tt, k) \o tt[k + 1])
    BY <1>3, <2>2, <2>4, BehindBoth
  <2>6. Flat(uu, m + (k + 1)) = FlattenSeq(ss) \o Flat(tt, k + 1)
    BY <2>0, <2>1, <2>2, <2>3, <2>4, <2>5
  <2>7. k + 1 \in 0..n
    BY <1>1
  <2> QED BY <2>6, <2>7 DEF S
<1> HIDE DEF S
<1>6. \A k \in 0..n : k \in S
  BY <1>1, <1>4, <1>5, PositionInduction
<1>7. Flat(uu, m + n) = FlattenSeq(ss) \o Flat(tt, n)
  BY <1>1, <1>6 DEF S
<1>8. Flat(uu, m + n) = FlattenSeq(uu) /\ Flat(tt, n) = FlattenSeq(tt)
  BY <1>1, FlatSteps DEF n
<1> QED BY <1>3, <1>7, <1>8 DEF uu

-------------------------------------------------------------------------------
(* Texts without some of their characters.                                 *)

(* What Without keeps of each character.                                   *)
Kept(s, chars) == [i \in DOMAIN s |-> IF s[i] \in chars THEN <<>> ELSE <<s[i]>>]

(* What is kept of a text is a text.                                       *)
LEMMA KeptTexts ==
    ASSUME NEW s \in Text, NEW chars
    PROVE  /\ Kept(s, chars) \in Texts /\ Len(Kept(s, chars)) = Len(s)
           /\ Without(s, chars) = FlattenSeq(Kept(s, chars))
           /\ Without(s, chars) \in Text
<1>1. Len(s) \in Nat /\ DOMAIN s = 1..Len(s)
  BY DEF Text
<1>2. \A i \in 1..Len(s) : (IF s[i] \in chars THEN <<>> ELSE <<s[i]>>) \in Text
  <2> TAKE i \in 1..Len(s)
  <2>1. <<>> \in Text
    BY EmptySeq DEF Text
  <2>2. <<s[i]>> \in Text
    BY <1>1 DEF Text
  <2> QED BY <2>1, <2>2
<1>3. [i \in 1..Len(s) |-> IF s[i] \in chars THEN <<>> ELSE <<s[i]>>] \in Texts
  BY <1>1, <1>2 DEF Texts
<1>4. Kept(s, chars) \in Texts /\ Len(Kept(s, chars)) = Len(s)
  BY <1>1, <1>3 DEF Kept
<1>5. Without(s, chars) = FlattenSeq(Kept(s, chars))
  BY DEF Without, Kept
<1> QED BY <1>4, <1>5, FlatSteps, FlattenConcat

(* Two texts lose what each of them loses.                                 *)
LEMMA WithoutConcat ==
    ASSUME NEW s \in Text, NEW t \in Text, NEW chars
    PROVE  Without(s \o t, chars) = Without(s, chars) \o Without(t, chars)
<1>1. Kept(s \o t, chars) = Kept(s, chars) \o Kept(t, chars)
  <2>1. /\ Len(s) \in Nat /\ DOMAIN s = 1..Len(s) /\ Len(t) \in Nat /\ DOMAIN t = 1..Len(t)
        /\ s \o t \in Text /\ Len(s \o t) = Len(s) + Len(t)
        /\ DOMAIN (s \o t) = 1..Len(s) + Len(t)
    BY DEF Text
  <2>2. /\ Kept(s, chars) \in Texts /\ Len(Kept(s, chars)) = Len(s)
        /\ Kept(t, chars) \in Texts /\ Len(Kept(t, chars)) = Len(t)
        /\ Kept(s \o t, chars) \in Texts /\ Len(Kept(s \o t, chars)) = Len(s) + Len(t)
    BY <2>1, KeptTexts
  <2>3. /\ Kept(s, chars) \o Kept(t, chars) \in Texts
        /\ Len(Kept(s, chars) \o Kept(t, chars)) = Len(s) + Len(t)
    BY <2>2 DEF Texts
  <2>4. ASSUME NEW i \in 1..Len(s) + Len(t)
        PROVE  Kept(s \o t, chars)[i] = (Kept(s, chars) \o Kept(t, chars))[i]
    <3>1. CASE i <= Len(s)
      <4>1. i \in 1..Len(s) /\ (s \o t)[i] = s[i]
        BY <2>1, <3>1 DEF Text
      <4>2. (Kept(s, chars) \o Kept(t, chars))[i] = Kept(s, chars)[i]
        BY <2>2, <4>1 DEF Texts
      <4>3. Kept(s \o t, chars)[i] = IF (s \o t)[i] \in chars THEN <<>> ELSE <<(s \o t)[i]>>
        BY <2>1 DEF Kept
      <4>4. Kept(s, chars)[i] = IF s[i] \in chars THEN <<>> ELSE <<s[i]>>
        BY <2>1, <4>1 DEF Kept
      <4> QED BY <4>1, <4>2, <4>3, <4>4
    <3>2. CASE ~(i <= Len(s))
      <4> DEFINE j == i - Len(s)
      <4>1. j \in 1..Len(t) /\ (s \o t)[i] = t[j]
        BY <2>1, <3>2 DEF Text
      <4>2. (Kept(s, chars) \o Kept(t, chars))[i] = Kept(t, chars)[j]
        BY <2>1, <2>2, <3>2 DEF Texts
      <4>3. Kept(s \o t, chars)[i] = IF (s \o t)[i] \in chars THEN <<>> ELSE <<(s \o t)[i]>>
        BY <2>1 DEF Kept
      <4> HIDE DEF j
      <4>4. Kept(t, chars)[j] = IF t[j] \in chars THEN <<>> ELSE <<t[j]>>
        BY <2>1, <4>1 DEF Kept
      <4> QED BY <4>1, <4>2, <4>3, <4>4
    <3> QED BY <2>1, <3>1, <3>2
  <2> QED BY <2>2, <2>3, <2>4, SeqEqual DEF Texts
<1>2. s \o t \in Text
  BY Behind
<1>3. /\ Kept(s, chars) \in Texts /\ Kept(t, chars) \in Texts
      /\ Without(s, chars) = FlattenSeq(Kept(s, chars))
      /\ Without(t, chars) = FlattenSeq(Kept(t, chars))
      /\ Without(s \o t, chars) = FlattenSeq(Kept(s \o t, chars))
  BY <1>2, KeptTexts
<1> QED BY <1>1, <1>3, FlattenConcat

(* Two texts that lose the same as two others do so put together.          *)
LEMMA WithoutSame ==
    ASSUME NEW r \in Text, NEW s \in Text, NEW t \in Text, NEW u \in Text, NEW chars,
           Without(r, chars) = Without(t, chars), Without(s, chars) = Without(u, chars)
    PROVE  Without(r \o s, chars) = Without(t \o u, chars)
<1>1. Without(r \o s, chars) = Without(r, chars) \o Without(s, chars)
  BY WithoutConcat
<1>2. Without(t \o u, chars) = Without(t, chars) \o Without(u, chars)
  BY WithoutConcat
<1> QED BY <1>1, <1>2

(* Texts that lose the same make texts that lose the same.                 *)
LEMMA WithoutFlatten ==
    ASSUME NEW ss \in Texts, NEW tt \in Texts, NEW chars, Len(ss) = Len(tt),
           \A k \in 1..Len(ss) : Without(ss[k], chars) = Without(tt[k], chars)
    PROVE  Without(FlattenSeq(ss), chars) = Without(FlattenSeq(tt), chars)
<1> DEFINE n == Len(ss)
           S == {k \in 0..n : Without(Flat(ss, k), chars) = Without(Flat(tt, k), chars)}
<1>1. n \in Nat /\ \A k \in 1..n : ss[k] \in Text /\ tt[k] \in Text
  BY DEF Texts
<1>2. 0 \in S
  BY <1>1, FlatSteps
<1>3. ASSUME NEW k \in 0..n - 1, k \in S PROVE k + 1 \in S
  <2>1. /\ Flat(ss, k + 1) = Flat(ss, k) \o ss[k + 1] /\ Flat(ss, k) \in Text
        /\ Flat(tt, k + 1) = Flat(tt, k) \o tt[k + 1] /\ Flat(tt, k) \in Text
    BY <1>1, FlatSteps
  <2>2. k + 1 \in 1..n
    BY <1>1
  <2>3. /\ ss[k + 1] \in Text /\ tt[k + 1] \in Text
        /\ Without(ss[k + 1], chars) = Without(tt[k + 1], chars)
    BY <1>1, <2>2
  <2>4. Without(Flat(ss, k), chars) = Without(Flat(tt, k), chars)
    BY <1>3
  <2> HIDE DEF S, n
  <2>5. Without(Flat(ss, k + 1), chars) = Without(Flat(tt, k + 1), chars)
    <3>1. Flat(ss, k) \in Text /\ Flat(tt, k) \in Text
      BY <2>1
    <3>2. Without(Flat(ss, k) \o ss[k + 1], chars) = Without(Flat(tt, k) \o tt[k + 1], chars)
      BY <2>3, <2>4, <3>1, WithoutSame
    <3> QED BY <2>1, <3>2, Zenon
  <2> QED BY <1>1, <2>2, <2>5 DEF S
<1> HIDE DEF S
<1>4. \A k \in 0..n : k \in S
  BY <1>1, <1>2, <1>3, PositionInduction
<1>5. Without(Flat(ss, n), chars) = Without(Flat(tt, n), chars)
  BY <1>1, <1>4 DEF S
<1> QED BY <1>5, FlatSteps

(* Nothing is left of a text whose characters are all taken away.          *)
LEMMA WithoutAll ==
    ASSUME NEW s \in Text, NEW chars, \A i \in DOMAIN s : s[i] \in chars
    PROVE  Without(s, chars) = <<>>
<1> DEFINE n == Len(s)
           ss == Kept(s, chars)
           S == {k \in 0..n : Flat(ss, k) = <<>>}
<1>1. n \in Nat /\ DOMAIN s = 1..n /\ ss \in Texts /\ Len(ss) = n
  BY KeptTexts DEF Text
<1>2. \A k \in 1..n : ss[k] = <<>>
  BY <1>1 DEF Kept
<1> HIDE DEF ss, n
<1>3. 0 \in S
  BY <1>1, FlatSteps
<1>4. ASSUME NEW k \in 0..n - 1, k \in S PROVE k + 1 \in S
  <2>1. Flat(ss, k) = <<>>
    BY <1>4
  <2> HIDE DEF S
  <2>2. Flat(ss, k + 1) = Flat(ss, k) \o ss[k + 1] /\ k + 1 \in 1..n
    BY <1>1, FlatSteps
  <2>3. <<>> \o <<>> = <<>>
    OBVIOUS
  <2>4. Flat(ss, k + 1) = <<>>
    BY <1>2, <2>1, <2>2, <2>3, Zenon
  <2> QED BY <1>1, <2>2, <2>4 DEF S
<1> HIDE DEF S
<1>5. \A k \in 0..n : k \in S
  BY <1>1, <1>3, <1>4, PositionInduction
<1>6. Flat(ss, n) = <<>>
  BY <1>1, <1>5 DEF S
<1> QED BY <1>1, <1>6, FlatSteps, KeptTexts DEF ss

(* Of a text with another character something is left.                     *)
LEMMA WithoutSome ==
    ASSUME NEW s \in Text, NEW chars, NEW i \in DOMAIN s, s[i] \notin chars
    PROVE  Without(s, chars) # <<>>
<1> DEFINE ss == Kept(s, chars)
<1>1. Len(s) \in Nat /\ DOMAIN s = 1..Len(s) /\ ss \in Texts /\ Len(ss) = Len(s)
  BY KeptTexts DEF Text
<1>2. ss[i] = <<s[i]>>
  BY DEF Kept
<1> DEFINE S == {k \in 0..Len(s) : k >= i => Flat(ss, k) # <<>>}
<1> HIDE DEF ss
<1>3. 0 \in S
  BY <1>1
<1>4. ASSUME NEW k \in 0..Len(s) - 1, k \in S PROVE k + 1 \in S
  <2>1. Flat(ss, k + 1) = Flat(ss, k) \o ss[k + 1]
    BY <1>1, FlatSteps
  <2>2. Flat(ss, k) \in Text /\ ss[k + 1] \in Text /\ k + 1 \in 0..Len(s)
    <3>1. k \in 0..Len(s) /\ k + 1 \in 1..Len(s)
      BY <1>1
    <3> QED BY <1>1, <3>1, FlatSteps DEF Texts
  <2>3. k + 1 >= i => Flat(ss, k) # <<>> \/ ss[k + 1] # <<>>
    <3>1. CASE k + 1 = i
      BY <1>2, <3>1
    <3>2. CASE k >= i
      BY <1>4, <3>2
    <3> QED BY <1>1, <3>1, <3>2
  <2> HIDE DEF S
  <2>4. Flat(ss, k) # <<>> \/ ss[k + 1] # <<>> => Flat(ss, k) \o ss[k + 1] # <<>>
    BY <2>2, ConcatEqualIffEmpty DEF Text
  <2> QED BY <2>1, <2>2, <2>3, <2>4 DEF S
<1> HIDE DEF S
<1>5. \A k \in 0..Len(s) : k \in S
  BY <1>1, <1>3, <1>4, PositionInduction
<1>6. Flat(ss, Len(s)) # <<>>
  BY <1>1, <1>5 DEF S
<1> QED BY <1>1, <1>6, FlatSteps, KeptTexts DEF ss

(* A text with none of the characters stays as it is.                      *)
LEMMA WithoutNone ==
    ASSUME NEW s \in Text, NEW chars, \A i \in DOMAIN s : s[i] \notin chars
    PROVE  Without(s, chars) = s
<1> DEFINE n == Len(s)
           ss == Kept(s, chars)
           S == {k \in 0..n : Flat(ss, k) = SubSeq(s, 1, k)}
<1>1. n \in Nat /\ DOMAIN s = 1..n /\ ss \in Texts /\ Len(ss) = n
  BY KeptTexts DEF Text
<1>2. \A k \in 1..n : ss[k] = <<s[k]>>
  BY <1>1 DEF Kept
<1> HIDE DEF ss
<1>3. 0 \in S
  <2>1. SubSeq(s, 1, 0) = <<>> /\ Flat(ss, 0) = <<>>
    BY <1>1, FlatSteps, SubSeqEmpty
  <2> HIDE DEF n
  <2>2. 0 \in 0..n
    BY <1>1
  <2> QED BY <2>1, <2>2, Zenon
<1>4. ASSUME NEW k \in 0..n - 1, k \in S PROVE k + 1 \in S
  <2>1. Flat(ss, k) = SubSeq(s, 1, k)
    BY <1>4
  <2> HIDE DEF S
  <2>2. Flat(ss, k + 1) = Flat(ss, k) \o ss[k + 1] /\ k + 1 \in 1..n
    BY <1>1, FlatSteps
  <2>3. SubSeq(s, 1, k + 1) = SubSeq(s, 1, k) \o <<s[k + 1]>>
    BY <1>1 DEF Text
  <2>4. Flat(ss, k + 1) = SubSeq(s, 1, k + 1)
    BY <1>2, <2>1, <2>2, <2>3, Zenon
  <2> QED BY <1>1, <2>2, <2>4 DEF S
<1> HIDE DEF S, n
<1>5. \A k \in 0..n : k \in S
  BY <1>1, <1>3, <1>4, PositionInduction
<1>6. Flat(ss, n) = SubSeq(s, 1, n)
  BY <1>1, <1>5 DEF S
<1>7. SubSeq(s, 1, n) = s
  BY SubSeqFull DEF n, Text
<1>8. Flat(ss, n) = Without(s, chars)
  BY <1>1, FlatSteps, KeptTexts DEF ss
<1> QED BY <1>6, <1>7, <1>8

(* Characters that are taken away anyway may be taken away before.         *)
LEMMA WithoutTwice ==
    ASSUME NEW s \in Text, NEW chars, NEW more, chars \subseteq more
    PROVE  Without(Without(s, chars), more) = Without(s, more)
<1> DEFINE ss == Kept(s, chars)
           tt == Kept(s, {})
<1>1. /\ Len(s) \in Nat /\ DOMAIN s = 1..Len(s)
      /\ ss \in Texts /\ Len(ss) = Len(s) /\ Without(s, chars) = FlattenSeq(ss)
      /\ tt \in Texts /\ Len(tt) = Len(s) /\ Without(s, {}) = FlattenSeq(tt)
  BY KeptTexts DEF Text
<1>2. Without(s, {}) = s
  BY WithoutNone
<1>3. ASSUME NEW k \in 1..Len(s) PROVE Without(ss[k], more) = Without(tt[k], more)
  <2>1. tt[k] = <<s[k]>> /\ ss[k] = IF s[k] \in chars THEN <<>> ELSE <<s[k]>>
    BY <1>1 DEF Kept
  <2>2. CASE s[k] \in chars
    <3>1. <<s[k]>> \in Text /\ <<>> \in Text
      BY <1>1, EmptySeq DEF Text
    <3>2. Without(<<>>, more) = <<>> /\ Without(<<s[k]>>, more) = <<>>
      BY <2>2, <3>1, WithoutAll
    <3> QED BY <2>1, <2>2, <3>2
  <2>3. CASE s[k] \notin chars
    BY <2>1, <2>3
  <2> QED BY <2>2, <2>3
<1> HIDE DEF ss, tt
<1> QED BY <1>1, <1>2, <1>3, WithoutFlatten

-------------------------------------------------------------------------------
(* What the string functions find in a text.                               *)

(* A part of a text.                                                       *)
LEMMA TextPart ==
    ASSUME NEW s \in Text, NEW b \in Nat \ {0}, NEW e \in Int, e <= Len(s)
    PROVE  /\ SubSeq(s, b, e) \in Text
           /\ Len(SubSeq(s, b, e)) = IF b <= e THEN e - b + 1 ELSE 0
           /\ \A i \in 1..e - b + 1 : SubSeq(s, b, e)[i] = s[b + i - 1]
<1>1. \A i \in b..e : s[i] \in Char \ {0}
  BY DEF Text
<1> QED BY <1>1, SubSeqProperties DEF Text

(* The first word of a text: it begins at b and ends at e.                 *)
WordAt(s, delimiters, b, e) ==
    /\ b \in 1..Len(s) /\ e \in b..Len(s)
    /\ \A i \in 1..b - 1 : s[i] \in delimiters
    /\ \A i \in b..e : s[i] \notin delimiters
    /\ e < Len(s) => s[e + 1] \in delimiters

(* strtok finds it, or there is none.                                      *)
LEMMA FirstWord ==
    ASSUME NEW s \in Text, NEW delimiters
    PROVE  LET t == strtok(s, delimiters)
           IN  \/ /\ t.token = NULL /\ t.rest = <<>>
                  /\ \A i \in DOMAIN s : s[i] \in delimiters
               \/ \E b, e \in Nat :
                    /\ WordAt(s, delimiters, b, e)
                    /\ t.token = SubSeq(s, b, e) /\ t.rest = SubSeq(s, e + 2, Len(s))
<1> DEFINE inWord == {i \in DOMAIN s : s[i] \notin delimiters}
           first == Min(inWord)
           ends == {i \in first..Len(s) + 1 : i \notin inWord}
           end == Min(ends)
           t == strtok(s, delimiters)
<1>1. Len(s) \in Nat /\ DOMAIN s = 1..Len(s)
  BY DEF Text
<1>2. CASE inWord = {}
  BY <1>2 DEF strtok
<1>3. CASE inWord # {}
  <2>1. first \in inWord /\ \A j \in inWord : first <= j
    <3>1. inWord \in SUBSET (1..Len(s))
      BY <1>1
    <3> HIDE DEF inWord
    <3> QED BY <1>1, <1>3, <3>1, MinOfPositions
  <2>2. \A i \in 1..Len(s) : i \in inWord <=> s[i] \notin delimiters
    BY <1>1
  <2>3. inWord \subseteq 1..Len(s) /\ first \in 1..Len(s)
    BY <1>1, <2>1
  <2>4. t = [token |-> SubSeq(s, first, end - 1), rest |-> SubSeq(s, end + 1, Len(s))]
    BY <1>3 DEF strtok
  <2> HIDE DEF inWord, first
  <2>5. end \in ends /\ \A j \in ends : end <= j
    <3>1. ends \in SUBSET (1..Len(s) + 1) /\ Len(s) + 1 \in Nat
      BY <1>1, <2>3
    <3>2. Len(s) + 1 \in ends
      BY <1>1, <2>3
    <3> HIDE DEF ends
    <3> QED BY <3>1, <3>2, MinOfPositions
  <2>6. end \in first + 1..Len(s) + 1 /\ end \notin inWord
    BY <1>1, <2>1, <2>3, <2>5
  <2>7. ASSUME NEW i \in first..end - 1 PROVE s[i] \notin delimiters
    <3>1. i \in 1..Len(s) /\ i \in first..Len(s) + 1 /\ ~(end <= i)
      BY <1>1, <2>3, <2>6
    <3>2. i \in inWord
      BY <2>5, <3>1
    <3> QED BY <2>2, <3>1, <3>2
  <2>8. ASSUME NEW i \in 1..first - 1 PROVE s[i] \in delimiters
    <3>1. i \in 1..Len(s) /\ ~(first <= i)
      BY <1>1, <2>3
    <3> QED BY <2>1, <2>2, <3>1
  <2> HIDE DEF end, t
  <2> DEFINE e == end - 1
  <2>9. e \in Nat /\ e + 1 = end /\ e + 2 = end + 1 /\ e \in first..Len(s) /\ first \in Nat
    BY <1>1, <2>3, <2>6
  <2>10. e < Len(s) => s[e + 1] \in delimiters
    BY <1>1, <2>2, <2>3, <2>6, <2>9
  <2>11. WordAt(s, delimiters, first, e)
    BY <2>3, <2>7, <2>8, <2>9, <2>10 DEF WordAt
  <2>12. t.token = SubSeq(s, first, e) /\ t.rest = SubSeq(s, e + 2, Len(s))
    BY <2>4, <2>9
  <2> HIDE DEF e
  <2> QED BY <2>9, <2>11, <2>12 DEF t
<1> QED BY <1>2, <1>3

(* A text up to the end of its first word is that word and what is taken   *)
(* away.                                                                   *)
LEMMA WithoutDelimiters ==
    ASSUME NEW s \in Text, NEW chars, NEW b \in Nat, NEW e \in Nat, WordAt(s, chars, b, e)
    PROVE  /\ SubSeq(s, b, e) \in Text /\ Len(SubSeq(s, b, e)) = e - b + 1
           /\ \A i \in DOMAIN SubSeq(s, b, e) : SubSeq(s, b, e)[i] \notin chars
           /\ Without(SubSeq(s, 1, e), chars) = SubSeq(s, b, e)
<1> DEFINE u == SubSeq(s, 1, b - 1)
           v == SubSeq(s, b, e)
<1>1. Len(s) \in Nat /\ b \in 1..Len(s) /\ e \in b..Len(s)
  BY DEF WordAt, Text
<1>2. /\ u \in Text /\ Len(u) = b - 1 /\ \A i \in 1..b - 1 : u[i] = s[i]
  <2>1. b - 1 \in Int /\ b - 1 <= Len(s) /\ 1 \in Nat \ {0}
    BY <1>1
  <2>2. /\ u \in Text /\ Len(u) = IF 1 <= b - 1 THEN b - 1 - 1 + 1 ELSE 0
        /\ \A i \in 1..b - 1 - 1 + 1 : u[i] = s[1 + i - 1]
    BY <2>1, TextPart
  <2> HIDE DEF u
  <2> QED BY <1>1, <2>2
<1>3. v \in Text /\ Len(v) = e - b + 1 /\ \A i \in 1..e - b + 1 : v[i] = s[b + i - 1]
  BY <1>1, TextPart
<1>4. SubSeq(s, 1, e) = u \o v
  BY <1>1 DEF Text
<1> HIDE DEF u, v
<1>5. Without(u, chars) = <<>>
  <2>1. \A i \in DOMAIN u : u[i] \in chars
    <3>1. DOMAIN u = 1..b - 1
      BY <1>2 DEF Text
    <3> QED BY <1>2, <3>1 DEF WordAt
  <2> QED BY <1>2, <2>1, WithoutAll
<1>6. \A i \in DOMAIN v : v[i] \notin chars
  <2>1. DOMAIN v = 1..e - b + 1
    BY <1>3 DEF Text
  <2>2. ASSUME NEW i \in 1..e - b + 1 PROVE b + i - 1 \in b..e
    BY <1>1
  <2> QED BY <1>3, <2>1, <2>2 DEF WordAt
<1>7. Without(v, chars) = v
  BY <1>3, <1>6, WithoutNone
<1>8. Without(SubSeq(s, 1, e), chars) = v
  <2>1. Without(u \o v, chars) = Without(u, chars) \o Without(v, chars)
    BY <1>2, <1>3, WithoutConcat
  <2>2. <<>> \o v = v
    BY <1>3, Behind
  <2> QED BY <1>4, <1>5, <1>7, <2>1, <2>2
<1> QED BY <1>3, <1>6, <1>8 DEF v

(* A text in two parts.                                                    *)
LEMMA TextSplit ==
    ASSUME NEW s \in Text, NEW e \in 0..Len(s)
    PROVE  /\ SubSeq(s, 1, e) \in Text /\ Len(SubSeq(s, 1, e)) = e
           /\ \A i \in 1..e : SubSeq(s, 1, e)[i] = s[i]
           /\ SubSeq(s, e + 1, Len(s)) \in Text
           /\ Len(SubSeq(s, e + 1, Len(s))) = Len(s) - e
           /\ \A i \in 1..Len(s) - e : SubSeq(s, e + 1, Len(s))[i] = s[e + i]
           /\ SubSeq(s, 1, e) \o SubSeq(s, e + 1, Len(s)) = s
<1>1. Len(s) \in Nat /\ e \in Nat /\ e <= Len(s)
  BY DEF Text
<1> DEFINE u == SubSeq(s, 1, e)
           v == SubSeq(s, e + 1, Len(s))
<1>2. u \in Text /\ Len(u) = e /\ \A i \in 1..e : u[i] = s[i]
  BY <1>1 DEF Text
<1>3. /\ v \in Text /\ Len(v) = Len(s) - e
      /\ \A i \in 1..Len(s) - e : v[i] = s[e + i]
  <2>1. e + 1 \in Nat \ {0} /\ Len(s) \in Int /\ Len(s) <= Len(s)
    BY <1>1
  <2>2. /\ v \in Text
        /\ Len(v) = IF e + 1 <= Len(s) THEN Len(s) - (e + 1) + 1 ELSE 0
        /\ \A i \in 1..Len(s) - (e + 1) + 1 : v[i] = s[e + 1 + i - 1]
    BY <2>1, TextPart
  <2> HIDE DEF v
  <2> QED BY <1>1, <2>2
<1> HIDE DEF u, v
<1>4. u \o v = s
  <2>1. u \o v \in Text /\ Len(u \o v) = Len(s)
    BY <1>1, <1>2, <1>3 DEF Text
  <2>2. ASSUME NEW i \in 1..Len(s) PROVE (u \o v)[i] = s[i]
    <3>1. (u \o v)[i] = IF i <= Len(u) THEN u[i] ELSE v[i - Len(u)]
      BY <1>1, <1>2, <1>3 DEF Text
    <3>2. ~(i <= e) => i - e \in 1..Len(s) - e /\ e + (i - e) = i
      BY <1>1
    <3>3. i <= e => i \in 1..e
      BY <1>1
    <3> QED BY <1>2, <1>3, <3>1, <3>2, <3>3
  <2> QED BY <2>1, <2>2, SeqEqual DEF Text
<1> QED BY <1>2, <1>3, <1>4 DEF u, v

(* What Squeeze takes away.                                                *)
Blanks == {c \in Char : isspace(c)}

(* The part of a text without the blanks around it.                        *)
LEMMA Trimmed ==
    ASSUME NEW s \in Text
    PROVE  LET t == trimWhiteSpace(s)
           IN  /\ t \in Text /\ Without(t, Blanks) = Without(s, Blanks)
               /\ \A i \in DOMAIN t : \E j \in DOMAIN s : t[i] = s[j]
               /\ t # <<>> => ~isspace(t[1]) /\ ~isspace(Last(t))
<1> DEFINE graph == {i \in DOMAIN s : ~isspace(s[i])}
           hi == Max(graph)
           t == trimWhiteSpace(s)
<1>1. Len(s) \in Nat /\ DOMAIN s = 1..Len(s)
  BY DEF Text
<1>2. \A x \in Text : \A i \in DOMAIN x : x[i] \in Blanks <=> isspace(x[i])
  BY DEF Blanks, Text
<1>3. CASE graph = {}
  <2>1. t = <<>> /\ t \in Text
    BY <1>3, EmptySeq DEF trimWhiteSpace, trimTrailingSpace, firstNoneSpace, Text
  <2>2. Without(s, Blanks) = <<>> /\ Without(t, Blanks) = <<>>
    <3> HIDE DEF t
    <3>1. /\ \A i \in DOMAIN s : s[i] \in Blanks
          /\ \A i \in DOMAIN t : t[i] \in Blanks
      BY <1>2, <1>3, <2>1
    <3> QED BY <2>1, <3>1, WithoutAll
  <2> HIDE DEF t
  <2> QED BY <2>1, <2>2 DEF t
<1>4. CASE graph # {}
  <2>1. hi \in graph /\ \A j \in graph : j <= hi
    <3>1. graph \in SUBSET (1..Len(s))
      BY <1>1
    <3> HIDE DEF graph
    <3> QED BY <1>1, <1>4, <3>1, MaxOfPositions
  <2>2. trimTrailingSpace(s) = SubSeq(s, 1, hi)
    BY <1>4 DEF trimTrailingSpace
  <2> HIDE DEF hi, t
  <2>3. /\ hi \in 1..Len(s) /\ ~isspace(s[hi])
        /\ \A i \in hi + 1..Len(s) : isspace(s[i])
    <3>1. hi \in 1..Len(s) /\ ~isspace(s[hi])
      BY <1>1, <2>1
    <3>2. ASSUME NEW i \in hi + 1..Len(s) PROVE isspace(s[i])
      <4>1. i \in DOMAIN s /\ ~(i <= hi)
        BY <1>1, <3>1
      <4> QED BY <2>1, <4>1
    <3> QED BY <3>1, <3>2
  <2> HIDE DEF graph
  <2> DEFINE u == SubSeq(s, 1, hi)
             graphU == {i \in DOMAIN u : ~isspace(u[i])}
             lo == Min(graphU)
  <2>4. u \in Text /\ Len(u) = hi /\ DOMAIN u = 1..hi /\ \A i \in 1..hi : u[i] = s[i]
    <3>1. u \in Text /\ Len(u) = hi /\ \A i \in 1..hi : u[i] = s[i]
      BY <1>1, <2>3 DEF Text
    <3> HIDE DEF u
    <3> QED BY <3>1 DEF Text
  <2>7. graphU # {} => t = SubSeq(u, lo, Len(u))
    BY <2>2 DEF t, trimWhiteSpace, firstNoneSpace
  <2> HIDE DEF u, lo
  <2>5. lo \in graphU /\ \A j \in graphU : lo <= j
    <3>1. graphU \in SUBSET (1..hi) /\ hi \in graphU
      BY <2>3, <2>4
    <3> HIDE DEF graphU
    <3>2. hi \in Nat
      BY <1>1, <2>3
    <3> QED BY <3>1, <3>2, MinOfPositions DEF lo
  <2>6. /\ lo \in 1..hi /\ ~isspace(s[lo])
        /\ \A i \in 1..lo - 1 : isspace(s[i])
    <3>1. lo \in 1..hi /\ ~isspace(s[lo])
      BY <2>4, <2>5
    <3>2. ASSUME NEW i \in 1..lo - 1 PROVE isspace(s[i])
      <4>1. i \in DOMAIN u /\ u[i] = s[i] /\ ~(lo <= i)
        <5> HIDE DEF graphU
        <5> QED BY <2>3, <2>4, <3>1
      <4> QED BY <2>5, <4>1
    <3> QED BY <3>1, <3>2
  <2> HIDE DEF graphU
  <2>8. /\ t \in Text /\ Len(t) = hi - lo + 1 /\ DOMAIN t = 1..hi - lo + 1
        /\ \A i \in 1..hi - lo + 1 : t[i] = s[lo + i - 1]
    <3>1. /\ t \in Text /\ Len(t) = hi - lo + 1
          /\ \A i \in 1..hi - lo + 1 : t[i] = u[lo + i - 1]
      <4>1. graphU # {} /\ lo \in Nat \ {0} /\ hi \in Int /\ lo <= hi
        BY <2>3, <2>5, <2>6
      <4>2. t = SubSeq(u, lo, hi) /\ u \in Text /\ hi <= Len(u)
        BY <2>3, <2>4, <2>7, <4>1
      <4> QED BY <4>1, <4>2, TextPart
    <3>2. \A i \in 1..hi - lo + 1 : lo + i - 1 \in 1..hi
      BY <2>3, <2>6
    <3> QED BY <2>4, <3>1, <3>2 DEF Text
  <2> DEFINE v == SubSeq(s, 1, lo - 1)
             w == SubSeq(s, hi + 1, Len(s))
  <2>9. /\ v \in Text /\ DOMAIN v = 1..lo - 1 /\ \A i \in 1..lo - 1 : v[i] = s[i]
        /\ w \in Text /\ DOMAIN w = 1..Len(s) - hi
        /\ \A i \in 1..Len(s) - hi : w[i] = s[hi + i]
    <3>1. lo - 1 \in 0..Len(s) /\ hi \in 0..Len(s)
      BY <1>1, <2>3, <2>6
    <3> HIDE DEF v, w
    <3>2. /\ v \in Text /\ Len(v) = lo - 1 /\ \A i \in 1..lo - 1 : v[i] = s[i]
      BY <3>1, TextSplit DEF v
    <3>3. /\ w \in Text /\ Len(w) = Len(s) - hi
          /\ \A i \in 1..Len(s) - hi : w[i] = s[hi + i]
      BY <3>1, TextSplit DEF w
    <3> QED BY <3>2, <3>3 DEF Text
  <2>10. s = (v \o t) \o w
    <3>1. t = SubSeq(s, lo, hi)
      <4>1. /\ SubSeq(s, lo, hi) \in Text /\ Len(SubSeq(s, lo, hi)) = hi - lo + 1
            /\ \A i \in 1..hi - lo + 1 : SubSeq(s, lo, hi)[i] = s[lo + i - 1]
        BY <1>1, <2>3, <2>6, TextPart
      <4> QED BY <2>8, <4>1, SeqEqual DEF Text
    <3>2. v \o SubSeq(s, lo, hi) = SubSeq(s, 1, hi)
      BY <1>1, <2>3, <2>6 DEF Text
    <3>3. SubSeq(s, 1, hi) \o w = s
      <4>1. hi \in 0..Len(s)
        BY <1>1, <2>3
      <4> HIDE DEF v
      <4> QED BY <4>1, TextSplit
    <3> QED BY <3>1, <3>2, <3>3
  <2> HIDE DEF v, w
  <2>11. Without(v, Blanks) = <<>> /\ Without(w, Blanks) = <<>>
    <3>1. \A i \in DOMAIN v : v[i] \in Blanks
      BY <1>2, <2>6, <2>9
    <3>2. \A i \in DOMAIN w : w[i] \in Blanks
      <4>1. \A i \in 1..Len(s) - hi : hi + i \in hi + 1..Len(s)
        BY <1>1, <2>3
      <4> QED BY <1>2, <2>3, <2>9, <4>1
    <3> QED BY <2>9, <3>1, <3>2, WithoutAll
  <2>12. Without(s, Blanks) = Without(t, Blanks)
    <3>1. v \o t \in Text /\ Without(t, Blanks) \in Text
      BY <2>8, <2>9, Behind, KeptTexts
    <3>2. Without((v \o t) \o w, Blanks) = Without(v \o t, Blanks) \o Without(w, Blanks)
      BY <2>9, <3>1, WithoutConcat
    <3>3. Without(v \o t, Blanks) = Without(v, Blanks) \o Without(t, Blanks)
      BY <2>8, <2>9, WithoutConcat
    <3>4. (<<>> \o Without(t, Blanks)) \o <<>> = Without(t, Blanks)
      BY <3>1, Behind
    <3> QED BY <2>10, <2>11, <3>2, <3>3, <3>4
  <2>13. ~isspace(t[1]) /\ ~isspace(t[Len(t)])
    BY <2>3, <2>6, <2>8
  <2>14. \A i \in DOMAIN t : \E j \in DOMAIN s : t[i] = s[j]
    <3>1. \A i \in 1..hi - lo + 1 : lo + i - 1 \in 1..Len(s)
      BY <1>1, <2>3, <2>6
    <3> QED BY <1>1, <2>8, <3>1
  <2> QED BY <2>8, <2>12, <2>13, <2>14 DEF t, Last
<1> QED BY <1>3, <1>4

-------------------------------------------------------------------------------
(* The texts between the commas.                                           *)

(* How many members of B are before p.                                     *)
Rank(B, p) == Cardinality({c \in B : c < p})

(* At the next position there is one more if this one is a member.         *)
LEMMA RankStep ==
    ASSUME NEW n \in Nat, NEW B \in SUBSET (0..n), NEW p \in Int
    PROVE  /\ Rank(B, p) \in Nat
           /\ Rank(B, p + 1) = IF p \in B THEN Rank(B, p) + 1 ELSE Rank(B, p)
<1> DEFINE A == {c \in B : c < p}
<1>0. \A c \in B : c \in Int
  OBVIOUS
<1>1. IsFiniteSet(0..n)
  BY FS_Interval
<1>2. A \in SUBSET (0..n)
  OBVIOUS
<1>3. IsFiniteSet(A) /\ p \notin A
  <2>1. p \notin A
    OBVIOUS
  <2> HIDE DEF A
  <2> QED BY <1>1, <1>2, <2>1, FS_Subset
<1>4. {c \in B : c < p + 1} = IF p \in B THEN A \cup {p} ELSE A
  <2>1. ASSUME NEW c PROVE c \in B /\ c < p + 1 <=> (c \in A \/ (p \in B /\ c = p))
    <3>1. c \in B => (c < p + 1 <=> c < p \/ c = p)
      BY <1>0
    <3> QED BY <3>1
  <2> HIDE DEF A
  <2> QED BY <2>1
<1> HIDE DEF A
<1>5. Cardinality(A) \in Nat /\ Cardinality(A \cup {p}) = Cardinality(A) + 1
  BY <1>3, FS_CardinalityType, FS_AddElement
<1> QED BY <1>4, <1>5 DEF Rank, A

(* Of two members the greater one has more before it.                      *)
LEMMA RankMonotone ==
    ASSUME NEW n \in Nat, NEW B \in SUBSET (0..n), NEW b \in B, NEW c \in B, b < c
    PROVE  Rank(B, b) < Rank(B, c)
<1> DEFINE A(p) == {d \in B : d < p}
<1>0. \A d \in B : d \in Int
  OBVIOUS
<1>1. IsFiniteSet(0..n) /\ A(b) \in SUBSET (0..n) /\ A(c) \in SUBSET (0..n)
  <2>1. A(b) \in SUBSET (0..n) /\ A(c) \in SUBSET (0..n)
    OBVIOUS
  <2>2. IsFiniteSet(0..n)
    BY FS_Interval
  <2> QED BY <2>1, <2>2
<1>2. A(b) \in SUBSET A(c) /\ b \in A(c) /\ b \notin A(b)
  <2>1. \A d \in B : d < b => d < c
    BY <1>0
  <2>2. ~(b < b)
    BY <1>0
  <2>3. A(b) \in SUBSET A(c)
    BY <2>1
  <2> QED BY <2>2, <2>3
<1> HIDE DEF A
<1>3. IsFiniteSet(A(c)) /\ A(b) # A(c)
  BY <1>1, <1>2, FS_Subset
<1>4. IsFiniteSet(A(b)) /\ Cardinality(A(b)) < Cardinality(A(c))
  <2>1. IsFiniteSet(A(b)) /\ Cardinality(A(b)) <= Cardinality(A(c))
        /\ (Cardinality(A(b)) = Cardinality(A(c)) => A(b) = A(c))
    BY <1>2, <1>3, FS_Subset
  <2>2. Cardinality(A(b)) \in Nat /\ Cardinality(A(c)) \in Nat
    BY <1>3, <2>1, FS_CardinalityType
  <2> QED BY <1>3, <2>1, <2>2
<1> QED BY <1>4 DEF Rank, A

(* Each number of members less than all is that before some member.        *)
LEMMA RankTaken ==
    ASSUME NEW n \in Nat, NEW B \in SUBSET (0..n)
    PROVE  /\ IsFiniteSet(B) /\ Cardinality(B) \in Nat
           /\ \A k \in 0..Cardinality(B) - 1 : \E b \in B : Rank(B, b) = k
<1> DEFINE S == {p \in 0..n + 1 :
                   \A k \in Nat : k < Rank(B, p) => \E b \in B : Rank(B, b) = k}
<1>0. \A c \in B : c \in Nat /\ c < n + 1
  OBVIOUS
<1>1. 0 \in S
  <2>1. {c \in B : c < 0} = {}
    <3>1. \A c \in B : ~(c < 0)
      BY <1>0
    <3> QED BY <3>1
  <2>2. Rank(B, 0) = 0
    BY <2>1, FS_EmptySet DEF Rank
  <2> QED BY <2>2
<1>2. ASSUME NEW p \in 0..n, p \in S PROVE p + 1 \in S
  <2>1. ASSUME NEW k \in Nat, k < Rank(B, p + 1) PROVE \E b \in B : Rank(B, b) = k
    <3>1. Rank(B, p) \in Nat /\ (k < Rank(B, p) \/ (k = Rank(B, p) /\ p \in B))
      <4>1. p \in Int
        OBVIOUS
      <4>2. /\ Rank(B, p) \in Nat
            /\ Rank(B, p + 1) = IF p \in B THEN Rank(B, p) + 1 ELSE Rank(B, p)
        BY <4>1, RankStep
      <4> HIDE DEF S
      <4> QED BY <2>1, <4>2
    <3> QED BY <1>2, <3>1
  <2> QED BY <2>1
<1> HIDE DEF S
<1>3. \A p \in 0..n + 1 : p \in S
  <2>1. n + 1 \in Nat /\ n + 1 - 1 = n
    OBVIOUS
  <2> QED BY <1>1, <1>2, <2>1, PositionInduction
<1>4. Rank(B, n + 1) = Cardinality(B)
  <2>1. {c \in B : c < n + 1} = B
    BY <1>0
  <2> QED BY <2>1 DEF Rank
<1>5. IsFiniteSet(B) /\ Cardinality(B) \in Nat
  <2>1. IsFiniteSet(0..n)
    BY FS_Interval
  <2> QED BY <2>1, FS_Subset, FS_CardinalityType
<1>6. \A k \in Nat : k < Cardinality(B) => \E b \in B : Rank(B, b) = k
  BY <1>3, <1>4 DEF S
<1> QED BY <1>5, <1>6

(* Where the texts are that strsep finds: between bd[k - 1] and bd[k].     *)
SplitAt(s, t, n, bd) ==
    /\ n \in Nat \ {0} /\ Len(t) = n /\ DOMAIN t = 1..n /\ t = [k \in 1..n |-> t[k]]
    /\ bd \in [0..n -> 0..Len(s) + 1] /\ bd[0] = 0 /\ bd[n] = Len(s) + 1
    /\ \A k \in 1..n :
         /\ bd[k - 1] < bd[k]
         /\ t[k] = SubSeq(s, bd[k - 1] + 1, bd[k] - 1)
         /\ \A i \in bd[k - 1] + 1..bd[k] - 1 : s[i] # COMMA
    /\ \A k \in 1..n - 1 : s[bd[k]] = COMMA

(* strsep finds them, whatever commas there are.                           *)
LEMMA Separators ==
    ASSUME NEW s \in Text
    PROVE  \E n, bd : SplitAt(s, strsep(s), n, bd)
<1> DEFINE B == {0, Len(s) + 1} \cup {i \in DOMAIN s : s[i] = COMMA}
           m == Len(s) + 1
           n == Cardinality(B) - 1
           bd == [k \in 0..n |-> CHOOSE b \in B : Rank(B, b) = k]
           t == strsep(s)
<1>1. Len(s) \in Nat /\ DOMAIN s = 1..Len(s) /\ m \in Nat
  BY DEF Text
<1>2. B \in SUBSET (0..m) /\ 0 \in B /\ m \in B /\ m # 0 /\ m = Len(s) + 1
  BY <1>1
<1>3. /\ \A i \in B : i = 0 \/ i = m \/ s[i] = COMMA
      /\ \A i \in 1..Len(s) : s[i] = COMMA => i \in B
  BY <1>1
<1>4. t = [k \in 1..n |-> SubSeq(s, (CHOOSE b \in B : Rank(B, b) = k - 1) + 1,
                                    (CHOOSE b \in B : Rank(B, b) = k) - 1)]
  BY DEF strsep, Rank
<1> HIDE DEF B, m, t
<1>5. n \in Nat /\ Cardinality(B) \in Nat
  <2>1. IsFiniteSet(B) /\ Cardinality(B) \in Nat /\ B # {}
    BY <1>1, <1>2, RankTaken
  <2>2. Cardinality(B) # 0
    BY <2>1, FS_EmptySet
  <2> QED BY <2>1, <2>2
<1>6. \A k \in 0..n : bd[k] \in B /\ Rank(B, bd[k]) = k
  <2>1. ASSUME NEW k \in 0..n PROVE \E b \in B : Rank(B, b) = k
    BY <1>1, <1>2, <1>5, RankTaken
  <2>2. ASSUME NEW k \in 0..n PROVE bd[k] = CHOOSE b \in B : Rank(B, b) = k
    OBVIOUS
  <2> HIDE DEF bd
  <2> QED BY <2>1, <2>2
<1>7. t = [k \in 1..n |-> SubSeq(s, bd[k - 1] + 1, bd[k] - 1)]
  <2>1. ASSUME NEW k \in 1..n
        PROVE  /\ bd[k] = CHOOSE b \in B : Rank(B, b) = k
               /\ bd[k - 1] = CHOOSE b \in B : Rank(B, b) = k - 1
    <3>1. k \in 0..n /\ k - 1 \in 0..n
      BY <1>5
    <3> QED BY <3>1
  <2> HIDE DEF bd, n
  <2>2. ASSUME NEW k \in 1..n
        PROVE  SubSeq(s, (CHOOSE b \in B : Rank(B, b) = k - 1) + 1,
                         (CHOOSE b \in B : Rank(B, b) = k) - 1)
                 = SubSeq(s, bd[k - 1] + 1, bd[k] - 1)
    BY <2>1, Zenon
  <2> QED BY <1>4, <2>2
<1>8. DOMAIN bd = 0..n /\ bd = [k \in 0..n |-> bd[k]]
  OBVIOUS
<1>9. \A b, c \in B : b < c => Rank(B, b) < Rank(B, c)
  BY <1>1, <1>2, RankMonotone
<1>10. \A b \in B : b \in Int /\ Rank(B, b) \in Nat
  <2>1. \A b \in B : b \in Int
    BY <1>2
  <2> QED BY <1>1, <1>2, <2>1, RankStep
<1>11. \A b, c \in B : Rank(B, b) < Rank(B, c) => b < c
  BY <1>9, <1>10
<1>12. \A b, c \in B : Rank(B, b) = Rank(B, c) => b = c
  BY <1>9, <1>10
<1> HIDE DEF bd
<1>13. bd[0] = 0
  <2>1. {c \in B : c < 0} = {}
    <3>1. \A c \in B : ~(c < 0)
      BY <1>2
    <3> QED BY <3>1
  <2>2. Rank(B, 0) = 0
    BY <2>1, FS_EmptySet DEF Rank
  <2>3. 0 \in 0..n
    BY <1>5
  <2> QED BY <1>2, <1>6, <1>12, <2>2, <2>3
<1>14. bd[n] = m
  <2>1. Rank(B, m + 1) = Rank(B, m) + 1 /\ Rank(B, m) \in Nat
    <3>1. m \in Int /\ m \in Nat /\ B \in SUBSET (0..m)
      BY <1>1, <1>2
    <3>2. /\ Rank(B, m) \in Nat
          /\ Rank(B, m + 1) = IF m \in B THEN Rank(B, m) + 1 ELSE Rank(B, m)
      <4> HIDE DEF n
      <4>1. \A p \in Int : /\ Rank(B, p) \in Nat
                            /\ Rank(B, p + 1) = IF p \in B THEN Rank(B, p) + 1 ELSE Rank(B, p)
        BY <3>1, RankStep
      <4> QED BY <3>1, <4>1
    <3> QED BY <1>2, <3>2
  <2>2. {c \in B : c < m + 1} = B
    <3>1. \A c \in B : c < m + 1
      BY <1>1, <1>2
    <3> QED BY <3>1
  <2>3. Rank(B, m) = n
    BY <1>5, <2>1, <2>2 DEF Rank
  <2>4. n \in 0..n
    BY <1>5
  <2> QED BY <1>2, <1>6, <1>12, <2>3, <2>4
<1>15. n # 0
  BY <1>2, <1>13, <1>14
<1>16. ASSUME NEW k \in 1..n
       PROVE  /\ bd[k - 1] < bd[k]
              /\ t[k] = SubSeq(s, bd[k - 1] + 1, bd[k] - 1)
              /\ \A i \in bd[k - 1] + 1..bd[k] - 1 : s[i] # COMMA
  <2>1. k \in 0..n /\ k - 1 \in 0..n /\ k - 1 < k
    BY <1>5
  <2>2. /\ bd[k] \in B /\ bd[k - 1] \in B
        /\ Rank(B, bd[k]) = k /\ Rank(B, bd[k - 1]) = k - 1
    BY <1>6, <2>1
  <2>3. bd[k - 1] < bd[k]
    BY <1>11, <2>1, <2>2
  <2>4. ASSUME NEW i \in bd[k - 1] + 1..bd[k] - 1, s[i] = COMMA PROVE FALSE
    <3>1. i \in 1..Len(s) /\ bd[k - 1] < i /\ i < bd[k]
      <4>1. bd[k - 1] \in 0..Len(s) + 1 /\ bd[k] \in 0..Len(s) + 1
        BY <1>2, <2>2
      <4> QED BY <1>1, <4>1
    <3>2. i \in B
      BY <1>3, <2>4, <3>1
    <3>3. k - 1 < Rank(B, i) /\ Rank(B, i) < k /\ Rank(B, i) \in Nat
      BY <1>9, <1>10, <2>2, <3>1, <3>2
    <3> QED BY <1>5, <3>3
  <2>5. t[k] = SubSeq(s, bd[k - 1] + 1, bd[k] - 1)
    BY <1>7
  <2> QED BY <2>3, <2>4, <2>5
<1>17. ASSUME NEW k \in 1..n - 1 PROVE s[bd[k]] = COMMA
  <2>1. k \in 0..n /\ 0 \in 0..n /\ n \in 0..n /\ k # 0 /\ k # n
    BY <1>5
  <2>2. bd[k] \in B /\ bd[k] # 0 /\ bd[k] # m
    BY <1>6, <1>13, <1>14, <2>1
  <2> QED BY <1>3, <2>2
<1>18. bd \in [0..n -> 0..Len(s) + 1]
  BY <1>2, <1>6, <1>8
<1>19. Len(t) = n /\ DOMAIN t = 1..n /\ t = [k \in 1..n |-> t[k]]
  <2> HIDE DEF n
  <2>1. \A k \in 1..n : t[k] = SubSeq(s, bd[k - 1] + 1, bd[k] - 1)
    BY <1>7
  <2>2. t = [k \in 1..n |-> t[k]]
    BY <1>7, <2>1
  <2>3. Len(t) = n /\ DOMAIN t = 1..n
    BY <1>5, <1>7
  <2> QED BY <2>2, <2>3, Zenon
<1> HIDE DEF n
<1>20. SplitAt(s, t, n, bd)
  BY <1>2, <1>5, <1>13, <1>14, <1>15, <1>16, <1>17, <1>18, <1>19 DEF SplitAt
<1> QED BY <1>20 DEF t

(* A text up to b, the character there and the text up to c.               *)
LEMMA JoinAt ==
    ASSUME NEW s \in Text, NEW b \in 1..Len(s), NEW c \in b + 1..Len(s) + 1
    PROVE  SubSeq(s, 1, b - 1) \o (<<s[b]>> \o SubSeq(s, b + 1, c - 1)) = SubSeq(s, 1, c - 1)
<1>1. Len(s) \in Nat /\ s[b] \in Char \ {0}
  BY DEF Text
<1>2. /\ SubSeq(s, 1, b - 1) \in Text /\ Len(SubSeq(s, 1, b - 1)) = b - 1
      /\ \A i \in 1..b - 1 : SubSeq(s, 1, b - 1)[i] = s[i]
  <2>1. b - 1 \in 0..Len(s)
    BY <1>1
  <2> QED BY <2>1, TextSplit
<1>3. /\ SubSeq(s, 1, c - 1) \in Text /\ Len(SubSeq(s, 1, c - 1)) = c - 1
      /\ \A i \in 1..c - 1 : SubSeq(s, 1, c - 1)[i] = s[i]
  <2>1. c - 1 \in 0..Len(s)
    BY <1>1
  <2> QED BY <2>1, TextSplit
<1> DEFINE u == SubSeq(s, 1, b - 1)
           v == SubSeq(s, b + 1, c - 1)
           w == SubSeq(s, 1, c - 1)
           x == <<s[b]>> \o v
<1>4. /\ v \in Text /\ Len(v) = c - b - 1 /\ \A i \in 1..c - b - 1 : v[i] = s[b + i]
  <2>1. b + 1 \in Nat \ {0} /\ c - 1 \in Int /\ c - 1 <= Len(s)
    BY <1>1
  <2>2. /\ v \in Text /\ Len(v) = IF b + 1 <= c - 1 THEN c - 1 - (b + 1) + 1 ELSE 0
        /\ \A i \in 1..c - 1 - (b + 1) + 1 : v[i] = s[b + 1 + i - 1]
    BY <2>1, TextPart
  <2> HIDE DEF v
  <2> QED BY <1>1, <2>2
<1> HIDE DEF u, v, w
<1>5. /\ x \in Text /\ Len(x) = c - b /\ x[1] = s[b]
      /\ \A i \in 2..c - b : x[i] = s[b + i - 1]
  <2>1. x \in Text /\ Len(x) = c - b /\ x[1] = s[b] /\ \A i \in 2..c - b : x[i] = v[i - 1]
    BY <1>1, <1>4 DEF Text
  <2>2. \A i \in 2..c - b : i - 1 \in 1..c - b - 1 /\ b + (i - 1) = b + i - 1
    BY <1>1
  <2> HIDE DEF x
  <2> QED BY <1>4, <2>1, <2>2
<1> HIDE DEF x
<1>6. u \o x \in Text /\ Len(u \o x) = c - 1
  BY <1>1, <1>2, <1>5 DEF Text, u
<1>7. ASSUME NEW i \in 1..c - 1 PROVE (u \o x)[i] = s[i]
  <2>1. (u \o x)[i] = IF i <= b - 1 THEN u[i] ELSE x[i - (b - 1)]
    BY <1>1, <1>2, <1>5 DEF Text, u
  <2>2. /\ i <= b - 1 => i \in 1..b - 1
        /\ i = b => i - (b - 1) = 1 /\ ~(i <= b - 1)
        /\ i > b => i - (b - 1) \in 2..c - b /\ b + (i - (b - 1)) - 1 = i /\ ~(i <= b - 1)
        /\ i <= b - 1 \/ i = b \/ i > b
    BY <1>1
  <2> QED BY <1>2, <1>5, <2>1, <2>2 DEF u
<1>8. u \o x = w
  BY <1>3, <1>6, <1>7, SeqEqual DEF Text, w
<1> QED BY <1>8 DEF u, v, w, x

(* The texts with the commas before all but the first.                     *)
WithCommas(ss) == [k \in DOMAIN ss |-> IF k = 1 THEN ss[k] ELSE <<COMMA>> \o ss[k]]

(* Put together they are the text that has the commas back.                *)
LEMMA WithCommasTexts ==
    ASSUME NEW ss \in Texts
    PROVE  /\ <<COMMA>> \in Text
           /\ WithCommas(ss) \in Texts /\ Len(WithCommas(ss)) = Len(ss)
           /\ \A k \in 1..Len(ss) :
                WithCommas(ss)[k] = IF k = 1 THEN ss[k] ELSE <<COMMA>> \o ss[k]
           /\ Separated(ss) = FlattenSeq(WithCommas(ss))
           /\ Separated(ss) \in Text
<1>1. Len(ss) \in Nat /\ DOMAIN ss = 1..Len(ss) /\ \A k \in 1..Len(ss) : ss[k] \in Text
  BY DEF Texts
<1>2. <<COMMA>> \in Text
  BY DEF Text, Char, COMMA
<1>3. ASSUME NEW k \in 1..Len(ss)
      PROVE  (IF k = 1 THEN ss[k] ELSE <<COMMA>> \o ss[k]) \in Text
  <2>1. ss[k] \in Text
    BY <1>1
  <2> QED BY <1>2, <2>1, Behind
<1>4. WithCommas(ss) = [k \in 1..Len(ss) |-> IF k = 1 THEN ss[k] ELSE <<COMMA>> \o ss[k]]
  BY <1>1 DEF WithCommas
<1>5. WithCommas(ss) \in Texts /\ Len(WithCommas(ss)) = Len(ss)
  <2> DEFINE x(k) == IF k = 1 THEN ss[k] ELSE <<COMMA>> \o ss[k]
  <2>1. \A k \in 1..Len(ss) : x(k) \in Text
    BY <1>3
  <2>2. WithCommas(ss) = [k \in 1..Len(ss) |-> x(k)]
    BY <1>4
  <2> HIDE DEF x
  <2>3. [k \in 1..Len(ss) |-> x(k)] \in Texts /\ Len([k \in 1..Len(ss) |-> x(k)]) = Len(ss)
    BY <1>1, <2>1 DEF Texts
  <2> QED BY <2>2, <2>3
<1>6. Separated(ss) = FlattenSeq(WithCommas(ss))
  BY DEF Separated, WithCommas
<1>7. Separated(ss) \in Text
  BY <1>5, <1>6, FlattenConcat
<1> QED BY <1>2, <1>4, <1>5, <1>6, <1>7

(* With the commas put back the text is what it was.                       *)
LEMMA SeparatedAgain ==
    ASSUME NEW s \in Text, NEW t, NEW n, NEW bd, SplitAt(s, t, n, bd)
    PROVE  t \in Texts /\ Separated(t) = s
<1> DEFINE ss == WithCommas(t)
           S == {k \in 0..n : k # 0 => Flat(ss, k) = SubSeq(s, 1, bd[k] - 1)}
<1>1. /\ Len(s) \in Nat /\ n \in Nat \ {0} /\ Len(t) = n /\ DOMAIN t = 1..n
      /\ \A k \in 0..n : bd[k] \in 0..Len(s) + 1
      /\ bd[0] = 0 /\ bd[n] = Len(s) + 1
  BY DEF SplitAt, Text
<1>2. ASSUME NEW k \in 1..n
      PROVE  /\ bd[k - 1] < bd[k] /\ bd[k - 1] \in 0..Len(s) /\ bd[k] \in 1..Len(s) + 1
             /\ t[k] = SubSeq(s, bd[k - 1] + 1, bd[k] - 1)
             /\ k - 1 # 0 => s[bd[k - 1]] = COMMA /\ bd[k - 1] # 0
  <2>1. bd[k - 1] < bd[k] /\ t[k] = SubSeq(s, bd[k - 1] + 1, bd[k] - 1)
    BY DEF SplitAt
  <2>2. k - 1 \in 0..n /\ k \in 0..n
    BY <1>1
  <2>3. bd[k - 1] \in 0..Len(s) + 1 /\ bd[k] \in 0..Len(s) + 1
    BY <1>1, <2>2
  <2>4. k - 1 # 0 => s[bd[k - 1]] = COMMA /\ bd[k - 1] # 0
    <3>1. SUFFICES ASSUME k - 1 # 0 PROVE s[bd[k - 1]] = COMMA /\ bd[k - 1] # 0
      OBVIOUS
    <3>2. k - 1 \in 1..n - 1 /\ k - 1 \in 1..n /\ k - 1 - 1 \in 0..n
      BY <1>1, <3>1
    <3>3. bd[k - 1 - 1] < bd[k - 1] /\ bd[k - 1 - 1] \in 0..Len(s) + 1
      BY <1>1, <3>2 DEF SplitAt
    <3>4. s[bd[k - 1]] = COMMA
      BY <3>2 DEF SplitAt
    <3> QED BY <1>1, <2>3, <3>3, <3>4
  <2> QED BY <1>1, <2>1, <2>3, <2>4
<1>3. t \in Texts
  <2>1. ASSUME NEW k \in 1..n PROVE t[k] \in Text
    <3>1. bd[k - 1] \in 0..Len(s) /\ bd[k] \in 1..Len(s) + 1 /\ Len(s) \in Nat
      BY <1>1, <1>2
    <3>2. bd[k - 1] + 1 \in Nat \ {0} /\ bd[k] - 1 \in Int /\ bd[k] - 1 <= Len(s)
      BY <3>1
    <3> QED BY <1>2, <3>2, TextPart
  <2>2. t = [k \in 1..n |-> t[k]]
    BY DEF SplitAt
  <2> QED BY <1>1, <2>1, <2>2 DEF Texts
<1>4. /\ ss \in Texts /\ Len(ss) = n /\ Separated(t) = FlattenSeq(ss)
      /\ \A k \in 1..n : ss[k] = IF k = 1 THEN t[k] ELSE <<COMMA>> \o t[k]
  BY <1>1, <1>3, WithCommasTexts
<1> HIDE DEF ss
<1>5. 0 \in S
  BY <1>1
<1>6. ASSUME NEW k \in 0..n - 1, k \in S PROVE k + 1 \in S
  <2>1. k # 0 => Flat(ss, k) = SubSeq(s, 1, bd[k] - 1)
    BY <1>6
  <2> HIDE DEF S
  <2>2. Flat(ss, k + 1) = Flat(ss, k) \o ss[k + 1] /\ k + 1 \in 1..n /\ k + 1 - 1 = k
    BY <1>1, <1>4, FlatSteps
  <2>3. CASE k = 0
    <3>1. Flat(ss, 0) = <<>> /\ ss[1] = t[1] /\ t[1] \in Text
      BY <1>1, <1>3, <1>4, FlatSteps DEF Texts
    <3>2. t[1] = SubSeq(s, 1, bd[1] - 1)
      <4>1. 1 \in 1..n /\ 1 - 1 = 0 /\ 0 + 1 = 1
        BY <1>1
      <4>2. t[1] = SubSeq(s, bd[1 - 1] + 1, bd[1] - 1)
        BY <1>2, <4>1
      <4> QED BY <1>1, <4>1, <4>2
    <3>3. Flat(ss, 1) = SubSeq(s, 1, bd[1] - 1)
      <4>1. Flat(ss, 0 + 1) = Flat(ss, 0) \o ss[0 + 1] /\ 0 + 1 = 1
        BY <2>2, <2>3
      <4>2. <<>> \o t[1] = t[1]
        BY <3>1, Behind
      <4> QED BY <3>1, <3>2, <4>1, <4>2
    <3> QED BY <1>1, <2>3, <3>3 DEF S
  <2>4. CASE k # 0
    <3>1. /\ bd[k] \in 1..Len(s) /\ bd[k + 1] \in bd[k] + 1..Len(s) + 1
          /\ s[bd[k]] = COMMA /\ t[k + 1] = SubSeq(s, bd[k] + 1, bd[k + 1] - 1)
      <4>1. /\ bd[k] < bd[k + 1] /\ bd[k] \in 0..Len(s) /\ bd[k + 1] \in 1..Len(s) + 1
            /\ t[k + 1] = SubSeq(s, bd[k] + 1, bd[k + 1] - 1)
            /\ s[bd[k]] = COMMA /\ bd[k] # 0
        BY <1>2, <2>2, <2>4
      <4> QED BY <1>1, <4>1
    <3>2. ss[k + 1] = <<COMMA>> \o t[k + 1]
      BY <1>4, <2>2, <2>4
    <3>3. SubSeq(s, 1, bd[k] - 1) \o (<<s[bd[k]]>> \o SubSeq(s, bd[k] + 1, bd[k + 1] - 1))
            = SubSeq(s, 1, bd[k + 1] - 1)
      BY <3>1, JoinAt
    <3>4. Flat(ss, k) = SubSeq(s, 1, bd[k] - 1)
      BY <2>1, <2>4
    <3>5. Flat(ss, k + 1) = SubSeq(s, 1, bd[k + 1] - 1)
      BY <2>2, <3>1, <3>2, <3>3, <3>4, Zenon
    <3>6. k + 1 \in 0..n
      BY <1>1
    <3> QED BY <3>5, <3>6 DEF S
  <2> QED BY <2>3, <2>4
<1> HIDE DEF S
<1>7. \A k \in 0..n : k \in S
  BY <1>1, <1>5, <1>6, PositionInduction
<1>8. Flat(ss, n) = SubSeq(s, 1, bd[n] - 1)
  BY <1>1, <1>7 DEF S
<1>9. Flat(ss, n) = FlattenSeq(ss)
  BY <1>4, FlatSteps
<1>10. SubSeq(s, 1, bd[n] - 1) = s
  <2>1. bd[n] - 1 = Len(s)
    BY <1>1
  <2> QED BY <2>1, SubSeqFull DEF Text
<1> QED BY <1>3, <1>4, <1>8, <1>9, <1>10

(* The parameters of a text with commas between them are, but for blanks,  *)
(* that text; they hold no comma, and no blanks at their ends.             *)
LEMMA ParametersAreThere ==
    ASSUME NEW s \in Text
    PROVE  LET ps == parseGenericParameters(s)
           IN  /\ Separated(ps) \in Text
               /\ Without(Separated(ps), Blanks) = Without(s, Blanks)
               /\ \A k \in DOMAIN ps :
                    /\ \A i \in DOMAIN ps[k] : ps[k][i] # COMMA
                    /\ ps[k] # <<>> => ~isspace(ps[k][1]) /\ ~isspace(Last(ps[k]))
<1> DEFINE t == strsep(s)
           ps == parseGenericParameters(s)
<1>1. PICK n, bd : SplitAt(s, t, n, bd)
  BY Separators
<1>2. t \in Texts /\ Separated(t) = s
  BY <1>1, SeparatedAgain
<1>3. n \in Nat /\ Len(t) = n /\ DOMAIN t = 1..n /\ Len(s) \in Nat
  BY <1>1 DEF SplitAt, Text
<1>4. ps = [k \in 1..n |-> trimWhiteSpace(t[k])]
  BY <1>3 DEF parseGenericParameters
<1> HIDE DEF t, ps
<1>5. ASSUME NEW k \in 1..n
      PROVE  /\ t[k] \in Text /\ ps[k] \in Text
             /\ Without(ps[k], Blanks) = Without(t[k], Blanks)
             /\ \A i \in DOMAIN ps[k] : \E j \in DOMAIN t[k] : ps[k][i] = t[k][j]
             /\ ps[k] # <<>> => ~isspace(ps[k][1]) /\ ~isspace(Last(ps[k]))
  <2>1. t[k] \in Text /\ ps[k] = trimWhiteSpace(t[k])
    BY <1>2, <1>3, <1>4 DEF Texts
  <2> DEFINE x == t[k]
             u == trimWhiteSpace(x)
  <2>2. x \in Text
    BY <2>1
  <2> HIDE DEF x
  <2>3. /\ u \in Text /\ Without(u, Blanks) = Without(x, Blanks)
        /\ \A i \in DOMAIN u : \E j \in DOMAIN x : u[i] = x[j]
        /\ u # <<>> => ~isspace(u[1]) /\ ~isspace(Last(u))
    BY <2>2, Trimmed
  <2>4. u = ps[k] /\ x = t[k]
    BY <2>1 DEF x
  <2> HIDE DEF u
  <2> QED BY <2>2, <2>3, <2>4, Zenon
<1>6. ASSUME NEW k \in 1..n, NEW i \in DOMAIN ps[k] PROVE ps[k][i] # COMMA
  <2>1. PICK j \in DOMAIN t[k] : ps[k][i] = t[k][j]
    BY <1>5
  <2>2. /\ t[k] = SubSeq(s, bd[k - 1] + 1, bd[k] - 1) /\ bd[k - 1] < bd[k]
        /\ \A h \in bd[k - 1] + 1..bd[k] - 1 : s[h] # COMMA
        /\ bd[k - 1] \in 0..Len(s) + 1 /\ bd[k] \in 0..Len(s) + 1
    <3>1. k - 1 \in 0..n /\ k \in 0..n
      BY <1>3
    <3>2. bd \in [0..n -> 0..Len(s) + 1]
      BY <1>1 DEF SplitAt
    <3>3. /\ t[k] = SubSeq(s, bd[k - 1] + 1, bd[k] - 1) /\ bd[k - 1] < bd[k]
          /\ \A h \in bd[k - 1] + 1..bd[k] - 1 : s[h] # COMMA
      BY <1>1 DEF SplitAt
    <3> QED BY <3>1, <3>2, <3>3
  <2>3. /\ Len(t[k]) = IF bd[k - 1] + 1 <= bd[k] - 1 THEN bd[k] - 1 - (bd[k - 1] + 1) + 1 ELSE 0
        /\ \A h \in 1..bd[k] - 1 - (bd[k - 1] + 1) + 1 : t[k][h] = s[bd[k - 1] + 1 + h - 1]
    <3>1. bd[k - 1] + 1 \in Nat \ {0} /\ bd[k] - 1 \in Int /\ bd[k] - 1 <= Len(s)
      BY <1>3, <2>2
    <3> DEFINE u == SubSeq(s, bd[k - 1] + 1, bd[k] - 1)
    <3>2. /\ Len(u) = IF bd[k - 1] + 1 <= bd[k] - 1 THEN bd[k] - 1 - (bd[k - 1] + 1) + 1 ELSE 0
          /\ \A h \in 1..bd[k] - 1 - (bd[k - 1] + 1) + 1 : u[h] = s[bd[k - 1] + 1 + h - 1]
      BY <3>1, TextPart
    <3>3. t[k] = u
      BY <2>2
    <3> HIDE DEF u
    <3> QED BY <3>2, <3>3
  <2>4. DOMAIN t[k] = 1..Len(t[k]) /\ j \in 1..Len(t[k])
    BY <1>5 DEF Text
  <2>5. /\ j \in 1..bd[k] - 1 - (bd[k - 1] + 1) + 1
        /\ bd[k - 1] + 1 + j - 1 \in bd[k - 1] + 1..bd[k] - 1
    <3>1. bd[k - 1] \in Int /\ bd[k] \in Int
      BY <1>3, <2>2
    <3>2. Len(t[k]) = IF bd[k - 1] + 1 <= bd[k] - 1 THEN bd[k] - 1 - (bd[k - 1] + 1) + 1 ELSE 0
      BY <2>3
    <3>3. j \in 1..Len(t[k])
      BY <2>4
    <3> QED BY <3>1, <3>2, <3>3
  <2> QED BY <2>1, <2>2, <2>3, <2>5
<1>7. ps \in Texts /\ Len(ps) = n /\ DOMAIN ps = 1..n
  <2>1. ps = [k \in 1..n |-> ps[k]]
    BY <1>4
  <2> QED BY <1>3, <1>5, <2>1 DEF Texts
<1>8. Without(Separated(ps), Blanks) = Without(Separated(t), Blanks)
  <2>1. /\ WithCommas(ps) \in Texts /\ Len(WithCommas(ps)) = n
        /\ Separated(ps) = FlattenSeq(WithCommas(ps)) /\ <<COMMA>> \in Text
        /\ \A k \in 1..n : WithCommas(ps)[k] = IF k = 1 THEN ps[k] ELSE <<COMMA>> \o ps[k]
    BY <1>7, WithCommasTexts
  <2>2. /\ WithCommas(t) \in Texts /\ Len(WithCommas(t)) = n
        /\ Separated(t) = FlattenSeq(WithCommas(t))
        /\ \A k \in 1..n : WithCommas(t)[k] = IF k = 1 THEN t[k] ELSE <<COMMA>> \o t[k]
    BY <1>2, <1>3, WithCommasTexts
  <2>3. ASSUME NEW k \in 1..n
        PROVE  Without(WithCommas(ps)[k], Blanks) = Without(WithCommas(t)[k], Blanks)
    <3>1. CASE k = 1
      BY <1>5, <2>1, <2>2, <3>1
    <3>2. CASE k # 1
      <4>1. Without(<<COMMA>> \o ps[k], Blanks) = Without(<<COMMA>> \o t[k], Blanks)
        <5>1. t[k] \in Text /\ ps[k] \in Text /\ <<COMMA>> \in Text
              /\ Without(ps[k], Blanks) = Without(t[k], Blanks)
          BY <1>5, <2>1
        <5> QED BY <5>1, WithoutSame
      <4> QED BY <2>1, <2>2, <3>2, <4>1, Zenon
    <3> QED BY <3>1, <3>2
  <2>4. Without(FlattenSeq(WithCommas(ps)), Blanks) = Without(FlattenSeq(WithCommas(t)), Blanks)
    BY <2>1, <2>2, <2>3, WithoutFlatten
  <2> QED BY <2>1, <2>2, <2>4
<1>9. Separated(ps) \in Text
  BY <1>7, WithCommasTexts
<1> QED BY <1>2, <1>5, <1>6, <1>7, <1>8, <1>9 DEF ps

(* What is left of a text behind the word that ends at e and the delimiter *)
(* behind it, where anything is left.                                      *)
LEMMA RestOfText ==
    ASSUME NEW s \in Text, NEW e \in 1..Len(s)
    PROVE  LET r == SubSeq(s, e + 2, Len(s))
           IN  /\ r \in Text
               /\ Len(r) = IF e < Len(s) THEN Len(s) - e - 1 ELSE 0
               /\ \A i \in 1..Len(r) : r[i] = s[e + 1 + i]
<1> DEFINE r == SubSeq(s, e + 2, Len(s))
<1>1. Len(s) \in Nat
  BY DEF Text
<1>2. e + 2 \in Nat \ {0} /\ Len(s) \in Int /\ Len(s) <= Len(s)
  BY <1>1
<1>3. /\ r \in Text /\ Len(r) = IF e + 2 <= Len(s) THEN Len(s) - (e + 2) + 1 ELSE 0
      /\ \A i \in 1..Len(s) - (e + 2) + 1 : r[i] = s[e + 2 + i - 1]
  BY <1>2, TextPart
<1> HIDE DEF r
<1>4. Len(r) = IF e < Len(s) THEN Len(s) - e - 1 ELSE 0
  BY <1>1, <1>3
<1>5. ASSUME NEW i \in 1..Len(r) PROVE r[i] = s[e + 1 + i]
  <2>1. i \in 1..Len(s) - (e + 2) + 1 /\ e + 2 + i - 1 = e + 1 + i
    BY <1>1, <1>4
  <2> QED BY <1>3, <2>1
<1> QED BY <1>3, <1>4, <1>5 DEF r

(* A part of what is left is a part of the text.                           *)
LEMMA PartOfRest ==
    ASSUME NEW s \in Text, NEW e \in 1..Len(s), NEW r, r = SubSeq(s, e + 2, Len(s)),
           e < Len(s), NEW a \in Nat \ {0}, NEW b \in Int, b <= Len(r)
    PROVE  SubSeq(r, a, b) = SubSeq(s, e + 1 + a, e + 1 + b)
<1> DEFINE u == SubSeq(r, a, b)
           v == SubSeq(s, e + 1 + a, e + 1 + b)
<1>1. /\ r \in Text /\ Len(r) = Len(s) - e - 1 /\ Len(s) \in Nat
      /\ \A i \in 1..Len(r) : r[i] = s[e + 1 + i]
  BY RestOfText DEF Text
<1>2. /\ u \in Text /\ Len(u) = IF a <= b THEN b - a + 1 ELSE 0
      /\ \A i \in 1..b - a + 1 : u[i] = r[a + i - 1]
  BY <1>1, TextPart
<1>3. /\ v \in Text
      /\ Len(v) = IF e + 1 + a <= e + 1 + b THEN e + 1 + b - (e + 1 + a) + 1 ELSE 0
      /\ \A i \in 1..e + 1 + b - (e + 1 + a) + 1 : v[i] = s[e + 1 + a + i - 1]
  <2>1. e + 1 + a \in Nat \ {0} /\ e + 1 + b \in Int /\ e + 1 + b <= Len(s)
    BY <1>1
  <2> QED BY <2>1, TextPart
<1> HIDE DEF u, v
<1>4. Len(u) = Len(v) /\ Len(u) \in Nat
  BY <1>2, <1>3
<1>5. ASSUME NEW i \in 1..Len(u) PROVE u[i] = v[i]
  <2>1. /\ i \in 1..b - a + 1 /\ i \in 1..e + 1 + b - (e + 1 + a) + 1
        /\ a + i - 1 \in 1..Len(r) /\ e + 1 + (a + i - 1) = e + 1 + a + i - 1
    BY <1>1, <1>2
  <2> QED BY <1>1, <1>2, <1>3, <2>1
<1>6. u = v
  BY <1>2, <1>3, <1>4, <1>5, SeqEqual DEF Text
<1> QED BY <1>6 DEF u, v

(* A position of what is left is one of the text.                          *)
LEMMA PlaceBehind ==
    ASSUME NEW s \in Text, NEW e \in 1..Len(s), NEW r, r = SubSeq(s, e + 2, Len(s)),
           NEW a \in 1..Len(r), NEW q, q = e + 1 + a
    PROVE  /\ q \in 1..Len(s) /\ e < Len(s) /\ s[q] = r[a]
           /\ q < Len(s) => a < Len(r) /\ s[q + 1] = r[a + 1]
           /\ SubSeq(s, 1, q) = SubSeq(s, 1, e) \o (<<s[e + 1]>> \o SubSeq(r, 1, a))
           /\ SubSeq(r, a + 2, Len(r)) = SubSeq(s, q + 2, Len(s))
<1>1. /\ r \in Text /\ Len(r) = IF e < Len(s) THEN Len(s) - e - 1 ELSE 0
      /\ \A i \in 1..Len(r) : r[i] = s[e + 1 + i]
  BY RestOfText
<1>2. Len(s) \in Nat /\ Len(r) = Len(s) - e - 1 /\ e < Len(s) /\ Len(r) \in Nat
  BY <1>1 DEF Text
<1>3. q \in 1..Len(s) /\ s[q] = r[a]
  BY <1>1, <1>2
<1>4. q < Len(s) => a < Len(r) /\ s[q + 1] = r[a + 1]
  BY <1>1, <1>2
<1>5. SubSeq(r, 1, a) = SubSeq(s, e + 2, q)
  <2>1. 1 \in Nat \ {0} /\ a \in Int /\ a <= Len(r) /\ e + 1 + 1 = e + 2
    BY <1>2
  <2> QED BY <1>2, <2>1, PartOfRest
<1>6. SubSeq(s, 1, q) = SubSeq(s, 1, e) \o (<<s[e + 1]>> \o SubSeq(r, 1, a))
  <2>1. e + 1 \in 1..Len(s) /\ q + 1 \in e + 1 + 1..Len(s) + 1
    BY <1>2, <1>3
  <2>2. SubSeq(s, 1, e + 1 - 1) \o (<<s[e + 1]>> \o SubSeq(s, e + 1 + 1, q + 1 - 1))
          = SubSeq(s, 1, q + 1 - 1)
    BY <2>1, JoinAt
  <2>3. e + 1 - 1 = e /\ e + 1 + 1 = e + 2 /\ q + 1 - 1 = q
    BY <1>2, <1>3
  <2> QED BY <1>5, <2>2, <2>3
<1>7. SubSeq(r, a + 2, Len(r)) = SubSeq(s, q + 2, Len(s))
  <2> DEFINE n == Len(r)
  <2>0. n \in Nat /\ n = Len(s) - e - 1
    BY <1>2
  <2> HIDE DEF n
  <2>1. /\ a + 2 \in Nat \ {0} /\ n \in Int /\ n <= n
        /\ e + 1 + (a + 2) = q + 2 /\ e + 1 + n = Len(s)
    BY <1>2, <1>3, <2>0
  <2>2. SubSeq(r, a + 2, n) = SubSeq(s, e + 1 + (a + 2), e + 1 + n)
    BY <1>2, <2>1, PartOfRest DEF n
  <2> QED BY <2>1, <2>2, Zenon DEF n
<1> QED BY <1>2, <1>3, <1>4, <1>6, <1>7

-------------------------------------------------------------------------------
(* How much of a line can become parameters.                               *)

(* Behind a word is at least two characters less: the word's first and the *)
(* delimiter.                                                              *)
LEMMA RestIsShorter ==
    ASSUME NEW s \in Text, NEW delimiters, strtok(s, delimiters).token # NULL
    PROVE  LET r == strtok(s, delimiters).rest
           IN  r = <<>> \/ (r \in Text /\ Len(r) + 2 <= Len(s))
<1> DEFINE r == strtok(s, delimiters).rest
<1>1. \E e \in 1..Len(s) : r = SubSeq(s, e + 2, Len(s))
  <2>1. PICK b, e \in Nat : WordAt(s, delimiters, b, e) /\ r = SubSeq(s, e + 2, Len(s))
    BY FirstWord
  <2>2. e \in 1..Len(s)
    <3>1. Len(s) \in Nat /\ b \in 1..Len(s) /\ e \in b..Len(s)
      BY <2>1 DEF WordAt, Text
    <3> QED BY <3>1
  <2> QED BY <2>1, <2>2
<1> HIDE DEF r
<1>2. PICK e \in 1..Len(s) : r = SubSeq(s, e + 2, Len(s))
  BY <1>1
<1>3. r \in Text /\ Len(r) = IF e < Len(s) THEN Len(s) - e - 1 ELSE 0
  BY <1>2, RestOfText
<1>4. Len(s) \in Nat /\ (Len(r) = 0 => r = <<>>)
  BY <1>3, EmptySeq DEF Text
<1> QED BY <1>3, <1>4 DEF r

(* A text has at most one parameter more than characters.                  *)
LEMMA ParametersOfText ==
    ASSUME NEW s \in Text
    PROVE  /\ Len(parseGenericParameters(s)) \in Nat
           /\ DOMAIN parseGenericParameters(s) = 1..Len(parseGenericParameters(s))
           /\ Len(parseGenericParameters(s)) <= Len(s) + 1
<1> DEFINE bounds == {0, Len(s) + 1} \cup {i \in DOMAIN s : s[i] = COMMA}
           n == Cardinality(bounds) - 1
<1>1. Len(s) \in Nat /\ DOMAIN s = 1..Len(s)
  BY DEF Text
<1>2. IsFiniteSet(0..Len(s) + 1) /\ Cardinality(0..Len(s) + 1) = Len(s) + 2
  BY <1>1, FS_Interval
<1>3. bounds \in SUBSET (0..Len(s) + 1) /\ bounds # {}
  BY <1>1
<1> HIDE DEF bounds
<1>4. /\ IsFiniteSet(bounds) /\ Cardinality(bounds) \in Nat
      /\ Cardinality(bounds) <= Len(s) + 2 /\ Cardinality(bounds) # 0
  <2>1. IsFiniteSet(bounds) /\ Cardinality(bounds) <= Cardinality(0..Len(s) + 1)
    BY <1>2, <1>3, FS_Subset
  <2>2. Cardinality(bounds) \in Nat /\ Cardinality(bounds) # 0
    BY <1>3, <2>1, FS_CardinalityType, FS_EmptySet
  <2> QED BY <1>2, <2>1, <2>2
<1>5. n \in Nat /\ n <= Len(s) + 1
  BY <1>1, <1>4
<1>6. DOMAIN strsep(s) = 1..n
  BY DEF strsep, bounds
<1> HIDE DEF n
<1>7. DOMAIN parseGenericParameters(s) = 1..n
  BY <1>6 DEF parseGenericParameters
<1>8. Len(parseGenericParameters(s)) = n
  <2> DEFINE q == [k \in 1..n |-> trimWhiteSpace(strsep(s)[k])]
  <2>1. parseGenericParameters(s) = q
    BY <1>6 DEF parseGenericParameters
  <2>2. Len(q) = n
    BY <1>5
  <2> QED BY <2>1, <2>2
<1> QED BY <1>5, <1>7, <1>8

(* The string of .asciz lies between two quotes.                           *)
LEMMA StringOfText ==
    ASSUME NEW s \in Text, s # <<>>
    PROVE  LET p == parseAscizParameters(s).params
           IN  p = <<>> \/ (DOMAIN p = 1..1 /\ Len(p[1]) \in Nat /\ Len(p[1]) <= Len(s))
<1> DEFINE quotes == {i \in DOMAIN s : s[i] = QUOTE}
           closing == Min(quotes \ {1})
<1>1. Len(s) \in Nat /\ DOMAIN s = 1..Len(s) /\ 1 \in DOMAIN s
  BY DEF Text
<1>2. CASE s[1] # QUOTE \/ quotes = {1}
  BY <1>2 DEF parseAscizParameters
<1>3. CASE s[1] = QUOTE /\ quotes # {1}
  <2>1. closing \in quotes \ {1}
    <3>1. quotes \ {1} \in SUBSET (1..Len(s)) /\ quotes \ {1} # {}
      BY <1>1, <1>3
    <3> HIDE DEF quotes
    <3> QED BY <1>1, <3>1, MinOfPositions
  <2>2. closing \in 2..Len(s)
    <3>1. closing \in 1..Len(s) /\ closing # 1
      BY <1>1, <2>1
    <3> HIDE DEF closing
    <3> QED BY <1>1, <3>1
  <2>3. parseAscizParameters(s).params = <<SubSeq(s, 2, closing - 1)>>
    BY <1>3 DEF parseAscizParameters
  <2> HIDE DEF closing
  <2>4. Len(SubSeq(s, 2, closing - 1)) = closing - 2
    BY <1>1, <2>2 DEF Text
  <2> QED BY <1>1, <2>2, <2>3, <2>4
<1> QED BY <1>2, <1>3

(* The parameters of a line: as many as bytes fit, one of them a string    *)
(* if the word is .asciz.                                                  *)
ParamsFit(l, n) ==
    \/ l.params = <<>>
    \/ /\ l.head # NULL /\ Intern(l.head) = ".asciz"
       /\ DOMAIN l.params = 1..1
       /\ Len(l.params[1]) \in Nat /\ Len(l.params[1]) + 2 <= n
    \/ /\ l.head # NULL /\ Intern(l.head) # ".asciz"
       /\ DOMAIN l.params = 1..Len(l.params)
       /\ Len(l.params) \in Nat /\ Len(l.params) + 1 <= n

(* What strToLine makes of a line fits into the line.                      *)
LEMMA ParsedLineFits ==
    ASSUME NEW s \in Text PROVE ParamsFit(strToLine(s), Len(s))
<1> DEFINE word1 == strtok(s, WORD_DELIMITERS)
           labelled == Last(word1.token) = LABEL_SUFFIX
           label == IF labelled THEN Front(word1.token) ELSE NULL
           word == IF labelled THEN strtok(word1.rest, WORD_DELIMITERS) ELSE word1
           parsed == parseParameters(word.rest, word.token)
           empty == s = <<>> \/ s[1] = COMMENT \/ word1.token = NULL
<1>1. strToLine(s) =
        IF empty THEN EmptyLine
        ELSE IF word.token = NULL THEN ParsedLine(label, NULL, <<>>, GOOD)
        ELSE ParsedLine(label, word.token, parsed.params, parsed.error)
  BY DEF strToLine
<1>2. ASSUME ~empty, word.token # NULL
      PROVE  word.rest = <<>> \/ (word.rest \in Text /\ Len(word.rest) + 2 <= Len(s))
  <2>1. word1.rest = <<>> \/ (word1.rest \in Text /\ Len(word1.rest) + 2 <= Len(s))
    BY <1>2, RestIsShorter
  <2>2. CASE ~labelled
    BY <2>1, <2>2
  <2>3. CASE labelled
    <3>1. word = strtok(word1.rest, WORD_DELIMITERS)
      BY <2>3
    <3>2. word1.rest \in Text
      BY <2>1, EmptySeq DEF Text
    <3>3. word.rest = <<>> \/ (word.rest \in Text /\ Len(word.rest) + 2 <= Len(word1.rest))
      <4> HIDE DEF word1
      <4> QED BY <1>2, <3>1, <3>2, RestIsShorter
    <3> HIDE DEF word1, word
    <3>4. CASE word1.rest = <<>>
      BY <3>3, <3>4
    <3>5. CASE word1.rest # <<>>
      <4>1. Len(s) \in Nat /\ Len(word1.rest) \in Nat /\ Len(word1.rest) + 2 <= Len(s)
        BY <2>1, <3>2, <3>5 DEF Text
      <4>2. word.rest \in Text => Len(word.rest) \in Nat
        BY DEF Text
      <4> QED BY <3>3, <4>1, <4>2
    <3> QED BY <3>4, <3>5
  <2> QED BY <2>2, <2>3
<1> HIDE DEF word, word1, label, labelled
<1>3. CASE empty \/ word.token = NULL
  BY <1>1, <1>3 DEF ParamsFit, EmptyLine, ParsedLine
<1>4. CASE ~empty /\ word.token # NULL
  <2>1. strToLine(s).head = word.token /\ strToLine(s).params = parsed.params
    BY <1>1, <1>4 DEF ParsedLine
  <2>2. CASE word.rest = <<>>
    BY <2>1, <2>2 DEF ParamsFit, parseParameters
  <2>3. CASE word.rest # <<>> /\ Intern(word.token) = ".asciz"
    <3>1. word.rest \in Text /\ Len(word.rest) + 2 <= Len(s)
      BY <1>2, <1>4, <2>3
    <3>2. parsed.params = parseAscizParameters(word.rest).params
      BY <2>3 DEF parseParameters
    <3>3. \/ parsed.params = <<>>
          \/ /\ DOMAIN parsed.params = 1..1 /\ Len(parsed.params[1]) \in Nat
             /\ Len(parsed.params[1]) <= Len(word.rest)
      BY <2>3, <3>1, <3>2, StringOfText
    <3>4. Len(s) \in Nat /\ Len(word.rest) \in Nat
      BY <3>1 DEF Text
    <3> HIDE DEF parsed
    <3> QED BY <1>4, <2>1, <2>3, <3>1, <3>3, <3>4 DEF ParamsFit
  <2>4. CASE word.rest # <<>> /\ Intern(word.token) # ".asciz"
    <3>1. word.rest \in Text /\ Len(word.rest) + 2 <= Len(s)
      BY <1>2, <1>4, <2>4
    <3>2. parsed.params = parseGenericParameters(word.rest)
      BY <2>4 DEF parseParameters
    <3>3. /\ Len(parsed.params) \in Nat /\ Len(parsed.params) <= Len(word.rest) + 1
          /\ DOMAIN parsed.params = 1..Len(parsed.params)
      BY <3>1, <3>2, ParametersOfText
    <3>4. Len(s) \in Nat /\ Len(word.rest) \in Nat
      BY <3>1 DEF Text
    <3> HIDE DEF parsed
    <3> QED BY <1>4, <2>1, <2>4, <3>1, <3>3, <3>4 DEF ParamsFit
  <2> QED BY <2>2, <2>3, <2>4
<1> QED BY <1>3, <1>4

(* So the bytes of a line of at most LINE_LENGTH characters fit.           *)
LEMMA BytesFit ==
    ASSUME NEW s \in Text, Len(s) <= LINE_LENGTH, isLineDirective(LineOf(strToLine(s)))
    PROVE  LET l == LineOf(strToLine(s))
           IN  ByteBufferSize >=
                 IF l.head # ".asciz" THEN directiveTypeToSize(l.head) * Len(l.params)
                 ELSE IF l.params = <<>> THEN 0 ELSE Len(l.params[1].val) + 1
<1> DEFINE t == strToLine(s)
           l == LineOf(t)
<1>1. /\ ByteBufferSize = LINE_LENGTH * 4 /\ LINE_LENGTH \in Nat /\ Len(s) \in Nat
  BY ReaderAssumption DEF ByteBufferSize, WORD_SIZE, Text
<1>2. ParamsFit(t, Len(s))
  BY ParsedLineFits
<1>3. /\ l.head = IF t.head = NULL THEN NULL ELSE MnemonicOf(t.head)
      /\ l.params = [k \in DOMAIN t.params |->
                       IF t.head # NULL /\ Intern(t.head) = ".asciz"
                       THEN [kind |-> "str", val |-> t.params[k]]
                       ELSE OperandOf(t.params[k])]
  BY DEF LineOf
<1>4. l.head \in {".db", ".dh", ".dw", ".asciz"}
  BY DEF isLineDirective, DataDirectives
<1>5. t.head # NULL => l.head = Intern(t.head)
  BY <1>3, <1>4 DEF MnemonicOf
<1> HIDE DEF t, l
<1>6. l.head # ".asciz" => directiveTypeToSize(l.head) \in 1..4
  BY <1>4 DEF directiveTypeToSize
<1>7. CASE t.params = <<>>
  <2>1. l.params = <<>>
    BY <1>3, <1>7
  <2> QED BY <1>1, <1>6, <2>1 DEF t, l
<1>8. CASE /\ t.head # NULL /\ Intern(t.head) = ".asciz"
           /\ DOMAIN t.params = 1..1
           /\ Len(t.params[1]) \in Nat /\ Len(t.params[1]) + 2 <= Len(s)
  <2>1. l.head = ".asciz" /\ l.params[1].val = t.params[1]
    BY <1>3, <1>5, <1>8
  <2>2. Len(l.params[1].val) + 1 <= ByteBufferSize /\ 0 <= ByteBufferSize
    BY <1>1, <1>8, <2>1
  <2> QED BY <2>1, <2>2 DEF t, l
<1>9. CASE /\ t.head # NULL /\ Intern(t.head) # ".asciz"
           /\ DOMAIN t.params = 1..Len(t.params)
           /\ Len(t.params) \in Nat /\ Len(t.params) + 1 <= Len(s)
  <2>1. l.head # ".asciz" /\ directiveTypeToSize(l.head) \in {1, 2, 4}
    BY <1>4, <1>5, <1>9 DEF directiveTypeToSize
  <2>2. Len(l.params) = Len(t.params)
    <3> DEFINE n == Len(t.params)
    <3> DEFINE q == [k \in 1..n |-> IF t.head # NULL /\ Intern(t.head) = ".asciz"
                                   THEN [kind |-> "str", val |-> t.params[k]]
                                   ELSE OperandOf(t.params[k])]
    <3>1. l.params = q
      BY <1>3, <1>9
    <3>2. n \in Nat
      BY <1>9
    <3> HIDE DEF n
    <3>3. Len(q) = n
      BY <3>2
    <3> QED BY <3>1, <3>3 DEF n
  <2>3. directiveTypeToSize(l.head) * Len(l.params) <= ByteBufferSize
    <3>1. Len(l.params) \in Nat /\ Len(l.params) <= LINE_LENGTH
      BY <1>1, <1>9, <2>2
    <3> QED BY <1>1, <2>1, <3>1
  <2>4. directiveTypeToSize(l.head) * Len(l.params) \in Nat
    BY <1>9, <2>1, <2>2
  <2> QED BY <1>1, <2>1, <2>3, <2>4 DEF t, l
<1> QED BY <1>2, <1>7, <1>8, <1>9 DEF ParamsFit

(* The line the loop body works on is a text.                              *)
HandedInv == lineNumber > 1 => line \in Text /\ Len(line) <= LINE_LENGTH

(* So it is in every state.                                                *)
LEMMA HandedLines == Spec => []HandedInv
<1>1. Init => HandedInv
  BY DEF Init, HandedInv
<1>2. ReaderTypeOK /\ HandedInv /\ [Reading \/ Rewind \/ Over]_vars => HandedInv'
  <2> SUFFICES ASSUME ReaderTypeOK, HandedInv, [Reading \/ Rewind \/ Over]_vars
               PROVE  HandedInv'
    OBVIOUS
  <2> USE DEF HandedInv
  <2>1. CASE HandOver
    BY <2>1 DEF HandOver, ReaderTypeOK, Text
  <2>2. CASE Rewind
    BY <2>2 DEF Rewind
  <2>3. CASE \/ BeginLine \/ Fill \/ BufferFull \/ Shred \/ LineEnd \/ EndOfFile
             \/ UNCHANGED vars
    BY <2>3 DEF BeginLine, Fill, BufferFull, Shred, LineEnd, EndOfFile, vars
  <2> QED BY <2>1, <2>2, <2>3 DEF Reading, Over
<1> QED BY <1>1, <1>2, ReaderTypes, PTL DEF Spec

(* The buffer directiveToBytes collects the bytes of a line in suffices,   *)
(* for every file and every length of a line.                              *)
THEOREM ByteBufferIsLargeEnough == Spec => []ByteBufferSuffices
<1>1. HandedInv => ByteBufferSuffices
  BY BytesFit DEF ByteBufferSuffices, HandedInv, JustParsed, Read, lineParsed
<1> QED BY <1>1, HandedLines, PTL

-------------------------------------------------------------------------------
(* What kind of line the passes are handed.                                *)

IsAsciz(t) == t.head # NULL /\ Intern(t.head) = ".asciz"

(* The passes see an .asciz line as such.                                  *)
LEMMA AscizIsRead ==
    ASSUME NEW t PROVE LineOf(t).head = ".asciz" <=> IsAsciz(t)
<1>1. LineOf(t).head = IF t.head = NULL THEN NULL ELSE MnemonicOf(t.head)
  BY DEF LineOf
<1>2. ".asciz" \in KnownMnemonics
  BY DEF KnownMnemonics, DataDirectives
<1> QED BY <1>1, <1>2, MnemonicAssumption DEF MnemonicOf, IsAsciz

Shaped(t) ==
    /\ t.head = NULL => t.params = <<>>
    /\ t.error # GOOD => IsAsciz(t)
    /\ IsAsciz(t) /\ t.error = GOOD => t.params = <<>> \/ \E p : t.params = <<p>>

(* Only the word .asciz has a string or an error, and it has at most one.  *)
LEMMA ParsedLineIsWellFormed ==
    ASSUME NEW s PROVE WellFormed(LineOf(strToLine(s)))
<1> DEFINE t == strToLine(s)
           l == LineOf(t)
<1>1. Shaped(t)
  <2>1. \/ t = EmptyLine
        \/ \E label : t = ParsedLine(label, NULL, <<>>, GOOD)
        \/ \E label, word, rest :
             LET parsed == parseParameters(rest, word)
             IN  /\ word # NULL
                 /\ t = ParsedLine(label, word, parsed.params, parsed.error)
    BY Zenon DEF strToLine
  <2>2. CASE t = EmptyLine \/ \E label : t = ParsedLine(label, NULL, <<>>, GOOD)
    BY <2>2 DEF EmptyLine, ParsedLine, Shaped
  <2>3. ASSUME NEW label, NEW word, NEW rest, word # NULL,
               t = ParsedLine(label, word, parseParameters(rest, word).params,
                              parseParameters(rest, word).error)
        PROVE  Shaped(t)
    <3>1. /\ t.head = word /\ t.params = parseParameters(rest, word).params
          /\ t.error = parseParameters(rest, word).error
      BY <2>3 DEF ParsedLine
    <3>2. CASE Intern(word) # ".asciz" \/ rest = <<>>
      BY <2>3, <3>1, <3>2 DEF parseParameters, Shaped, IsAsciz
    <3>3. CASE Intern(word) = ".asciz" /\ rest # <<>>
      <4>1. parseParameters(rest, word) = parseAscizParameters(rest)
        BY <3>3 DEF parseParameters
      <4>2. LET r == parseAscizParameters(rest)
            IN  r.params = <<>> \/ \E p : r.params = <<p>>
        BY DEF parseAscizParameters
      <4> QED BY <2>3, <3>1, <3>3, <4>1, <4>2 DEF Shaped, IsAsciz
    <3> QED BY <3>2, <3>3
  <2> QED BY <2>1, <2>2, <2>3
<1>2. /\ l.head = IF t.head = NULL THEN NULL ELSE MnemonicOf(t.head)
      /\ l.params = [k \in DOMAIN t.params |->
                       IF IsAsciz(t) THEN [kind |-> "str", val |-> t.params[k]]
                       ELSE OperandOf(t.params[k])]
      /\ l.error = t.error
  BY DEF LineOf, IsAsciz
<1> HIDE DEF t, l
<1>3. /\ l.head = NULL <=> t.head = NULL
      /\ l.head = ".asciz" <=> IsAsciz(t)
  <2>1. l.head = NULL <=> t.head = NULL
    BY <1>2, MnemonicAssumption DEF MnemonicOf
  <2> QED BY <2>1, AscizIsRead DEF l
<1>4. t.params = <<>> => l.params = <<>>
  BY <1>2
<1>5. IsAsciz(t) /\ (\E p : t.params = <<p>>) => Len(l.params) = 1 /\ l.params[1].kind = "str"
  <2> SUFFICES ASSUME IsAsciz(t), NEW p, t.params = <<p>>
               PROVE  Len(l.params) = 1 /\ l.params[1].kind = "str"
    OBVIOUS
  <2>1. l.params = [k \in 1..1 |-> [kind |-> "str", val |-> t.params[k]]]
    BY <1>2
  <2> QED BY <2>1
<1>6. ~IsAsciz(t) => \A k \in DOMAIN l.params : l.params[k].kind # "str"
  <2>1. \A o : OperandOf(o).kind # "str"
    BY DEF OperandOf
  <2> QED BY <1>2, <2>1
<1>7. WellFormed(l)
  BY <1>1, <1>2, <1>3, <1>4, <1>5, <1>6 DEF WellFormed, Shaped
<1> QED BY <1>7 DEF t, l

(* The lines of every file are lines the passes are modelled for.          *)
THEOREM ReaderHandsOverWellFormed == Spec => []HandsOverWellFormed
<1>1. HandsOverWellFormed
  BY ParsedLineIsWellFormed DEF HandsOverWellFormed, Read, lineParsed
<1> QED BY <1>1, PTL

-------------------------------------------------------------------------------
(* What a line that is parsed keeps of the text.                           *)

(* A text is not NULL, and it is all but its last character and that one.  *)
LEMMA LastCharacter ==
    ASSUME NEW w \in Text
    PROVE  /\ w # NULL
           /\ w # <<>> => Front(w) \in Text /\ Front(w) # NULL /\ Append(Front(w), Last(w)) = w
<1>1. \A x \in Text : x # NULL
  <2>1. \A x \in Text : x \in Seq(Char)
    BY DEF Text
  <2> QED BY <2>1, NullAssumption
<1>2. ASSUME w # <<>> PROVE Front(w) \in Text /\ Append(Front(w), Last(w)) = w
  BY <1>2 DEF Front, Last, Text
<1> QED BY <1>1, <1>2

(* The characters of a word.                                               *)
Word(t) == t \in Text /\ \A i \in DOMAIN t : t[i] \notin WORD_DELIMITERS

(* A line's label as it stands in the text.                                *)
LabelText(l) == IF l.label = NULL THEN <<>> ELSE Append(l.label, LABEL_SUFFIX)

(* The word of line l ends at q in the text s it was parsed from.          *)
HeadAt(s, l, q) ==
    /\ q \in 1..Len(s) /\ s[q] \notin WORD_DELIMITERS
    /\ q < Len(s) => s[q + 1] \in WORD_DELIMITERS
    /\ Word(l.head)
    /\ Without(SubSeq(s, 1, q), WORD_DELIMITERS) = LabelText(l) \o l.head
    /\ LET parsed == parseParameters(SubSeq(s, q + 2, Len(s)), l.head)
       IN  l.params = parsed.params /\ l.error = parsed.error

(* The first word of a text as it stands there.                            *)
LEMMA FirstWordStands ==
    ASSUME NEW s \in Text, strtok(s, WORD_DELIMITERS).token # NULL
    PROVE  LET t == strtok(s, WORD_DELIMITERS)
           IN  /\ Word(t.token) /\ t.token # <<>>
               /\ \E e \in 1..Len(s) :
                    /\ s[e] \notin WORD_DELIMITERS
                    /\ e < Len(s) => s[e + 1] \in WORD_DELIMITERS
                    /\ t.token[Len(t.token)] = s[e]
                    /\ Without(SubSeq(s, 1, e), WORD_DELIMITERS) = t.token
                    /\ t.rest = SubSeq(s, e + 2, Len(s))
<1> DEFINE t == strtok(s, WORD_DELIMITERS)
<1>1. PICK b, e \in Nat : /\ WordAt(s, WORD_DELIMITERS, b, e)
                          /\ t.token = SubSeq(s, b, e) /\ t.rest = SubSeq(s, e + 2, Len(s))
  BY FirstWord
<1> HIDE DEF t
<1>2. /\ SubSeq(s, b, e) \in Text /\ Len(SubSeq(s, b, e)) = e - b + 1
      /\ \A i \in DOMAIN SubSeq(s, b, e) : SubSeq(s, b, e)[i] \notin WORD_DELIMITERS
      /\ Without(SubSeq(s, 1, e), WORD_DELIMITERS) = SubSeq(s, b, e)
  <2>1. \A x, y \in Nat : WordAt(s, WORD_DELIMITERS, x, y) =>
          /\ SubSeq(s, x, y) \in Text /\ Len(SubSeq(s, x, y)) = y - x + 1
          /\ \A i \in DOMAIN SubSeq(s, x, y) : SubSeq(s, x, y)[i] \notin WORD_DELIMITERS
          /\ Without(SubSeq(s, 1, y), WORD_DELIMITERS) = SubSeq(s, x, y)
    BY WithoutDelimiters
  <2> QED BY <1>1, <2>1
<1>3. /\ Len(s) \in Nat /\ b \in 1..Len(s) /\ e \in b..Len(s) /\ s[e] \notin WORD_DELIMITERS
      /\ e < Len(s) => s[e + 1] \in WORD_DELIMITERS
  BY <1>1 DEF WordAt, Text
<1>4. SubSeq(s, b, e)[e - b + 1] = s[e] /\ SubSeq(s, b, e) # <<>>
  BY <1>2, <1>3 DEF Text
<1>5. e \in 1..Len(s)
  BY <1>3
<1> QED BY <1>1, <1>2, <1>3, <1>4, <1>5 DEF Word, t

(* A text without a word.                                                  *)
LEMMA NoWord ==
    ASSUME NEW s \in Text, strtok(s, WORD_DELIMITERS).token = NULL
    PROVE  \A i \in DOMAIN s : s[i] \in WORD_DELIMITERS
<1> DEFINE t == strtok(s, WORD_DELIMITERS)
<1>1. ASSUME NEW b \in Nat, NEW e \in Nat, WordAt(s, WORD_DELIMITERS, b, e),
             t.token = SubSeq(s, b, e)
      PROVE  FALSE
  BY <1>1, WithoutDelimiters, LastCharacter
<1> QED BY <1>1, FirstWord

(* Where strToLine finds the words of a line.                              *)
LEMMA HeadPlace ==
    ASSUME NEW s \in Text
    PROVE  LET l == strToLine(s)
           IN  \/ s # <<>> /\ s[1] = COMMENT /\ l = EmptyLine
               \/ /\ l.head = NULL /\ l.params = <<>> /\ l.error = GOOD
                  /\ Word(LabelText(l)) /\ Without(s, WORD_DELIMITERS) = LabelText(l)
               \/ l.head # NULL /\ Word(LabelText(l)) /\ \E q : HeadAt(s, l, q)
<1> DEFINE l == strToLine(s)
           word1 == strtok(s, WORD_DELIMITERS)
           labelled == Last(word1.token) = LABEL_SUFFIX
           word2 == strtok(word1.rest, WORD_DELIMITERS)
           Parsed(word) == parseParameters(word.rest, word.token)
<1>1. l = IF s = <<>> \/ s[1] = COMMENT \/ word1.token = NULL THEN EmptyLine
          ELSE IF labelled
               THEN IF word2.token = NULL
                    THEN ParsedLine(Front(word1.token), NULL, <<>>, GOOD)
                    ELSE ParsedLine(Front(word1.token), word2.token,
                                    Parsed(word2).params, Parsed(word2).error)
               ELSE ParsedLine(NULL, word1.token, Parsed(word1).params, Parsed(word1).error)
  BY DEF strToLine
<1>2. word1.token # NULL =>
        /\ Word(word1.token) /\ word1.token # <<>>
        /\ \E e \in 1..Len(s) :
             /\ s[e] \notin WORD_DELIMITERS
             /\ e < Len(s) => s[e + 1] \in WORD_DELIMITERS
             /\ Without(SubSeq(s, 1, e), WORD_DELIMITERS) = word1.token
             /\ word1.rest = SubSeq(s, e + 2, Len(s))
  BY FirstWordStands
<1>3. word1.token = NULL => \A i \in DOMAIN s : s[i] \in WORD_DELIMITERS
  BY NoWord
<1>4. Len(s) \in Nat /\ DOMAIN s = 1..Len(s)
  BY DEF Text
<1>5. <<>> \in Text /\ Word(<<>>)
  BY EmptySeq DEF Text, Word
<1> HIDE DEF l, word1, word2, labelled
<1>6. CASE s # <<>> /\ s[1] = COMMENT
  BY <1>1, <1>6 DEF l
<1>7. CASE s = <<>> \/ word1.token = NULL
  <2>1. l = EmptyLine
    BY <1>1, <1>7
  <2>2. l.head = NULL /\ l.params = <<>> /\ l.error = GOOD /\ LabelText(l) = <<>>
    BY <2>1 DEF EmptyLine, ParsedLine, LabelText
  <2>3. \A i \in DOMAIN s : s[i] \in WORD_DELIMITERS
    BY <1>3, <1>7
  <2>4. Without(s, WORD_DELIMITERS) = <<>>
    BY <2>3, WithoutAll
  <2> QED BY <1>5, <2>2, <2>4 DEF l
<1>8. CASE /\ s # <<>> /\ s[1] # COMMENT /\ word1.token # NULL
           /\ ~labelled
  <2>1. l = ParsedLine(NULL, word1.token, Parsed(word1).params, Parsed(word1).error)
    BY <1>1, <1>8
  <2>2. /\ l.label = NULL /\ l.head = word1.token
        /\ l.params = Parsed(word1).params /\ l.error = Parsed(word1).error
    BY <2>1 DEF ParsedLine
  <2>3. LabelText(l) = <<>>
    BY <2>2 DEF LabelText
  <2>4. PICK e \in 1..Len(s) :
             /\ s[e] \notin WORD_DELIMITERS
             /\ e < Len(s) => s[e + 1] \in WORD_DELIMITERS
             /\ Without(SubSeq(s, 1, e), WORD_DELIMITERS) = word1.token
             /\ word1.rest = SubSeq(s, e + 2, Len(s))
    BY <1>2, <1>8
  <2>5. Word(word1.token) /\ <<>> \o word1.token = word1.token
    BY <1>2, <1>8, Behind DEF Word
  <2>6. HeadAt(s, l, e)
    BY <2>2, <2>3, <2>4, <2>5 DEF HeadAt
  <2> QED BY <1>5, <1>8, <2>2, <2>3, <2>6 DEF l
<1>9. CASE /\ s # <<>> /\ s[1] # COMMENT /\ word1.token # NULL
           /\ labelled
  <2>1. PICK e \in 1..Len(s) :
             /\ s[e] \notin WORD_DELIMITERS
             /\ e < Len(s) => s[e + 1] \in WORD_DELIMITERS
             /\ Without(SubSeq(s, 1, e), WORD_DELIMITERS) = word1.token
             /\ word1.rest = SubSeq(s, e + 2, Len(s))
    BY <1>2, <1>9
  <2>2. Word(word1.token) /\ word1.token # <<>>
    BY <1>2, <1>9
  <2>3. /\ Front(word1.token) # NULL
        /\ Append(Front(word1.token), LABEL_SUFFIX) = word1.token
    BY <1>9, <2>2, LastCharacter DEF labelled, Word
  <2>4. /\ word1.rest \in Text
        /\ Len(word1.rest) = IF e < Len(s) THEN Len(s) - e - 1 ELSE 0
        /\ \A i \in 1..Len(word1.rest) : word1.rest[i] = s[e + 1 + i]
    BY <2>1, RestOfText
  <2>5. l.label = Front(word1.token) => LabelText(l) = word1.token
    BY <2>3 DEF LabelText
  <2>6. CASE word2.token = NULL
    <3>1. l = ParsedLine(Front(word1.token), NULL, <<>>, GOOD)
      BY <1>1, <1>9, <2>6
    <3>2. l.head = NULL /\ l.params = <<>> /\ l.error = GOOD /\ LabelText(l) = word1.token
      BY <2>5, <3>1 DEF ParsedLine
    <3>3. \A i \in DOMAIN word1.rest : word1.rest[i] \in WORD_DELIMITERS
      BY <2>4, <2>6, NoWord DEF word2
    <3> DEFINE u == SubSeq(s, 1, e)
               v == SubSeq(s, e + 1, Len(s))
    <3>4. /\ u \in Text /\ v \in Text /\ u \o v = s
          /\ Len(v) = Len(s) - e /\ \A i \in 1..Len(s) - e : v[i] = s[e + i]
      <4>1. e \in 0..Len(s)
        BY <1>4
      <4> QED BY <4>1, TextSplit
    <3>5. Without(u, WORD_DELIMITERS) = word1.token
      BY <2>1
    <3> HIDE DEF u, v
    <3>6. \A i \in DOMAIN v : v[i] \in WORD_DELIMITERS
      <4>1. DOMAIN v = 1..Len(s) - e /\ DOMAIN word1.rest = 1..Len(word1.rest)
        BY <2>4, <3>4 DEF Text
      <4>2. ASSUME NEW i \in 1..Len(s) - e PROVE s[e + i] \in WORD_DELIMITERS
        <5>1. CASE i = 1
          BY <1>4, <2>1, <5>1
        <5>2. CASE i # 1
          <6>1. i - 1 \in 1..Len(word1.rest) /\ e + 1 + (i - 1) = e + i
            BY <1>4, <2>4, <5>2
          <6> QED BY <2>4, <3>3, <4>1, <6>1
        <5> QED BY <5>1, <5>2
      <4> QED BY <3>4, <4>1, <4>2
    <3>7. Without(v, WORD_DELIMITERS) = <<>>
      BY <3>4, <3>6, WithoutAll
    <3>8. Without(s, WORD_DELIMITERS) = word1.token
      <4>1. Without(u \o v, WORD_DELIMITERS)
              = Without(u, WORD_DELIMITERS) \o Without(v, WORD_DELIMITERS)
        BY <3>4, WithoutConcat
      <4>2. word1.token \o <<>> = word1.token
        BY <2>2, Behind DEF Word
      <4> QED BY <3>4, <3>5, <3>7, <4>1, <4>2
    <3> QED BY <2>2, <3>2, <3>8 DEF l
  <2>7. CASE word2.token # NULL
    <3>1. l = ParsedLine(Front(word1.token), word2.token,
                         Parsed(word2).params, Parsed(word2).error)
      BY <1>1, <1>9, <2>7
    <3>2. /\ l.head = word2.token /\ LabelText(l) = word1.token
          /\ l.params = Parsed(word2).params /\ l.error = Parsed(word2).error
      BY <2>5, <3>1 DEF ParsedLine
    <3> DEFINE r == word1.rest
    <3>3. Word(word2.token)
      BY <2>4, <2>7, FirstWordStands DEF word2
    <3>4. PICK a \in 1..Len(r) :
             /\ r[a] \notin WORD_DELIMITERS
             /\ a < Len(r) => r[a + 1] \in WORD_DELIMITERS
             /\ Without(SubSeq(r, 1, a), WORD_DELIMITERS) = word2.token
             /\ word2.rest = SubSeq(r, a + 2, Len(r))
      BY <2>4, <2>7, FirstWordStands DEF word2
    <3> DEFINE q == e + 1 + a
    <3>5. r = SubSeq(s, e + 2, Len(s)) /\ r \in Text
      BY <2>1, <2>4
    <3> HIDE DEF r
    <3>6. /\ q \in 1..Len(s) /\ e < Len(s) /\ s[q] = r[a]
          /\ q < Len(s) => a < Len(r) /\ s[q + 1] = r[a + 1]
          /\ SubSeq(s, 1, q) = SubSeq(s, 1, e) \o (<<s[e + 1]>> \o SubSeq(r, 1, a))
          /\ SubSeq(r, a + 2, Len(r)) = SubSeq(s, q + 2, Len(s))
      BY <3>5, PlaceBehind
    <3> HIDE DEF q
    <3>7. Without(SubSeq(s, 1, q), WORD_DELIMITERS) = word1.token \o word2.token
      <4> DEFINE u == SubSeq(s, 1, e)
                 v == SubSeq(r, 1, a)
                 w == <<s[e + 1]>>
      <4>1. u \in Text /\ v \in Text
        <5>1. e \in 0..Len(s) /\ a \in 0..Len(r)
          BY <1>4, <3>5 DEF Text
        <5> QED BY <3>5, <5>1, TextSplit
      <4>2. w \in Text /\ \A i \in DOMAIN w : w[i] \in WORD_DELIMITERS
        <5>1. e + 1 \in 1..Len(s)
          BY <1>4, <3>6
        <5>2. s[e + 1] \in Char \ {0}
          BY <5>1 DEF Text
        <5> QED BY <2>1, <3>6, <5>2 DEF Text
      <4>3. SubSeq(s, 1, q) = u \o (w \o v)
        BY <3>6
      <4>4. Without(u, WORD_DELIMITERS) = word1.token /\ Without(v, WORD_DELIMITERS) = word2.token
        BY <2>1, <3>4
      <4> HIDE DEF u, v, w
      <4>5. Without(w, WORD_DELIMITERS) = <<>>
        BY <4>2, WithoutAll
      <4>6. Without(w \o v, WORD_DELIMITERS)
              = Without(w, WORD_DELIMITERS) \o Without(v, WORD_DELIMITERS)
        BY <4>1, <4>2, WithoutConcat
      <4>7. <<>> \o word2.token = word2.token
        BY <3>3, Behind DEF Word
      <4>8. w \o v \in Text
        BY <4>1, <4>2, Behind
      <4>9. Without(u \o (w \o v), WORD_DELIMITERS)
              = Without(u, WORD_DELIMITERS) \o Without(w \o v, WORD_DELIMITERS)
        BY <4>1, <4>8, WithoutConcat
      <4> QED BY <4>3, <4>4, <4>5, <4>6, <4>7, <4>9, Zenon
    <3>8. q < Len(s) => s[q + 1] \in WORD_DELIMITERS
      BY <3>4, <3>6
    <3>9. HeadAt(s, l, q)
      BY <3>2, <3>3, <3>4, <3>6, <3>7, <3>8 DEF HeadAt
    <3> QED BY <2>2, <2>7, <3>2, <3>9 DEF l
  <2> QED BY <2>6, <2>7
<1> QED BY <1>6, <1>7, <1>8, <1>9

(* A text is its beginning up to q, what is behind the next character, and *)
(* that character, which may be taken away.                                *)
LEMMA WithoutBetween ==
    ASSUME NEW s \in Text, NEW q \in 1..Len(s), NEW chars, q < Len(s) => s[q + 1] \in chars
    PROVE  /\ SubSeq(s, 1, q) \in Text /\ SubSeq(s, q + 2, Len(s)) \in Text
           /\ Without(s, chars) = Without(SubSeq(s, 1, q), chars)
                                    \o Without(SubSeq(s, q + 2, Len(s)), chars)
<1> DEFINE u == SubSeq(s, 1, q)
           r == SubSeq(s, q + 2, Len(s))
<1>1. Len(s) \in Nat /\ q \in 0..Len(s)
  BY DEF Text
<1>2. u \in Text
  BY <1>1, TextSplit
<1>3. r \in Text /\ Len(r) = IF q < Len(s) THEN Len(s) - q - 1 ELSE 0
  BY RestOfText
<1>4. Without(u, chars) \in Text /\ Without(r, chars) \in Text
  BY <1>2, <1>3, KeptTexts
<1>5. CASE q = Len(s)
  <2>1. s = u
    BY <1>5, SubSeqFull DEF Text
  <2> HIDE DEF u, r
  <2>2. r = <<>>
    BY <1>3, <1>5, EmptySeq DEF Text
  <2>3. Without(r, chars) = <<>>
    BY <1>3, <2>2, WithoutAll
  <2>4. Without(u, chars) \o <<>> = Without(u, chars)
    BY <1>4, Behind
  <2> QED BY <1>2, <1>3, <2>1, <2>3, <2>4 DEF u, r
<1>6. CASE q # Len(s)
  <2> DEFINE w == <<s[q + 1]>>
  <2>1. q + 1 \in 1..Len(s) /\ Len(s) + 1 \in q + 1 + 1..Len(s) + 1 /\ q < Len(s)
    BY <1>1, <1>6
  <2>2. SubSeq(s, 1, q + 1 - 1) \o (<<s[q + 1]>> \o SubSeq(s, q + 1 + 1, Len(s) + 1 - 1))
          = SubSeq(s, 1, Len(s) + 1 - 1)
    BY <2>1, JoinAt
  <2>3. q + 1 - 1 = q /\ q + 1 + 1 = q + 2 /\ Len(s) + 1 - 1 = Len(s)
    BY <1>1
  <2>4. SubSeq(s, 1, Len(s)) = s
    BY SubSeqFull DEF Text
  <2>5. u \o (w \o r) = s
    BY <2>2, <2>3, <2>4
  <2>6. w \in Text /\ \A i \in DOMAIN w : w[i] \in chars
    <3>1. s[q + 1] \in Char \ {0}
      BY <2>1 DEF Text
    <3> QED BY <2>1, <3>1 DEF Text
  <2> HIDE DEF u, r, w
  <2>7. Without(w, chars) = <<>>
    BY <2>6, WithoutAll
  <2>8. Without(w \o r, chars) = Without(w, chars) \o Without(r, chars)
    BY <1>3, <2>6, WithoutConcat
  <2>9. <<>> \o Without(r, chars) = Without(r, chars)
    BY <1>4, Behind
  <2>10. w \o r \in Text
    BY <1>3, <2>6, Behind
  <2>11. Without(u \o (w \o r), chars) = Without(u, chars) \o Without(w \o r, chars)
    BY <1>2, <2>10, WithoutConcat
  <2>12. Without(s, chars) = Without(u, chars) \o Without(r, chars)
    BY <2>5, <2>7, <2>8, <2>9, <2>11, Zenon
  <2> QED BY <1>2, <1>3, <2>12 DEF u, r
<1> QED BY <1>5, <1>6

(* What delimits words is blank.                                           *)
LEMMA DelimitersAreBlank == WORD_DELIMITERS \subseteq Blanks
BY DEF WORD_DELIMITERS, Blanks, isspace, Char, TAB

(* No parameters, no text.                                                 *)
LEMMA NothingSeparated == Separated(<<>>) = <<>>
<1>1. [k \in DOMAIN <<>> |-> IF k = 1 THEN <<>>[k] ELSE <<COMMA>> \o <<>>[k]] = <<>>
  OBVIOUS
<1>2. FlattenSeq(<<>>) = <<>>
  BY DEF FlattenSeq
<1> QED BY <1>1, <1>2, Zenon DEF Separated

(* A member of a set of positions that none is less than is its first.     *)
LEMMA MinIs ==
    ASSUME NEW n \in Nat, NEW S \in SUBSET (1..n), NEW m \in S, \A j \in S : m <= j
    PROVE  Min(S) = m
<1>1. Min(S) \in S /\ \A j \in S : Min(S) <= j
  BY MinOfPositions
<1>2. m <= Min(S) /\ Min(S) <= m /\ m \in 1..n /\ Min(S) \in 1..n
  <2>1. \A j \in S : j \in 1..n
    OBVIOUS
  <2> QED BY <1>1, <2>1
<1> QED BY <1>2

(* But for blanks a line without a string is its words and parameters.     *)
LEMMA LineLosesNothing ==
    ASSUME NEW s \in Text, ~IsAsciz(strToLine(s)), s = <<>> \/ s[1] # COMMENT
    PROVE  LET l == strToLine(s)
               head == IF l.head = NULL THEN <<>> ELSE l.head
           IN  /\ Without(s, Blanks)
                    = Without(LabelText(l) \o head \o Separated(l.params), Blanks)
               /\ Word(LabelText(l)) /\ Word(head)
               /\ \A k \in DOMAIN l.params :
                    /\ \A i \in DOMAIN l.params[k] : l.params[k][i] # COMMA
                    /\ l.params[k] # <<>> =>
                         ~isspace(l.params[k][1]) /\ ~isspace(Last(l.params[k]))
<1> DEFINE l == strToLine(s)
<1>1. \/ s # <<>> /\ s[1] = COMMENT /\ l = EmptyLine
      \/ /\ l.head = NULL /\ l.params = <<>> /\ l.error = GOOD
         /\ Word(LabelText(l)) /\ Without(s, WORD_DELIMITERS) = LabelText(l)
      \/ l.head # NULL /\ Word(LabelText(l)) /\ \E q : HeadAt(s, l, q)
  BY HeadPlace
<1>2. ~IsAsciz(l)
  OBVIOUS
<1> HIDE DEF l
<1>3. CASE /\ l.head = NULL /\ l.params = <<>>
           /\ Word(LabelText(l)) /\ Without(s, WORD_DELIMITERS) = LabelText(l)
  <2>1. LabelText(l) \in Text
    BY <1>3 DEF Word
  <2>2. LabelText(l) \o <<>> = LabelText(l)
    BY <2>1, Behind
  <2>3. LabelText(l) \o <<>> \o Separated(l.params) = LabelText(l)
    BY <1>3, <2>2, NothingSeparated
  <2>4. Without(Without(s, WORD_DELIMITERS), Blanks) = Without(s, Blanks)
    BY DelimitersAreBlank, WithoutTwice
  <2>5. Word(<<>>)
    BY EmptySeq DEF Word, Text
  <2>6. \A k \in DOMAIN l.params : FALSE
    BY <1>3
  <2> QED BY <1>3, <2>3, <2>4, <2>5, <2>6 DEF l
<1>4. ASSUME l.head # NULL, Word(LabelText(l)), NEW q, HeadAt(s, l, q)
      PROVE  /\ Without(s, Blanks)
                  = Without(LabelText(l) \o l.head \o Separated(l.params), Blanks)
             /\ Word(l.head)
             /\ \A k \in DOMAIN l.params :
                  /\ \A i \in DOMAIN l.params[k] : l.params[k][i] # COMMA
                  /\ l.params[k] # <<>> =>
                       ~isspace(l.params[k][1]) /\ ~isspace(Last(l.params[k]))
  <2> DEFINE r == SubSeq(s, q + 2, Len(s))
             u == SubSeq(s, 1, q)
  <2>1. /\ q \in 1..Len(s)
        /\ q < Len(s) => s[q + 1] \in Blanks
        /\ Word(l.head) /\ Without(u, WORD_DELIMITERS) = LabelText(l) \o l.head
        /\ l.params = parseParameters(r, l.head).params
    BY <1>4, DelimitersAreBlank DEF HeadAt
  <2>2. /\ u \in Text /\ r \in Text
        /\ Without(s, Blanks) = Without(u, Blanks) \o Without(r, Blanks)
    BY <2>1, WithoutBetween
  <2> HIDE DEF r, u
  <2>3. /\ Separated(l.params) \in Text
        /\ Without(Separated(l.params), Blanks) = Without(r, Blanks)
        /\ \A k \in DOMAIN l.params :
             /\ \A i \in DOMAIN l.params[k] : l.params[k][i] # COMMA
             /\ l.params[k] # <<>> =>
                  ~isspace(l.params[k][1]) /\ ~isspace(Last(l.params[k]))
    <3>1. CASE r = <<>>
      <4>1. l.params = <<>>
        BY <2>1, <3>1 DEF parseParameters
      <4>2. Separated(l.params) = r
        BY <3>1, <4>1, NothingSeparated
      <4>3. \A k \in DOMAIN l.params : FALSE
        BY <4>1
      <4> QED BY <2>2, <4>2, <4>3
    <3>2. CASE r # <<>>
      <4>1. l.params = parseGenericParameters(r)
        BY <1>2, <1>4, <2>1, <3>2 DEF parseParameters, IsAsciz
      <4> QED BY <2>2, <4>1, ParametersAreThere
    <3> QED BY <3>1, <3>2
  <2>4. LabelText(l) \o l.head \in Text
    BY <1>4, <2>1, Behind DEF Word
  <2>5. Without(Without(u, WORD_DELIMITERS), Blanks) = Without(u, Blanks)
    BY <2>2, DelimitersAreBlank, WithoutTwice
  <2>6. Without(LabelText(l) \o l.head \o Separated(l.params), Blanks)
          = Without(LabelText(l) \o l.head, Blanks) \o Without(Separated(l.params), Blanks)
    BY <2>3, <2>4, WithoutConcat
  <2>7. Without(s, Blanks) = Without(LabelText(l) \o l.head \o Separated(l.params), Blanks)
    BY <2>1, <2>2, <2>3, <2>5, <2>6, Zenon
  <2> QED BY <2>1, <2>3, <2>7
<1> QED BY <1>1, <1>3, <1>4 DEF l

(* A comment line has nothing before its semicolon.                        *)
LEMMA NothingUncommented ==
    /\ Uncommented(Without(<<>>, Blanks)) = <<>>
    /\ \A s \in Text : s # <<>> /\ s[1] = COMMENT => Uncommented(Without(s, Blanks)) = <<>>
<1>1. Uncommented(Without(<<>>, Blanks)) = <<>>
  <2>1. Without(<<>>, Blanks) = <<>>
    <3>1. <<>> \in Text /\ \A i \in DOMAIN <<>> : FALSE
      BY EmptySeq DEF Text
    <3> QED BY <3>1, WithoutAll
  <2>2. {i \in DOMAIN <<>> : <<>>[i] = COMMENT} = {}
    OBVIOUS
  <2> QED BY <2>1, <2>2, Zenon DEF Uncommented
<1>2. ASSUME NEW s \in Text, s # <<>>, s[1] = COMMENT
      PROVE  Uncommented(Without(s, Blanks)) = <<>>
  <2> DEFINE u == SubSeq(s, 1, 1)
             v == SubSeq(s, 2, Len(s))
  <2>1. Len(s) \in Nat \ {0}
    BY <1>2, EmptySeq DEF Text
  <2>2. /\ u \in Text /\ v \in Text /\ u \o v = s
        /\ Len(u) = 1 /\ u[1] = COMMENT
    <3>1. 1 \in 0..Len(s) /\ 1 \in 1..1 /\ 1 + 1 = 2
      BY <2>1
    <3>2. /\ SubSeq(s, 1, 1) \in Text /\ SubSeq(s, 1 + 1, Len(s)) \in Text
          /\ SubSeq(s, 1, 1) \o SubSeq(s, 1 + 1, Len(s)) = s
          /\ Len(SubSeq(s, 1, 1)) = 1 /\ \A i \in 1..1 : SubSeq(s, 1, 1)[i] = s[i]
      BY <3>1, TextSplit
    <3> QED BY <1>2, <3>1, <3>2
  <2> HIDE DEF u, v
  <2>3. Without(s, Blanks) = Without(u, Blanks) \o Without(v, Blanks)
    BY <2>2, WithoutConcat
  <2>4. Without(u, Blanks) = u
    <3>1. \A i \in DOMAIN u : u[i] \notin Blanks
      <4>1. DOMAIN u = 1..1
        BY <2>2 DEF Text
      <4>2. COMMENT \notin Blanks
        BY DEF COMMENT, Blanks, isspace, Char
      <4> QED BY <2>2, <4>1, <4>2
    <3> QED BY <2>2, <3>1, WithoutNone
  <2> DEFINE w == Without(v, Blanks)
             t == u \o w
             semicolons == {i \in DOMAIN t : t[i] = COMMENT}
  <2>5. w \in Text
    BY <2>2, KeptTexts
  <2> HIDE DEF w
  <2>6. Len(t) \in Nat \ {0} /\ DOMAIN t = 1..Len(t) /\ t[1] = COMMENT
    <3>1. u \in Seq(Char \ {0}) /\ w \in Seq(Char \ {0}) /\ Len(u) = 1 /\ Len(w) \in Nat
      BY <2>2, <2>5 DEF Text
    <3>2. Len(t) = 1 + Len(w) /\ t \in Seq(Char \ {0}) /\ t[1] = u[1]
      BY <3>1, ConcatProperties
    <3> HIDE DEF t
    <3> QED BY <2>2, <3>1, <3>2
  <2> HIDE DEF t
  <2>7. 1 \in semicolons /\ semicolons \in SUBSET (1..Len(t)) /\ \A j \in semicolons : 1 <= j
    BY <2>6
  <2>8. Min(semicolons) = 1
    BY <2>6, <2>7, MinIs
  <2>9. Uncommented(t) = SubSeq(t, 1, Min(semicolons) - 1)
    BY <2>7 DEF Uncommented
  <2> HIDE DEF semicolons
  <2>10. SubSeq(t, 1, 0) = <<>>
    BY <2>2, <2>5 DEF t, Text
  <2>11. Uncommented(t) = <<>>
    BY <2>8, <2>9, <2>10
  <2> QED BY <2>3, <2>4, <2>11 DEF t, w
<1> QED BY <1>1, <1>2

(* No character but blanks is lost, doubled or moved when a line without a *)
(* string is parsed, up to its first semicolon, whatever the file and the  *)
(* length of the line.                                                     *)
THEOREM ReaderLosesNothing == Spec => []ParseLosesNothing
<1>1. HandedInv => ParseLosesNothing
  <2> SUFFICES ASSUME HandedInv, JustParsed, Read.head # ".asciz"
               PROVE  LET head == IF lineParsed.head = NULL THEN <<>> ELSE lineParsed.head
                          params == lineParsed.params
                      IN  /\ Uncommented(Squeeze(line))
                               = Uncommented(Squeeze(Labelled \o head \o Separated(params)))
                          /\ \A i \in DOMAIN Labelled : Labelled[i] \notin WORD_DELIMITERS
                          /\ \A i \in DOMAIN head : head[i] \notin WORD_DELIMITERS
                          /\ \A k \in DOMAIN params :
                               /\ \A i \in DOMAIN params[k] : params[k][i] # COMMA
                               /\ params[k] # <<>> =>
                                    ~isspace(params[k][1]) /\ ~isspace(Last(params[k]))
    BY DEF ParseLosesNothing
  <2>1. line \in Text
    BY DEF HandedInv, JustParsed
  <2>2. ~IsAsciz(strToLine(line))
    BY AscizIsRead DEF Read, lineParsed
  <2>3. lineParsed = strToLine(line) /\ Labelled = LabelText(strToLine(line))
    BY DEF lineParsed, Labelled, LabelText
  <2>4. \A x : Squeeze(x) = Without(x, Blanks)
    BY DEF Squeeze, Blanks
  <2>5. CASE line = <<>> \/ line[1] # COMMENT
    BY <2>1, <2>2, <2>3, <2>4, <2>5, LineLosesNothing DEF Word
  <2>6. CASE line # <<>> /\ line[1] = COMMENT
    <3>1. lineParsed = EmptyLine
      BY <2>3, <2>6 DEF strToLine
    <3>2. lineParsed.head = NULL /\ lineParsed.params = <<>> /\ Labelled = <<>>
      BY <3>1 DEF EmptyLine, ParsedLine, Labelled
    <3>3. <<>> \o <<>> \o Separated(<<>>) = <<>>
      BY NothingSeparated
    <3>4. Uncommented(Squeeze(line)) = Uncommented(Squeeze(<<>>))
      BY <2>1, <2>4, <2>6, NothingUncommented
    <3>5. \A k \in DOMAIN <<>> : FALSE
      OBVIOUS
    <3> QED BY <3>2, <3>3, <3>4, <3>5
  <2> QED BY <2>5, <2>6
<1> QED BY <1>1, HandedLines, PTL

-------------------------------------------------------------------------------
(* The string of an .asciz line.                                           *)

(* Trimmed, a text that begins with a quote is that quote if nothing but   *)
(* blanks follow it.                                                       *)
LEMMA TrimmedQuote ==
    ASSUME NEW t \in Text, t # <<>>, t[1] = QUOTE
    PROVE  trimTrailingSpace(t) = <<QUOTE>> <=> \A i \in 2..Len(t) : isspace(t[i])
<1> DEFINE graph == {i \in DOMAIN t : ~isspace(t[i])}
           m == Max(graph)
<1>1. Len(t) \in Nat /\ DOMAIN t = 1..Len(t) /\ 1 \in DOMAIN t
  BY EmptySeq DEF Text
<1>2. 1 \in graph
  BY <1>1 DEF QUOTE, isspace
<1>3. m \in graph /\ \A j \in graph : j <= m
  <2>1. graph \in SUBSET (1..Len(t)) /\ graph # {}
    BY <1>1, <1>2
  <2> HIDE DEF graph
  <2> QED BY <1>1, <2>1, MaxOfPositions
<1>4. trimTrailingSpace(t) = SubSeq(t, 1, m)
  BY <1>2 DEF trimTrailingSpace
<1> HIDE DEF m
<1>5. m \in 1..Len(t) /\ (m = 1 <=> \A i \in 2..Len(t) : isspace(t[i]))
  <2>1. m \in 1..Len(t) /\ ~isspace(t[m])
    BY <1>1, <1>3
  <2>2. ASSUME m = 1, NEW i \in 2..Len(t) PROVE isspace(t[i])
    <3>1. i \in DOMAIN t /\ ~(i <= m)
      BY <1>1, <2>2
    <3> QED BY <1>3, <3>1
  <2>3. ASSUME \A i \in 2..Len(t) : isspace(t[i]) PROVE m = 1
    <3>1. m \notin 2..Len(t)
      BY <2>1, <2>3
    <3> QED BY <1>1, <2>1, <3>1
  <2> QED BY <2>1, <2>2, <2>3
<1> HIDE DEF graph
<1>6. Len(SubSeq(t, 1, m)) = m
  BY <1>1, <1>5 DEF Text
<1>7. m = 1 => SubSeq(t, 1, m) = <<QUOTE>>
  <2>1. SubSeq(t, 1, 1) \in Text /\ Len(SubSeq(t, 1, 1)) = 1 /\ SubSeq(t, 1, 1)[1] = t[1]
    <3>1. 1 \in 0..Len(t) /\ 1 \in 1..1
      BY <1>1
    <3> QED BY <3>1, TextSplit
  <2>2. \A x \in Text : Len(x) = 1 => x = <<x[1]>>
    BY DEF Text
  <2> QED BY <2>1, <2>2
<1>8. Len(<<QUOTE>>) = 1
  OBVIOUS
<1>9. SubSeq(t, 1, m) = <<QUOTE>> <=> m = 1
  BY <1>6, <1>7, <1>8
<1> QED BY <1>4, <1>5, <1>9

(* Without some characters, the beginnings of a text up to two of its      *)
(* others are different.                                                   *)
LEMMA BeginningsDiffer ==
    ASSUME NEW s \in Text, NEW chars, NEW p \in 1..Len(s), NEW q \in 1..Len(s), p < q,
           s[q] \notin chars
    PROVE  Without(SubSeq(s, 1, p), chars) # Without(SubSeq(s, 1, q), chars)
<1> DEFINE u == SubSeq(s, 1, q)
           v == SubSeq(u, 1, p)
           w == SubSeq(u, p + 1, Len(u))
<1>1. Len(s) \in Nat
  BY DEF Text
<1>2. u \in Text /\ Len(u) = q /\ \A i \in 1..q : u[i] = s[i]
  <2>1. q \in 0..Len(s)
    BY <1>1
  <2> QED BY <2>1, TextSplit
<1>3. SubSeq(s, 1, p) = v
  BY <1>1 DEF Text
<1> HIDE DEF u
<1>4. /\ v \in Text /\ w \in Text /\ v \o w = u /\ Len(w) = q - p
      /\ \A i \in 1..q - p : w[i] = u[p + i]
  <2>1. p \in 0..Len(u)
    BY <1>1, <1>2
  <2>2. /\ v \in Text /\ w \in Text /\ v \o w = u /\ Len(w) = Len(u) - p
        /\ \A i \in 1..Len(u) - p : w[i] = u[p + i]
    BY <1>2, <2>1, TextSplit
  <2> HIDE DEF v, w
  <2> QED BY <1>2, <2>2
<1> HIDE DEF v, w
<1>5. q - p \in DOMAIN w /\ w[q - p] = s[q]
  <2>1. DOMAIN w = 1..q - p /\ q - p \in 1..q - p /\ p + (q - p) = q /\ q \in 1..q
    BY <1>1, <1>4 DEF Text
  <2> QED BY <1>2, <1>4, <2>1
<1>6. Without(w, chars) # <<>>
  <2>1. \E i \in DOMAIN w : w[i] \notin chars
    BY <1>5
  <2> QED BY <1>4, <2>1, WithoutSome
<1>7. Without(v \o w, chars) = Without(v, chars) \o Without(w, chars)
  BY <1>4, WithoutConcat
<1>8. Without(v, chars) \in Text /\ Without(w, chars) \in Text
  BY <1>4, KeptTexts
<1>9. \A x, y \in Text : x = x \o y => y = <<>>
  BY EmptySeq DEF Text
<1>10. Without(v, chars) # Without(v \o w, chars)
  BY <1>6, <1>7, <1>8, <1>9
<1> QED BY <1>3, <1>4, <1>10 DEF u

(* The quotes that may open the string, and those behind them.             *)
Opening(s, text) ==
    {i \in 3..Len(s) : /\ s[i] = QUOTE
                       /\ s[i - 1] \in WORD_DELIMITERS
                       /\ s[i - 2] \notin WORD_DELIMITERS
                       /\ Without(SubSeq(s, 1, i - 2), WORD_DELIMITERS) = text}

Closing(s, opening) == {i \in DOMAIN s : s[i] = QUOTE /\ \E j \in opening : j < i}

(* There is only one place for the string to begin: behind the word.       *)
LEMMA OneOpening ==
    ASSUME NEW s \in Text, NEW l, NEW q, HeadAt(s, l, q)
    PROVE  \A i : i \in Opening(s, LabelText(l) \o l.head)
                    <=> i = q + 2 /\ i <= Len(s) /\ s[i] = QUOTE
<1> DEFINE text == LabelText(l) \o l.head
<1>1. /\ q \in 1..Len(s) /\ s[q] \notin WORD_DELIMITERS /\ Len(s) \in Nat
      /\ Without(SubSeq(s, 1, q), WORD_DELIMITERS) = text
  BY DEF HeadAt, Text
<1>2. q < Len(s) => s[q + 1] \in WORD_DELIMITERS
  BY DEF HeadAt
<1> HIDE DEF text
<1>3. ASSUME NEW i \in 3..Len(s), s[i - 2] \notin WORD_DELIMITERS,
             Without(SubSeq(s, 1, i - 2), WORD_DELIMITERS) = text
      PROVE  i - 2 = q
  <2> DEFINE p == i - 2
  <2>1. p \in 1..Len(s) /\ s[p] \notin WORD_DELIMITERS
        /\ Without(SubSeq(s, 1, p), WORD_DELIMITERS) = text
    BY <1>1, <1>3
  <2> HIDE DEF p
  <2>2. ~(p < q)
    BY <1>1, <2>1, BeginningsDiffer
  <2>3. ~(q < p)
    BY <1>1, <2>1, BeginningsDiffer
  <2> QED BY <1>1, <2>1, <2>2, <2>3 DEF p
<1>4. ASSUME NEW i \in Opening(s, text) PROVE i = q + 2 /\ i <= Len(s) /\ s[i] = QUOTE
  <2>1. /\ i \in 3..Len(s) /\ s[i] = QUOTE /\ s[i - 2] \notin WORD_DELIMITERS
        /\ Without(SubSeq(s, 1, i - 2), WORD_DELIMITERS) = text
    BY DEF Opening
  <2> QED BY <1>1, <1>3, <2>1
<1>5. ASSUME q + 2 <= Len(s), s[q + 2] = QUOTE PROVE q + 2 \in Opening(s, text)
  <2>1. q + 2 \in 3..Len(s) /\ q + 2 - 1 = q + 1 /\ q + 2 - 2 = q /\ q < Len(s)
    BY <1>1, <1>5
  <2> QED BY <1>1, <1>2, <1>5, <2>1 DEF Opening
<1> QED BY <1>4, <1>5 DEF text

(* What parseAscizParameters makes of a text, by its quotes.               *)
LEMMA StringParsed ==
    ASSUME NEW r
    PROVE  LET p == parseAscizParameters(r)
               quotes == {i \in DOMAIN r : r[i] = QUOTE}
               closing == Min(quotes \ {1})
           IN  /\ r[1] # QUOTE \/ quotes = {1} => p.error # GOOD
               /\ r[1] = QUOTE /\ quotes # {1} =>
                    /\ p.params = <<SubSeq(r, 2, closing - 1)>>
                    /\ p.error = GOOD
                         <=> trimTrailingSpace(SubSeq(r, closing, Len(r))) = <<QUOTE>>
BY DEF parseAscizParameters, GOOD

(* What the string of a line is, if it has one.                            *)
StringStands(s, l, opening, closing) ==
    IF closing # {} /\ \A i \in Min(closing) + 1..Len(s) : isspace(s[i])
    THEN l.error = GOOD /\ l.params = <<SubSeq(s, Min(opening) + 1, Min(closing) - 1)>>
    ELSE \/ l.error # GOOD
         \/ /\ Without(s, WORD_DELIMITERS) = LabelText(l) \o l.head
            /\ l.params = <<>>

(* A text behind the word, which begins with a quote and has another one.  *)
LEMMA TwoQuotes ==
    ASSUME NEW s \in Text, NEW q \in 1..Len(s), NEW r, r = SubSeq(s, q + 2, Len(s)),
           q < Len(s), NEW closing,
           \A i : i \in closing <=> i \in q + 3..Len(s) /\ s[i] = QUOTE,
           NEW c \in 2..Len(r), r[c] = QUOTE, \A k \in 2..Len(r) : r[k] = QUOTE => c <= k
    PROVE  /\ closing # {} /\ Min(closing) = q + 1 + c
           /\ SubSeq(s, q + 2 + 1, Min(closing) - 1) = SubSeq(r, 2, c - 1)
           /\ trimTrailingSpace(SubSeq(r, c, Len(r))) = <<QUOTE>>
                <=> \A i \in Min(closing) + 1..Len(s) : isspace(s[i])
<1> DEFINE n == Len(r)
<1>1. /\ r \in Text /\ n = Len(s) - q - 1 /\ n \in Nat /\ Len(s) \in Nat
      /\ \A i \in 1..n : r[i] = s[q + 1 + i]
  BY RestOfText DEF Text
<1>2. q + 1 + c \in closing
  BY <1>1
<1>3. ASSUME NEW i \in closing PROVE q + 1 + c <= i
  <2> DEFINE k == i - q - 1
  <2>1. i \in q + 3..Len(s) /\ s[i] = QUOTE
    OBVIOUS
  <2>2. k \in 2..n /\ q + 1 + k = i /\ k \in 1..n
    BY <1>1, <2>1
  <2> HIDE DEF k
  <2>3. r[k] = QUOTE
    BY <1>1, <2>1, <2>2
  <2>4. c <= k
    BY <2>2, <2>3
  <2> QED BY <1>1, <2>2, <2>4
<1>4. Min(closing) = q + 1 + c
  <2>1. closing \in SUBSET (1..Len(s))
    BY <1>1
  <2> QED BY <1>1, <1>2, <1>3, <2>1, MinIs
<1>5. SubSeq(r, 2, c - 1) = SubSeq(s, q + 1 + 2, q + 1 + (c - 1))
  <2>1. 2 \in Nat \ {0} /\ c - 1 \in Int /\ c - 1 <= Len(r)
    BY <1>1
  <2> QED BY <2>1, PartOfRest
<1> DEFINE t == SubSeq(r, c, n)
<1>6. /\ t \in Text /\ Len(t) = n - c + 1 /\ \A i \in 1..n - c + 1 : t[i] = r[c + i - 1]
  <2>1. c \in Nat \ {0} /\ n \in Int /\ n <= Len(r) /\ c <= n
    BY <1>1
  <2> QED BY <1>1, <2>1, TextPart
<1> HIDE DEF t, n
<1>7. t # <<>> /\ t[1] = QUOTE
  <2>1. 1 \in 1..n - c + 1 /\ c + 1 - 1 = c
    BY <1>1 DEF n
  <2> QED BY <1>6, <2>1
<1>8. (\A i \in 2..Len(t) : isspace(t[i])) <=> \A i \in q + 1 + c + 1..Len(s) : isspace(s[i])
  <2>1. ASSUME NEW i \in 2..n - c + 1
        PROVE  t[i] = s[q + c + i] /\ q + c + i \in q + 1 + c + 1..Len(s)
    <3>1. i \in 1..n - c + 1 /\ c + i - 1 \in 1..n /\ q + 1 + (c + i - 1) = q + c + i
      BY <1>1
    <3> QED BY <1>1, <1>6, <3>1
  <2>2. ASSUME NEW i \in q + 1 + c + 1..Len(s)
        PROVE  i - q - c \in 2..n - c + 1 /\ q + c + (i - q - c) = i
    BY <1>1
  <2> QED BY <1>6, <2>1, <2>2
<1>9. trimTrailingSpace(t) = <<QUOTE>> <=> \A i \in 2..Len(t) : isspace(t[i])
  BY <1>6, <1>7, TrimmedQuote
<1>10. SubSeq(s, q + 2 + 1, Min(closing) - 1) = SubSeq(r, 2, c - 1)
  <2>1. q + 2 + 1 = q + 1 + 2 /\ Min(closing) - 1 = q + 1 + (c - 1)
    BY <1>1, <1>4
  <2> QED BY <1>5, <2>1, Zenon
<1>11. trimTrailingSpace(t) = <<QUOTE>>
         <=> \A i \in Min(closing) + 1..Len(s) : isspace(s[i])
  BY <1>4, <1>8, <1>9, Zenon
<1> QED BY <1>2, <1>4, <1>10, <1>11, Zenon DEF t, n

(* The string of a line stands between two quotes, or there is none.       *)
LEMMA LineQuotesString ==
    ASSUME NEW s \in Text, IsAsciz(strToLine(s))
    PROVE  LET l == strToLine(s)
               opening == Opening(s, LabelText(l) \o l.head)
           IN  StringStands(s, l, opening, Closing(s, opening))
<1> DEFINE l == strToLine(s)
           opening == Opening(s, LabelText(l) \o l.head)
           closing == Closing(s, opening)
<1>1. l.head # NULL /\ Intern(l.head) = ".asciz"
  BY DEF IsAsciz
<1>2. PICK q : Word(LabelText(l)) /\ HeadAt(s, l, q)
  <2>1. EmptyLine.head = NULL
    BY DEF EmptyLine, ParsedLine
  <2> QED BY <1>1, <2>1, HeadPlace
<1> HIDE DEF l
<1>3. \A i : i \in opening <=> i = q + 2 /\ i <= Len(s) /\ s[i] = QUOTE
  BY <1>2, OneOpening
<1> DEFINE r == SubSeq(s, q + 2, Len(s))
<1>4. /\ q \in 1..Len(s)
      /\ q < Len(s) => s[q + 1] \in WORD_DELIMITERS
  BY <1>2 DEF HeadAt
<1>5. /\ LabelText(l) \o l.head \in Text
      /\ Without(SubSeq(s, 1, q), WORD_DELIMITERS) = LabelText(l) \o l.head
  BY <1>2, Behind DEF HeadAt, Word
<1>6. /\ l.params = parseParameters(r, l.head).params
      /\ l.error = parseParameters(r, l.head).error
  BY <1>2 DEF HeadAt
<1>7. /\ r \in Text /\ Len(r) = IF q < Len(s) THEN Len(s) - q - 1 ELSE 0
      /\ \A i \in 1..Len(r) : r[i] = s[q + 1 + i]
      /\ Len(s) \in Nat /\ DOMAIN s = 1..Len(s) /\ DOMAIN r = 1..Len(r)
  <2>1. r \in Text /\ Len(s) \in Nat /\ DOMAIN s = 1..Len(s)
    BY <1>4, RestOfText DEF Text
  <2> QED BY <1>4, <2>1, RestOfText DEF Text
<1>8. \A i : i \in closing <=> i \in DOMAIN s /\ s[i] = QUOTE /\ \E j \in opening : j < i
  BY DEF Closing
<1> HIDE DEF opening, closing, r
<1>9. /\ Len(s) \in Nat /\ q \in 1..Len(s) /\ Len(r) \in Nat
      /\ Len(r) = (IF q < Len(s) THEN Len(s) - q - 1 ELSE 0)
      /\ Len(r) = 0 <=> r = <<>>
  <2>1. \A x \in Text : Len(x) \in Nat /\ (Len(x) = 0 <=> x = <<>>)
    BY EmptySeq DEF Text
  <2>2. r \in Text
    BY <1>7
  <2>3. Len(s) \in Nat /\ Len(r) = (IF q < Len(s) THEN Len(s) - q - 1 ELSE 0)
    BY <1>7
  <2> QED BY <1>4, <2>1, <2>2, <2>3
<1>10. CASE r = <<>>
  <2>1. ~(q + 2 <= Len(s))
    BY <1>9, <1>10
  <2>2. closing = {}
    BY <1>3, <1>8, <2>1
  <2>3. l.params = <<>>
    BY <1>6, <1>10 DEF parseParameters
  <2>4. /\ SubSeq(s, 1, q) \in Text
        /\ Without(s, WORD_DELIMITERS)
             = Without(SubSeq(s, 1, q), WORD_DELIMITERS) \o Without(r, WORD_DELIMITERS)
    BY <1>4, WithoutBetween DEF r
  <2>5. Without(r, WORD_DELIMITERS) = <<>>
    BY <1>7, <1>10, WithoutAll
  <2>6. (LabelText(l) \o l.head) \o <<>> = LabelText(l) \o l.head
    BY <1>5, Behind
  <2>7. Without(s, WORD_DELIMITERS) = LabelText(l) \o l.head
    BY <1>5, <2>4, <2>5, <2>6, Zenon
  <2>8. StringStands(s, l, opening, closing)
    BY <2>2, <2>3, <2>7 DEF StringStands
  <2> QED BY <2>8 DEF opening, closing, l
<1>11. CASE r # <<>>
  <2>1. q < Len(s) /\ 1 \in 1..Len(r) /\ Len(r) = Len(s) - q - 1 /\ r[1] = s[q + 2]
    <3>1. q < Len(s) /\ 1 \in 1..Len(r) /\ q + 1 + 1 = q + 2
      BY <1>9, <1>11
    <3> QED BY <1>7, <3>1
  <2>2. /\ l.params = parseAscizParameters(r).params
        /\ l.error = parseAscizParameters(r).error
    BY <1>1, <1>6, <1>11 DEF parseParameters
  <2> DEFINE quotes == {i \in DOMAIN r : r[i] = QUOTE}
             c == Min(quotes \ {1})
  <2>3. /\ r[1] # QUOTE \/ quotes = {1} => l.error # GOOD
        /\ r[1] = QUOTE /\ quotes # {1} =>
             /\ l.params = <<SubSeq(r, 2, c - 1)>>
             /\ l.error = GOOD <=> trimTrailingSpace(SubSeq(r, c, Len(r))) = <<QUOTE>>
    BY <2>2, StringParsed
  <2>4. \A i : i \in quotes <=> i \in 1..Len(r) /\ r[i] = QUOTE
    BY <1>7
  <2>5. CASE r[1] # QUOTE
    <3>1. closing = {}
      BY <1>3, <1>8, <2>1, <2>5
    <3>2. StringStands(s, l, opening, closing)
      BY <2>3, <2>5, <3>1 DEF StringStands
    <3> QED BY <3>2 DEF opening, closing, l
  <2>6. CASE r[1] = QUOTE
    <3>1. \A i : i \in opening <=> i = q + 2
      <4>1. q + 2 <= Len(s) /\ s[q + 2] = QUOTE
        BY <1>4, <1>7, <2>1, <2>6
      <4> QED BY <1>3, <4>1
    <3>2. \A i : i \in closing <=> i \in q + 3..Len(s) /\ s[i] = QUOTE
      <4>1. \A i : i \in closing <=> i \in 1..Len(s) /\ s[i] = QUOTE /\ q + 2 < i
        BY <1>7, <1>8, <3>1
      <4>2. \A i : i \in 1..Len(s) /\ q + 2 < i <=> i \in q + 3..Len(s)
        BY <1>9
      <4> QED BY <4>1, <4>2
    <3>3. CASE quotes = {1}
      <4>1. ASSUME NEW i \in q + 3..Len(s), s[i] = QUOTE PROVE FALSE
        <5>1. i - q - 1 \in 1..Len(r) /\ q + 1 + (i - q - 1) = i /\ i - q - 1 # 1
          BY <1>4, <1>7, <2>1
        <5>2. r[i - q - 1] = QUOTE
          BY <1>7, <4>1, <5>1
        <5>3. i - q - 1 \in quotes
          BY <2>4, <5>1, <5>2
        <5> HIDE DEF quotes
        <5> QED BY <3>3, <5>1, <5>3
      <4>2. closing = {}
        BY <3>2, <4>1
      <4>3. StringStands(s, l, opening, closing)
        BY <2>3, <3>3, <4>2 DEF StringStands
      <4> QED BY <4>3 DEF opening, closing, l
    <3>4. CASE quotes # {1}
      <4>1. c \in quotes \ {1} /\ \A k \in quotes \ {1} : c <= k
        <5>1. quotes \ {1} \in SUBSET (1..Len(r)) /\ quotes \ {1} # {} /\ Len(r) \in Nat
          <6>1. 1 \in quotes
            BY <2>1, <2>4, <2>6
          <6>2. quotes \subseteq 1..Len(r)
            BY <2>4
          <6> HIDE DEF quotes
          <6> QED BY <1>9, <3>4, <6>1, <6>2
        <5> HIDE DEF quotes
        <5> QED BY <5>1, MinOfPositions
      <4>2. /\ c \in 2..Len(r) /\ r[c] = QUOTE
            /\ \A k \in 2..Len(r) : r[k] = QUOTE => c <= k
        <5> HIDE DEF quotes, c
        <5>1. c \in 1..Len(r) /\ c # 1 /\ r[c] = QUOTE
          BY <2>4, <4>1
        <5>2. ASSUME NEW k \in 2..Len(r), r[k] = QUOTE PROVE c <= k
          <6>1. k \in 1..Len(r) /\ k # 1
            BY <1>9
          <6> QED BY <2>4, <4>1, <5>2, <6>1
        <5> QED BY <1>9, <5>1, <5>2
      <4> HIDE DEF quotes, c
      <4>3. /\ closing # {} /\ Min(closing) = q + 1 + c
            /\ SubSeq(s, q + 2 + 1, Min(closing) - 1) = SubSeq(r, 2, c - 1)
            /\ trimTrailingSpace(SubSeq(r, c, Len(r))) = <<QUOTE>>
                 <=> \A i \in Min(closing) + 1..Len(s) : isspace(s[i])
        BY <1>4, <2>1, <3>2, <4>2, TwoQuotes DEF r
      <4>4. Min(opening) = q + 2
        <5>1. opening = {q + 2}
          BY <3>1
        <5>2. opening \in SUBSET (1..q + 2) /\ q + 2 \in Nat /\ \A j \in opening : q + 2 <= j
          BY <1>9, <5>1
        <5> QED BY <5>1, <5>2, MinIs
      <4>5. StringStands(s, l, opening, closing)
        <5> QED BY <2>3, <2>6, <3>4, <4>3, <4>4 DEF StringStands
      <4> QED BY <4>5 DEF opening, closing, l
    <3> QED BY <3>3, <3>4
  <2> QED BY <2>5, <2>6
<1> QED BY <1>10, <1>11

(* The string of an .asciz line is what stands between the two quotes, or  *)
(* the line has an error or no parameters, whatever the file.              *)
THEOREM ReaderQuotesStrings == Spec => []StringIsQuoted
<1>1. HandedInv => StringIsQuoted
  <2> SUFFICES ASSUME HandedInv, JustParsed, Read.head = ".asciz"
               PROVE  StringIsQuoted
    BY DEF StringIsQuoted
  <2>1. line \in Text
    BY DEF HandedInv, JustParsed
  <2>2. IsAsciz(strToLine(line))
    BY AscizIsRead DEF Read, lineParsed
  <2>3. lineParsed = strToLine(line) /\ Labelled = LabelText(strToLine(line))
    BY DEF lineParsed, Labelled, LabelText
  <2> DEFINE opening == Opening(line, Labelled \o lineParsed.head)
  <2>4. StringStands(line, lineParsed, opening, Closing(line, opening))
    BY <2>1, <2>2, <2>3, LineQuotesString
  <2>5. Labelled = LabelText(lineParsed)
    BY <2>3
  <2> QED BY <2>4, <2>5 DEF StringStands, StringIsQuoted, Opening, Closing
<1> QED BY <1>1, HandedLines, PTL
===============================================================================
