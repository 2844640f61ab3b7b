# A TLA+ development of the mock MIPS assembler

This directory models the two-pass assembler of this repository (`src/src/*.c`)
in TLA+, from `main` down to the characters of a line and the bits of a word,
checks the models with TLC and proves with TLAPS what the parts promise each
other. The code is the reference: every definition listed
under `map` in `PROJECT.json` names the lines it stands for.

## 1. The system

The program is sequential. `main` hands each argument to `assemblePath`, which
calls `assembleFile` once per `.as` file. What makes the code hard is not
concurrency but order: two passes over the same text that must agree on every
address, a symbol table in which three kinds of declarations of one name meet in
any order, errors that are reported on one line and decided upon much later, five
steps that write files, and encoders with many numeric edges.

| Component | Source | State it keeps | Operations | Talks to |
|---|---|---|---|---|
| First pass | `assembler.c` 158-260, 323-364 | `symbolTable`, `ic`, `dc`, `dataImage`; locals `error`, `hasErrors` | one branch per kind of line, the relocation | line parser, symbol table, directive encoder |
| Symbol table | `symbolTable.c` | linked list of (label, address, flag mask) | `findSymbolInTable`, `addSymbol`, `isValidLabel` | both passes, entry file |
| `assembleFile`: second pass, output files | `assembler.c` 26-155, 263-321, 366-427 | `ic`, `ec`, `hasErrors`, three files | header, second pass, data image, `.ent`, `.ext`, removal | all others |
| Directive encoder | `directive.c` | none | `directiveToBytes` | first pass |
| Instruction encoder | `instructionList.c` | the instruction table | `parseInstruction` and one function per format | second pass, symbol table, externals table |
| Externals table | `externalTable.c` | linked list of (label, address) | `addExternal` | instruction encoder, `.ext` file |
| Line parser | `line.c` | the place `strtok` keeps between calls | `strToLine` | both passes |
| Line reader, string helpers | `helper.c` | the position of the stream, the line buffer | `fgetsShred`, `strsep`, `parseLong` | line parser |
| Driver | `main.c`, `assembler.c` 1-26 | the loop index; the output files, which outlive a call | loop over the arguments, name test, base name | `assembleFile` |
| Codes and messages | `consts.c/.h` | none | table of texts | all |

What makes each correct:

* First pass: `ic` and `dc` mean what the second pass and the header take them
  for; each declaration is in the table with the address its place in the program
  gives it.
* Symbol table: a name has one meaning, given by its first declaration, however
  often and in whatever order it is defined, `.entry`ed and `.extern`ed.
* `assembleFile`: both passes see the same addresses; the files say what the
  program text means; a run leaves all of its output or none; both loops end.
* Reader: each pass is handed the lines of the file, each one once, in order and
  under its number, whatever their length and however the file ends.
* Parser: nothing a line says is lost, doubled or moved; what it hands over is
  what the passes rely on.
* Driver: each argument has its turn; it touches no files but its own.
* Encoders: what is accepted reads back as what was written; what does not fit is
  rejected with the first error.

The list of what is hard to test, each at its line, is `hazards` in
`PROJECT.json`.

## 2. Modules

| Module | Models | Role |
|---|---|---|
| `Consts` | `consts.h`, the instruction table | constants, error codes, failing calls (`Faults`) |
| `Line` | the struct `line` and what both passes conclude from it | the alphabet of programs |
| `LineParser` | `line.c`, `strsep`, `parseLong` | operators: the characters of a line to the struct |
| `SymbolTable` | `symbolTable.c` | operators on the list |
| `Directive` | `directive.c` | operators: parameters to bytes |
| `Instruction` | `instructionList.c` | operators: operands to words |
| `LineReader` | `fgetsShred` in the loops of both passes | state machine, refines `LineSource` |
| `FirstPass` | `firstPass` and its helpers | state machine, refines `Namespace` |
| `Assembler` | `assembleFile` and all it calls | state machine, composes `FirstPass` with the second pass and the files |
| `Driver` | `main`, `assemblePath` | state machine, composes calls of `Assembler`; refines `Batch` |
| `Encoding` | one call of an encoder | state machine to check the operators of `Directive` and `Instruction` |
| `LineSource` | a promise | abstract specification: a file is a sequence of lines, read once or twice |
| `Namespace` | a promise | abstract specification of the symbol table: a name gets one meaning |
| `Batch` | a promise | abstract specification of the program: arguments and the sets of output files |
| `MCText`, `MCFirstPass`, `MCAssembler`, `MCDriver`, `MCEncoding` | | instances for TLC |
| `MCCharacters` | | source text written as strings, for the instances |
| `OperatorProofs` | | lemmas about the operators of `SymbolTable`, `Directive` and `Instruction` |
| `FirstPassProofs`, `NamespaceProofs`, `LineReaderProofs`, `AssemblerProofs` (files, addresses, verdicts), `ContentProofs` (what the files say), `EncodingProofs`, `DriverProofs` | | theorems |

The modules meet at two places. `LineReader` and `LineParser` turn a file into
lines; `LineOf` abstracts a parsed line to a member of `Line`; the programs
`FirstPass` takes are sequences of those, and `HandsOverWellFormed` says that
what is handed over is what `FirstPass` assumes. `Driver` extends `Assembler`,
which extends `FirstPass`: a step of the whole program is a step of `main` or one
of the call of `assembleFile` that is active.

How state corresponds to the code:

* In `LineReader` a file is a sequence of character codes and `at` the position
  of the stream; one action is one turn of one of the two loops of `fgetsShred`.
* In `FirstPass` and above a program is a sequence of parsed lines (`src`), `pos`
  is the place of the file position; the `rewind` with which the second pass
  starts is `pos' = 1`.
* There text is abstracted to what the passes tell apart. A label is a member of
  `Names`; the subset `Words` are those that pass the test for letters and digits,
  and `NameLen` is their length. An operand keeps its class (number, register,
  name, string, empty) and the value the code extracts. Mnemonics are strings.
* The linked lists are sequences; the flag mask is a set of flags; `char` arrays
  are sequences over 0..255; a machine word is the set of its one bits, so the
  bit fields are exact and no number exceeds what TLC can count.
* `pc` is the statement of `assembleFile` that runs next. Each action is a
  whole branch of a loop or a whole function: `DirectiveLine` is
  `processDirective` with its label, its bytes and its counter.
* A file is `absent`, `stale` (left there by an earlier run or call) or `new` with
  header and rows. `disk` holds the three files of the active call, `store` those
  of all base names; at the end of a call its files go into the store, and for the
  next call they are stale.
* An argument is a base name, whether `.as` occurs in it, and the program in the
  file. Two arguments may have one base name (`a.as` and `a.as.bak` do).
* Errors: `malloc`, `fopen` and `fprintf` fail at any call in the modelled functions
  when `Faults` says so (not those inside `strToLine`, see section 6).
  A failed write ends the row it is at.
* `.entry` without operand dereferences a null pointer and `.asciz` without
  operand fails an assertion; both are the action `CrashLine`, after which the
  process is gone and no later argument is looked at.

## 3. What the runs check

Passing runs:

| Run | Instance | Shows |
|---|---|---|
| `text` | `LINE_LENGTH` 80; every text of up to `MaxText` = 3 of 11 kinds of characters, 7 beginnings of lines with every end of up to `MaxEnd` = 4 characters, lines of 79, 80, 81 and 161 characters, lines cut in a word or a string, the lines with the most data | the reader implements `LineSource`; a parse loses nothing up to the first semicolon (`ParseLosesNothing`), a string is what stands between its quotes (`StringIsQuoted`), lines are well-formed, their bytes fit into the buffer of `directiveToBytes`; each pass comes to its end |
| `first_pass` | all programs of up to 3 of 23 lines over two labels, a keyword, an overlong and an ill-formed name; allocations fail | types, the labels in the table among them; `ic` counts the instruction lines (`CodeCounted`) and `dc` the bytes (`DataCounted`); each declaration gets its address (`DeclarationsResolved`); `DefinedOnce`, `OneKind`; the table implements `Namespace` |
| `assembler` | the whole program on all files of up to 3 of 14 lines that define, declare and use two labels; the four test programs, parsed from their text, alone, and `ps.as` behind another file of the same or another base name | the passes agree on every address; layout of the object file; each reference is resolved to the address the text gives the label; `.ext` and `.ent` are complete; the files of `ps`, `only_data` and `empty` and the `.ext` file of `only_code` are those kept beside the tests, whatever was assembled before |
| `assembler_faults` | all files of up to 3 of 13 lines, every pair of 13 arguments (two base names, five programs, a file that is not there, a name that is refused); any call fails, with and without files of an earlier run | types, object rows at multiples of four with one to four bytes; all output or none; a line the second pass must reject leaves nothing, whatever follows it; no row of `.ext` is wrong when others are lost; the program implements `Batch`; it ends |
| `encoding` | every directive at the edges of its ranges; every format with operand lists of each length, all operand classes, with a label of 32 characters and one only `.entry` mentions; `malloc` fails | bytes and words read back as signed numbers; accepted exactly if legal; first error is the one reported |

Runs that find a disagreement of the code with its own comments (`findings`):

| Run | What TLC finds |
|---|---|
| `masked_error` | an error on one line is overwritten by a later good line; `firstPass` returns success |
| `stale_object` | after an error in the first pass an `.ob` of an earlier run stays |
| `unknown_directive` | an unknown word with a dot is counted by the first pass and skipped by the second |
| `undefined_entry` | a label only `.entry` mentions is encoded as address -1 |
| `lost_row` | a row that could not be written is missing from an object file that is kept |
| `word_bytes` | the upper half of a `.dw` number beyond 17 bits is wrong |
| `immediate_range` | immediates of 17 bits are accepted and cut |

The passing properties are stated around these: `ObjectLayout` and its companions
speak of programs without a reported first-pass error (`Produced`) and without an
unknown directive, `DataDecodesBack` of numbers of at most 17 bits,
`DirectiveVerdict` of lists without the number -2^31 in a `.dw`,
`InstructionDecodesBack` of immediates and branch distances of 16 bits with sign
and of jumps to addresses of 25 bits, `ParseLosesNothing` of the text before the
first semicolon of a line without a string, `AllOrNothing` of files that got past
the first pass, `Batch` lets an argument leave the files that were there.

**Bounds and why they are enough.** Every handler looks at one line, the table
and two counters. Three lines are the shortest programs in which a definition, an
`.entry` and an `.extern` of one name meet in every order, in which an erroneous
line stands between two good ones, and in which a reference precedes or follows
its definition across code and data; two labels let a line define one and use the
other. The lines were chosen so that each branch of each handler is taken. The
longer golden programs cover every address computation on up to 24 lines. The
numbers in `encoding` lie next to each power of two and at each limit in the
code. Two arguments suffice for what one call leaves for the next. In `text` the
limit is the code's own, and the texts reach it, miss it by one and exceed it;
three characters are enough for every pair of neighbours behind a beginning, and
the ends of up to four characters behind given beginnings reach what short texts
do not: a string with blanks, commas or more quotes behind it, empty operands.

**Fairness.** Weak fairness of the next step in `Assembler` and `Driver`, in
`LineReader` of the steps of a pass (`FirstPass` alone states none): the
process is sequential and its calls return, so while it can take a step it
takes one. Whether a second pass follows (`Rewind`) depends on what the lines
mean, and no fairness is assumed of it; nor of any other particular action, nor
of the success of a call.

**Mutants.** Each property has a variant of a mapped definition with a plausible
bug (`mutants` in `PROJECT.json`; the variants stand in the modules beside the
definitions, marked "Variant with a bug") under which TLC finds it violated.

## 4. What is proved

For every value of the constants: every set of names, every program of
well-formed lines of any length, every file and line length, every command line,
every choice of failing calls but where the theorem says otherwise. The
assumptions are `NamesAssumption` and `MnemonicAssumption` (`Line`),
`NullAssumption` (`LineParser`: the null pointer is no string),
`FaultsAssumption` (`Consts`), `ReaderAssumption` (`LineReader`),
`SourcesAssumption` (`FirstPass`), `CommandLinesAssumption` (`Driver`) and
`EncodingAssumption` (`Encoding`), all evaluated by TLC in the passing runs.
`ReaderAssumption` excludes NUL characters from files (section 6).
`EncodingAssumption` is what the passes hand to an encoder: well-formed lines of
the encoder's kind, an `.asciz` with its string (without one the process dies),
and a table in which `DefinedOnce` holds.

| Theorem | Statement |
|---|---|
| `ReaderTypes` | `LineReader!Spec => []ReaderTypeOK`: the line buffer is never exceeded |
| `ReaderImplementsLineSource` | `LineReader!Spec => ImplementsLineSource` |
| `ByteBufferIsLargeEnough` | `LineReader!Spec => []ByteBufferSuffices` |
| `ReaderHandsOverWellFormed` | `LineReader!Spec => []HandsOverWellFormed` |
| `ReaderLosesNothing` | `LineReader!Spec => []ParseLosesNothing`, for lines without a string, up to a semicolon |
| `ReaderQuotesStrings` | `LineReader!Spec => []StringIsQuoted` |
| `FirstPassTypes` | `FirstPassSpec => []TypeOK` |
| `FirstPassDefinesOnce` | `FirstPassSpec => []DefinedOnce` |
| `FirstPassOneKind` | `FirstPassSpec => []OneKind` |
| `FirstPassCountsCode` | `FirstPassSpec => []CodeCounted`; `dc` is never behind the image |
| `FirstPassDeclares` | `FirstPassSpec => []Declared`, the invariant behind the next two |
| `FirstPassCountsData` | `FirstPassSpec => []DataCounted` |
| `FirstPassResolvesDeclarations` | `FirstPassSpec => []DeclarationsResolved` |
| `FirstPassImplementsNamespace` | `FirstPassSpec => ImplementsNamespace` |
| `AddSymbolKeepsTable`, `DirectiveBytes` | what a call of `addSymbol` and of `directiveToBytes` returns or preserves |
| `AssemblerTypes` | `Assembler!Spec => []AsmTypeOK` |
| `AssemblerAllOrNothing` | `Assembler!Spec => []AllOrNothing` |
| `AssemblerPassesAgree` | `Assembler!Spec => []PassesAgree` |
| `AssemblerRejects` | `Assembler!Spec => []RejectedLinesLeaveNothing` |
| `AssemblerListsEntries` | `Assembler!Spec => []EntriesComplete` |
| `AssemblerExternalsAreTrue` | `Assembler!Spec => []ExternalsSound` |
| `AssemblerListsExternals` | `Assembler!Spec => []ExternalsComplete`, if `malloc` does not fail |
| `AssemblerLaysOut` | `Assembler!Spec => []ObjectLayout`, if `fprintf` does not fail |
| `AssemblerResolvesReferences` | `Assembler!Spec => []ReferencesResolved`, if `fprintf` does not fail |
| `InstructionsAreJudged` | `Encoding!Spec => []InstructionVerdict` |
| `InstructionsReadBack` | `Encoding!Spec => []InstructionDecodesBack`, numbers as far as their fields hold them |
| `DirectivesAreJudged` | `Encoding!Spec => []DirectiveVerdict`, for lists without -2^31 in a `.dw` |
| `DataReadsBack` | `Encoding!Spec => []DataDecodesBack` |
| `DriverImplementsBatch` | `DriverSpec => ImplementsBatch` |
| `DriverAllOrNothing` | `DriverSpec => []AllOrNothing` |
| `DriverOutputIsTrue` | `DriverSpec => [](PassesAgree /\ RejectedLinesLeaveNothing /\ EntriesComplete /\ ExternalsSound)` |
| `DriverOutputIsComplete` | `DriverSpec => [](ObjectLayout /\ ReferencesResolved /\ ExternalsComplete)`, if neither `malloc` nor `fprintf` fails |
| `DriverTypes` | `DriverSpec => [](inCall => AsmTypeOK)` |

The two hypotheses about failing calls are the code's own: `parseInstruction`
drops what `addExternal` returns, so without memory a row of `.ext` is missing
from output that is kept, and `secondPass` drops what `printLineToFile` returns
(run `lost_row`). With these failures the properties are false, not unproved;
`assembler_faults` checks what still holds.

**First pass and symbol table.** The inductive invariant is
`Inv == TypeOK /\ TableOK(symbolTable)` in `FirstPassProofs`. `TableOK`
strengthens `DefinedOnce` and `OneKind` by two facts neither of them says: a
symbol has at least one flag (else a merge with `.entry` could leave `{ENTRY}`
with an address), and no address is below -1 (else the relocation could turn
some -n into -1, the mark of an undefined label). That only valid labels enter
the table (`Labels`, part of the type) rests on `ValidLabels`. `OperatorProofs` shows what
one call of the table does: `FindIsFirst` (the search returns the first match; it
rests on the well-foundedness of the subset ordering, which replaces an
induction), `AddSymbolCases` (a call does nothing, appends or merges), and from
these `AddSymbolKeepsTable` and `RelocateKeepsTable`, and that `directiveToBytes`
returns bytes, as many as `dc` grows. `FirstPassProofs` has one
lemma per action. `NamespaceProofs` shows where a search ends after an append or a
merge (`FindInAppend`, `FindSameLabels`), that a call changes the meaning of at
most the name it is given (`AddSymbolDeclares`), that the relocation is the one
`Move`, and puts these together per action.

**What the first pass reads off the text.** `Declared` relates the table to the
lines before `pos` in both directions: what a line declares is `Entered`, if no
error was reported, and whatever mark the table has is `Justified` by a line. The
first half alone is not inductive: `DeclarationsResolved` does not exclude a
symbol from nowhere, which the next declaration of that name would meet.
`Survived` remembers that a line the loop got past had its operand, without which
the sizes of the data would not be numbers. No sum over lines is folded:
`DataOffset` is the number of byte places of the lines before, a cardinality, and
`NextDataOffset` is its step, as `NextCodeAddress` is that of `CodeAddress`.

**What the files say.** `ResultInv` carries the result of the first pass
(`FirstPassResult`) past every later statement, so that the rest speaks of the
text and the table alone. `EntriesInv` says that the rows of `.ent` are those of
the table; `EntryRowsAreComplete` compares them with the text through `Justified`
and `Entered`. `ExternalsInv` has two parts with different fates: every row noted
is a use (`ExternalRows`, whatever fails) and every use is noted (`UsesNoted`,
while memory lasts). `ObjectInv` follows the object file: its header, then the
rows of the code so far (`CodeRows`: gapless, one accepted word per instruction
line at the address `CodeAddress` gives it), then `code \o DataRows(dataImage)`.
`DataLayout` says where byte k of the image is in rows of four; `PaddedCode` that
code rows are full, so the data begins where `ic` says. For
`ReferencesResolved` the word of a row is read back bit by bit
(`JumpReadsBack`, `ImmediateReadsBack` in `OperatorProofs`) and the symbol it
used is the one that defines the label (`UsedSymbol`). `TypeInv` strengthens
`AsmTypeOK` by the table and by the types of the files at each statement.

**Encoders.** The invariant is `CallInv`: the line is one of the given ones and
the result is that of the call. The rest is about the operators.
`AcceptsInstruction` says, format by format, when `parseInstruction` returns
`GOOD`, in the words of the code; `TakesIsAcceptable` that this is `Takes`, the
list a reader of the instruction set expects. A word is a set of bits, so that a
field is read back by showing that no other field reaches into its bits;
`RFields`, `IFields` and `JFields` do it for the four bytes at once.
`InstructionDecodesBack` says nothing of a jump to a label whose address is not
one of 25 bits (`Reached`): the code does not test it, and the address -1 of a
name only `.entry` mentions is not. Of an immediate or a distance it says that the
signed field is that number if the field can hold it (`SignExtended`); the code
accepts others (run `immediate_range`) and tests no distance.
`ParameterErrorCases` finds the first element
that does not fit; `ElementBytes` cuts the bytes of an element out of the image,
and `SignedByte`, `SignedHalf`, `SignedWord` turn them back into the number. The
last one has the 17 bits as hypothesis because the distances of the shifts add
up (run `word_bytes`).

**Output files.** `OutputInv(old)` says which files are there at which statement,
`old` being what the call found. It has to remember what `AllOrNothing` does not
say: a failure before the data image is written stays in `failed` through the
whole second pass, while the object file is already there; the entries may fail
and the externals are still written. The parameter makes the invariant usable
twice: with the initial disk for `Assembler`, with the aged store for a call
inside `Driver`; `FilesInv` hides it.

**The two passes.** `AddressInv` carries what the first pass counted over into the
second: `ic` keeps it, and `codeIc` is, line by line, the address `CodeAddress`
reads off the text. The step from one to the other is `PassesSeeTheSameLines`: but
for an unknown directive, "an instruction by elimination" and "does not start with
a dot" are the same lines, because only `.asciz` can carry an error. `VerdictInv`
says that an error of a line behind the loop is in `ec`, and later in `failed`. It
needs `VerdictIgnoresAddress`: whether a line is rejected does not depend on where
it is, since the reach of a branch is not tested.

**The program.** `DriverInv` adds to `OutputInv` of the active call that the
argument is one of `argv` and that the store holds files. Under the refinement a
call is invisible until it ends (the files of `Batch` are those of the store) or
until the process dies in it, and then `OutputInv` says that its files are those
it found. `Begun` is what all invariants of a call start from: fresh variables
and files of others on the disk. `AsmInit` is a case of it (`InitIsBegun`), and
so is the state in which `assemblePath` calls `assembleFile` (`StartFileBegins`);
so `ContentInv`, the conjunction of the invariants of a call, carries over to
each call of the program (`CallsInv`), and with it all that is proved of
`Assembler`: what `main` assembled before leaves no trace in the output.

**Reader and parser.** `LinesInv` says which line the reader is in and how much
of it is in the buffer. Lines are counted by `Seen`, the number of line beginnings
before a position; `SeenNext` (up to the next newline there is one more) is what
moves it. `ParamsFit` bounds the parameters of a text by its length: there is at
most one more than it has characters, and a word and its delimiter are gone
before them, so even a line of commas only fits. `ReaderHandsOverWellFormed`
discharges the second half of `SourcesAssumption`: the programs `FirstPass` is
proved and checked for are those a file can hold.

**What a parse keeps.** `ParseLosesNothing` and `StringIsQuoted` squeeze
delimiters out of texts (`Without`) and put the parameters together again
(`Separated`), both folds over a sequence. The prover cannot instantiate an
induction theorem, so `PositionInduction` is proved for a set of positions, by its
least counterexample, and `Flattens` describes a `FlattenSeq` by its values step
by step; `FlattenAppend` and `FlattenConcat` follow, and with them that `Without`
of a concatenation is that of its parts.

* `FirstWord` says what `strtok` returns: the text up to the first delimiter
  behind the word, and `HeadPlace` where word and operands then stand in a line
  with or without a label. The rest is blanks, which the squeeze takes away.
* `Separators` numbers the commas by `Rank`, how many of them are before a
  position, so that the pieces `strsep` cuts are those between two neighbours;
  `SeparatedAgain` joins them to the text they were cut from, the empty ones
  included.
* In an `.asciz` line the opening quote is said to be the one behind the label and
  the word and one delimiter. There is at most one such place: two beginnings of
  a line that differ by a character that is no delimiter differ when squeezed
  (`BeginningsDiffer`, `OneOpening`). `TwoQuotes` finds the closing one behind it.
  So a string that is accepted has its two quotes, and a line that has them is
  accepted, with what stands between them.

Only model-checked: liveness (`PassEnds`, `DriverTermination`), which this prover does not handle, and `MatchesGoldenFiles`, an instance by nature.

## 5. Known divergences without a run of their own

Symbols and lines:

* `.extern` of a name that exists appends a second symbol that no search reaches
  (`symbolTable.c:42`); the model keeps it, `DefinedOnce` speaks of it.
* `symbolTable.c:106` says of a valid label that it "isn't longer than
  MAX_LABEL_LENGTH", 31; `isValidLabel` takes one off the length and lets a label
  of 32 characters into the table, whose every use `readLabel` then refuses.
  `Labels`, and with it `TypeOK`, is stated with the 32 of the code; a name of 33
  is in `first_pass`, one of 32 in `encoding`.
* A line with a label alone is dropped with its label.
* `.entry A,B` ignores `B`, and a label on an `.entry` line.
* A rejected label on a directive also drops the directive's data, and its error
  is printed twice, behind `addSymbol` and behind `directiveToBytes`.

Text:

* The example at `line.c:6-8`, `strToLine("label: a b,c ;comment")` with the result
  `a->b->c->NULL`, drops the comment; the code hands all that follows the word to
  `parseParameters`, so `;comment` becomes part of the last operand.
  `ParseLosesNothing` says nothing of the text behind a semicolon.
* Only a `;` in the first column begins a comment; an indented one is the word of
  an instruction.
* A badly quoted `.asciz` line, for instance with two blanks before the quote, is
  skipped by both passes without a message: its error is stored and not printed.
* The word delimiters are blank and tab; a carriage return is part of a word, so
  `stop` on a line that ends in one is no known instruction.

Numbers:

* `directive.c:147` says that `outOfBounds` refuses what cannot "be represented by
  byteCount bytes"; `WORD_MIN` is -2147483647, so `.dw -2147483648` is refused
  although four bytes hold it. `DirectiveVerdict` excepts that number.
* `.db`, `.dh` and `.dw` without parameters define no byte and are accepted.
* The distance of a branch is cut to 16 bits, and the address of a jump is not
  cut to its 25.

Files and program:

* The comment at `assembler.c:8` says "ends with .asm"; the code takes a name with
  `.as` anywhere in it and cuts it at the first one.
* `true_only_code.ob`, which `tests/test.cpp:927` compares, is not what the code
  writes for `true_only_code.as`: the file has the header `48 0`, the code writes
  `52 0`; the row 0112 of `jmp Next` is missing and two branches are those of
  `ps.as`. The test passes because `compareFiles` (`tests/utility.cpp:31`) looks at
  carriage returns only. `MatchesGoldenFiles` compares the `.ext` file of this
  program and the absence of an `.ent` file.
* `main` returns 0 whatever became of the files.
* A failed write prints nothing, and some codes have no or an empty text in
  `consts.c`. The results of `addExternal` and `fclose` are not looked at.

## 6. Not modelled

* A write failure that only `fclose` reports; a failure of the allocations inside
  `strToLine`, whose results the code does not check.
* The buffer for the file names, whose size the code does not check, and the
  length of a path.
* NUL characters in a source file, and read errors of the stream (`getc` returns
  a character or the end).
* Numbers beyond what TLC can count: `parseLong` is stated with the limits of a
  `long`, `atoi` with the cut to an `int`, and no text of a run reaches them.
* The wording of messages; the release of memory.
* `src/tests`: read for what they expect; their programs are those of
  `MCAssembler`.

## 7. Done and left

Done: every component whose state matters is a module with its runs, composed up
to `main`; three abstract specifications with their refinements, checked and
proved; every safety invariant of the first pass, of `assembleFile`, of the
encoders, of the line parser and of the reader proved for every value of the
constants.

Left: nothing that is in reach of these tools. A failing `fclose` and failing
allocations inside `strToLine` (section 6) would need the model to say what the
program does behind a result it does not look at.
