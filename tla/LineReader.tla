------------------------------ MODULE LineReader ------------------------------
(***************************************************************************)
(* How the two passes read the source file: fgetsShred (helper.c), one     *)
(* character of the stream at a time, inside the loops of firstPass and    *)
(* secondPass (assembler.c), which parse each line and count it.           *)
(***************************************************************************)
EXTENDS LineParser, Directive, FiniteSets

CONSTANTS
    Files,          \* the contents a source file may have
    LINE_LENGTH     \* characters of a line that are kept, 80 in the code

WORD_SIZE == 4

(* Variant with a bug: room for a byte a character.                        *)
ByteBufferSize_Chars == LINE_LENGTH

ByteBufferSize == LINE_LENGTH * WORD_SIZE

ASSUME ReaderAssumption ==
    /\ LINE_LENGTH \in Nat \ {0}
    /\ \A f \in Files : f \in Seq(Char \ {0})

VARIABLES
    file,         \* the file that is read
    at,           \* the position of the stream: the next character
    buffer,       \* lineStr, as far as it is filled
    line,         \* the text the loop body works on, NULL before the first
    lineNumber,
    pass,
    pc            \* "fgets" the call, "fill" and "shred" its loops,
                  \* "parse" its return, "end" the end of a pass

vars == <<file, at, buffer, line, lineNumber, pass, pc>>

Init ==
    /\ file \in Files
    /\ at = 1
    /\ buffer = <<>>
    /\ line = NULL
    /\ lineNumber = 1
    /\ pass = 1
    /\ pc = "fgets"

EOF == at > Len(file)

(* getc returned the end of the file or of the line.                       *)
Ends == ~EOF => file[at] = NEWLINE

Getc == at' = IF EOF THEN at ELSE at + 1

(* The first character is pushed back to be read in the loop.              *)
BeginLine ==
    /\ pc = "fgets"
    /\ ~EOF
    /\ buffer' = <<>>
    /\ pc' = "fill"
    /\ UNCHANGED <<file, at, line, lineNumber, pass>>

(* Variant with a bug: the buffer's length is not looked at.               *)
Fill_Unbounded ==
    /\ pc = "fill"
    /\ ~Ends
    /\ buffer' = Append(buffer, file[at])
    /\ Getc
    /\ UNCHANGED <<file, line, lineNumber, pass, pc>>

Fill ==
    /\ pc = "fill"
    /\ Len(buffer) < LINE_LENGTH
    /\ ~Ends
    /\ buffer' = Append(buffer, file[at])
    /\ Getc
    /\ UNCHANGED <<file, line, lineNumber, pass, pc>>

(* Variant with a bug: like fgets, leaves the rest to be the next line.    *)
BufferFull_Keep ==
    /\ pc = "fill"
    /\ Len(buffer) = LINE_LENGTH
    /\ pc' = "parse"
    /\ UNCHANGED <<file, at, buffer, line, lineNumber, pass>>

BufferFull ==
    /\ pc = "fill"
    /\ Len(buffer) = LINE_LENGTH
    /\ pc' = "shred"
    /\ UNCHANGED <<file, at, buffer, line, lineNumber, pass>>

Shred ==
    /\ pc = "shred"
    /\ ~Ends
    /\ Getc
    /\ UNCHANGED <<file, buffer, line, lineNumber, pass, pc>>

(* Variant with a bug: the last line is waited for to end in a newline.    *)
LineEnd_NewlineOnly ==
    /\ pc = "shred" \/ (pc = "fill" /\ Len(buffer) < LINE_LENGTH)
    /\ Ends
    /\ IF EOF THEN UNCHANGED <<at, pc>> ELSE Getc /\ pc' = "parse"
    /\ UNCHANGED <<file, buffer, line, lineNumber, pass>>

LineEnd ==
    /\ pc = "shred" \/ (pc = "fill" /\ Len(buffer) < LINE_LENGTH)
    /\ Ends
    /\ Getc
    /\ pc' = "parse"
    /\ UNCHANGED <<file, buffer, line, lineNumber, pass>>

(* The loop body, which parses the line and does one thing or another with *)
(* it; in either case it is counted.                                       *)
HandOver ==
    /\ pc = "parse"
    /\ line' = buffer
    /\ lineNumber' = lineNumber + 1
    /\ pc' = "fgets"
    /\ UNCHANGED <<file, at, buffer, pass>>

EndOfFile ==
    /\ pc = "fgets"
    /\ EOF
    /\ pc' = "end"
    /\ UNCHANGED <<file, at, buffer, line, lineNumber, pass>>

(* Variant with a bug: the second pass starts where the first one ended.   *)
Rewind_Missing ==
    /\ pc = "end"
    /\ pass = 1
    /\ pass' = 2
    /\ lineNumber' = 1
    /\ pc' = "fgets"
    /\ UNCHANGED <<file, at, buffer, line>>

(* assembleFile calls secondPass only if firstPass returned GOOD; what the *)
(* lines mean decides that, so here it may or may not happen.              *)
Rewind ==
    /\ pc = "end"
    /\ pass = 1
    /\ pass' = 2
    /\ at' = 1
    /\ lineNumber' = 1
    /\ pc' = "fgets"
    /\ UNCHANGED <<file, buffer, line>>

Reading ==
    \/ BeginLine \/ Fill \/ BufferFull \/ Shred \/ LineEnd \/ HandOver \/ EndOfFile

Over == pc = "end" /\ UNCHANGED vars

(* The passes are loops that go on while there is a character to read.     *)
Spec == Init /\ [][Reading \/ Rewind \/ Over]_vars /\ WF_vars(Reading)
-------------------------------------------------------------------------------
(* Type invariant of the reader: in particular lineStr has room for what   *)
(* is put into it.                                                         *)
ReaderTypeOK ==
    /\ file \in Seq(Char \ {0})
    /\ at \in 1..Len(file) + 1
    /\ buffer \in Seq(Char \ {0}) /\ Len(buffer) <= LINE_LENGTH
    /\ line = NULL \/ (line \in Seq(Char \ {0}) /\ Len(line) <= LINE_LENGTH)
    /\ lineNumber \in Nat \ {0}
    /\ pass \in {1, 2}
    /\ pc \in {"fgets", "fill", "shred", "parse", "end"}

(* The lines of a file, seen from afar: a line begins with the file and    *)
(* behind each newline, unless the file ends there; it ends before the     *)
(* next newline, and what exceeds LINE_LENGTH is not part of it.           *)
Beginnings(f) == {i \in DOMAIN f : i = 1 \/ f[i - 1] = NEWLINE}

TextFrom(f, i) ==
    LET stop == {j \in i..Len(f) : f[j] = NEWLINE} \cup {Len(f) + 1, i + LINE_LENGTH}
    IN  SubSeq(f, i, Min(stop) - 1)

SourceTexts(f) ==
    [k \in 1..Cardinality(Beginnings(f)) |->
        LET i == CHOOSE j \in Beginnings(f) :
                    Cardinality({h \in Beginnings(f) : h <= j}) = k
        IN  TextFrom(f, i)]

LS == INSTANCE LineSource WITH
        TextsOf <- SourceTexts,
        next    <- lineNumber,
        handed  <- line

(* Both passes are handed the lines of the file, each one once, in order   *)
(* and under its number: overlong lines do not spill into new ones, and    *)
(* the second pass starts over only after the first has seen them all.     *)
ImplementsLineSource == LS!Spec

(* A pass comes to its end, also when the last line has no newline.        *)
PassEnds == []<>(pc = "end")

(* The loop body is done with a line.                                      *)
JustParsed == pc = "fgets" /\ lineNumber > 1

lineParsed == strToLine(line)

Read == LineOf(lineParsed)

(* What the passes rely on: a parsed line is one of those they are         *)
(* modelled for, so the programs of FirstPass are those a file can hold.   *)
HandsOverWellFormed == JustParsed => WellFormed(Read)

(* s without the characters in chars.                                      *)
Without(s, chars) ==
    FlattenSeq([i \in DOMAIN s |-> IF s[i] \in chars THEN <<>> ELSE <<s[i]>>])

Squeeze(s) == Without(s, {c \in Char : isspace(c)})

Labelled == IF lineParsed.label = NULL THEN <<>> ELSE Append(lineParsed.label, LABEL_SUFFIX)

Separated(params) ==
    FlattenSeq([k \in DOMAIN params |-> IF k = 1 THEN params[k] ELSE <<COMMA>> \o params[k]])

(* What stands before the first semicolon.                                 *)
Uncommented(s) ==
    LET semicolons == {i \in DOMAIN s : s[i] = COMMENT}
    IN  IF semicolons = {} THEN s ELSE SubSeq(s, 1, Min(semicolons) - 1)

(* No character but blanks is lost, doubled or moved in the parse of a     *)
(* line without a string; no word holds a delimiter, no parameter a comma  *)
(* or blanks at its ends. Nothing is said of what becomes of the text      *)
(* behind a semicolon: the example at line.c:6 drops it, the code keeps it *)
(* as operands.                                                            *)
ParseLosesNothing ==
    JustParsed /\ Read.head # ".asciz" =>
      LET head == IF lineParsed.head = NULL THEN <<>> ELSE lineParsed.head
          params == lineParsed.params
      IN  /\ Uncommented(Squeeze(line))
               = Uncommented(Squeeze(Labelled \o head \o Separated(params)))
          /\ \A i \in DOMAIN Labelled : Labelled[i] \notin WORD_DELIMITERS
          /\ \A i \in DOMAIN head : head[i] \notin WORD_DELIMITERS
          /\ \A k \in DOMAIN params :
               /\ \A i \in DOMAIN params[k] : params[k][i] # COMMA
               /\ params[k] # <<>> => ~isspace(params[k][1]) /\ ~isspace(Last(params[k]))

(* The string of an .asciz line is what stands between two quotes, the     *)
(* first one blank behind the word, the second followed by nothing but     *)
(* blanks; any other such line has an error, or nothing behind the word.   *)
StringIsQuoted ==
    JustParsed /\ Read.head = ".asciz" =>
      LET opening == {i \in 3..Len(line) :
                        /\ line[i] = QUOTE
                        /\ line[i - 1] \in WORD_DELIMITERS
                        /\ line[i - 2] \notin WORD_DELIMITERS
                        /\ Without(SubSeq(line, 1, i - 2), WORD_DELIMITERS)
                             = Labelled \o lineParsed.head}
          closing == {i \in DOMAIN line :
                        line[i] = QUOTE /\ \E j \in opening : j < i}
          string == SubSeq(line, Min(opening) + 1, Min(closing) - 1)
      IN  IF closing # {} /\ \A i \in Min(closing) + 1..Len(line) : isspace(line[i])
          THEN lineParsed.error = GOOD /\ lineParsed.params = <<string>>
          ELSE \/ lineParsed.error # GOOD
               \/ /\ Without(line, WORD_DELIMITERS) = Labelled \o lineParsed.head
                  /\ lineParsed.params = <<>>

(* directive.c:40 "This size will suffice the 'heaviest' case": the bytes  *)
(* of a directive line fit into the buffer they are collected in.          *)
ByteBufferSuffices ==
    JustParsed /\ isLineDirective(Read) /\ Read.error = GOOD =>
        ByteBufferSize >=
          IF Read.head # ".asciz" THEN directiveTypeToSize(Read.head) * Len(Read.params)
          ELSE IF Read.params = <<>> THEN 0 ELSE Len(Read.params[1].val) + 1
===============================================================================
