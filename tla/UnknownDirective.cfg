\* A word with an unknown leading dot takes an address and no code.
CONSTANTS
    NULL = NULL
    MaxLines = 2
    MCLines <- FaultLines
    MCPrograms <- NoPrograms
    Names <- MCNames
    Words <- MCWords
    NameLen <- MCNameLen
    Intern <- StringOf
    Sources <- MCSources
    Faults = {}
SPECIFICATION Spec
INVARIANTS CountedLinesAreProcessed
