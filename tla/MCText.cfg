\* Both passes over every file: what they are handed and how it is parsed.
CONSTANTS
    NULL = NULL
    Faults = {}
    LINE_LENGTH = 80
    MaxText = 3
    MaxEnd = 4
    Intern <- StringOf
    Names <- MCNames
    Words <- MCWords
    NameLen <- MCNameLen
    Files <- MCFiles
SPECIFICATION Spec
INVARIANTS ReaderTypeOK HandsOverWellFormed ParseLosesNothing StringIsQuoted ByteBufferSuffices
PROPERTIES ImplementsLineSource PassEnds
