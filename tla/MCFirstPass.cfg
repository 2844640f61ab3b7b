\* Every kind of line, any allocation may fail.
CONSTANTS
    NULL = NULL
    MaxLines = 3
    Names <- MCNames
    Words <- MCWords
    NameLen <- MCNameLen
    Sources <- MCSources
    Faults = {"malloc"}
SPECIFICATION FirstPassSpec
INVARIANTS TypeOK CodeCounted DataCounted DeclarationsResolved DefinedOnce OneKind
PROPERTIES ImplementsNamespace
