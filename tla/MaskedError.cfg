\* The error of an earlier line is overwritten by a later one.
CONSTANTS
    NULL = NULL
    MaxLines = 2
    Names <- MCNames
    Words <- MCWords
    NameLen <- MCNameLen
    Sources <- MCSources
    Faults = {}
SPECIFICATION FirstPassSpec
INVARIANTS ErrorIsReturned
