\* An object file of an earlier run outlives a failed one.
CONSTANTS
    NULL = NULL
    MaxLines = 2
    MCLines <- FaultLines
    MCPrograms <- NoPrograms
    Names <- MCNames
    Words <- MCWords
    NameLen <- MCNameLen
    Intern <- StringOf
    Sources <- MCSources
    Faults = {}
SPECIFICATION Spec
INVARIANTS ErrorLeavesNoObject
