\* A failed write of an instruction row goes unnoticed.
CONSTANTS
    NULL = NULL
    MaxLines = 2
    MCLines <- FaultLines
    MCPrograms <- NoPrograms
    Names <- MCNames
    Words <- MCWords
    NameLen <- MCNameLen
    Intern <- StringOf
    Sources <- MCSources
    Faults = {"fprintf"}
SPECIFICATION Spec
INVARIANTS WriteErrorsAreNoticed
