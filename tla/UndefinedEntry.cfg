\* A label that only .entry mentions is used at address -1.
CONSTANTS
    NULL = NULL
    MaxLines = 2
    MCLines <- LinkLines
    MCPrograms <- NoPrograms
    Names <- MCNames
    Words <- MCWords
    NameLen <- MCNameLen
    Intern <- StringOf
    Sources <- MCSources
    Faults = {}
SPECIFICATION Spec
INVARIANTS JumpTargetsAreValid
