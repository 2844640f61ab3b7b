\* Any allocation, open or write may fail, in one file or two.
CONSTANTS
    NULL = NULL
    MaxLines = 3
    MCLines <- FaultLines
    MCPrograms <- FaultPrograms
    Names <- MCNames
    Words <- MCWords
    NameLen <- MCNameLen
    Intern <- StringOf
    Sources <- MCSources
    Faults = {"malloc", "fopen", "fprintf"}
    Bases <- MCBases
    MCBatches <- FaultBatches
    CommandLines <- MCCommandLines
SPECIFICATION DriverSpec
INVARIANTS AsmTypeOK AllOrNothing RejectedLinesLeaveNothing ExternalsSound
PROPERTIES ImplementsBatch DriverTermination
