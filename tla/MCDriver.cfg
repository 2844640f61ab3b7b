\* No call fails: what the files of a run say, one file or two.
CONSTANTS
    NULL = NULL
    MaxLines = 3
    MCLines <- LinkLines
    MCPrograms <- LinkPrograms
    Names <- MCNames
    Words <- MCWords
    NameLen <- MCNameLen
    Intern <- StringOf
    Sources <- MCSources
    Faults = {}
    Bases <- MCBases
    MCBatches <- LinkBatches
    CommandLines <- MCCommandLines
SPECIFICATION DriverSpec
INVARIANTS PassesAgree ObjectLayout ReferencesResolved ExternalsComplete EntriesComplete MatchesGoldenFiles
