\* Both encoders against the fields a processor reads.
CONSTANTS
    NULL = NULL
    Names <- MCNames
    Words <- MCWords
    NameLen <- MCNameLen
    Faults = {"malloc"}
    DirectiveLines <- MCDirectiveLines
    InstructionLines <- MCInstructionLines
    Table <- MCTable
    Addresses <- MCAddresses
SPECIFICATION Spec
INVARIANTS DataDecodesBack DirectiveVerdict InstructionDecodesBack InstructionVerdict
