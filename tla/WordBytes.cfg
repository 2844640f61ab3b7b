\* A .dw number of more than 17 bits.
CONSTANTS
    NULL = NULL
    Names <- MCNames
    Words <- MCWords
    NameLen <- MCNameLen
    Faults = {}
    DirectiveLines <- MCDirectiveLines
    InstructionLines <- MCInstructionLines
    Table <- MCTable
    Addresses <- MCAddresses
SPECIFICATION Spec
INVARIANTS WordsDecodeBack
