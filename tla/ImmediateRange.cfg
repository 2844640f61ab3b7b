\* An immediate that does not fit 16 bits.
CONSTANTS
    NULL = NULL
    Names <- MCNames
    Words <- MCWords
    NameLen <- MCNameLen
    Faults = {}
    DirectiveLines <- MCDirectiveLines
    InstructionLines <- MCInstructionLines
    Table <- MCTable
    Addresses <- MCAddresses
SPECIFICATION Spec
INVARIANTS ImmediatesAre16Bit
