SPECIFICATION Spec
CONSTANTS
    ByteValues = 4
    NRegs = 2
    RamBase = 16
    RamSize = 8
    Files <- MCFiles
    Texts <- MCTexts
    Pokes <- MCPokes
    MaxCalls = 3
INVARIANT IoErrorsThrow
CHECK_DEADLOCK FALSE
