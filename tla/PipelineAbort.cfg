SPECIFICATION Spec
CONSTANTS
    ByteValues = 4
    NRegs = 3
    RamBase = 16
    RamSize = 16
    BpredEnabled = TRUE
    BhtEntries = 2
    BtbEntries = 2
    alu <- MCalu
    compare <- MCcompare
    Programs <- ToTheEnd
    InitRegs <- MCRegs
    InitMems <- MCMems
INVARIANT NoWrongPathAbort
CHECK_DEADLOCK FALSE
