SPECIFICATION Spec
CONSTANTS
    ByteValues = 4
    NRegs = 3
    RamBase = 16
    RamSize = 16
    BpredEnabled = TRUE
    BhtEntries = 2
    BtbEntries = 2
    alu <- MCalu
    compare <- MCcompare
    Programs <- HalfwordTarget
    InitRegs <- MCRegs
    InitMems <- MCMems
INVARIANT DirectionIsEnough
CHECK_DEADLOCK FALSE
