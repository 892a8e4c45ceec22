SPECIFICATION CoreSpec
CONSTANTS
    ByteValues = 4
    NRegs = 3
    RamBase = 16
    RamSize = 40
    BpredEnabled = TRUE
    BhtEntries = 2
    BtbEntries = 2
    alu <- MCalu
    compare <- MCcompare
    Programs <- CorePrograms
    InitRegs <- OperandRegs
    InitMems <- SignedMems
    ILineBytes = 8
    DLineBytes = 4
    ISets = 2
    IWays = 1
    DSets = 1
    DWays = 2
    Configs <- CoreConfigs
INVARIANTS CoreTypeOK LogReplays BranchAccounting CycleLaw KeepsRetiring DataPortInStep ExitTellsOutcome
PROPERTIES ImplementsIsa OverrunIsMisaligned Terminates
CHECK_DEADLOCK FALSE
