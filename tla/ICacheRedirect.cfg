SPECIFICATION Spec
CONSTANTS
    NLines = 4
    Sets = 2
    Ways = 1
    Setups <- InstructionCaches
INVARIANT ServedWasLookedUp
