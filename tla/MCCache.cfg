SPECIFICATION Spec
CONSTANTS
    NLines = 6
    Sets = 2
    Ways = 2
    Setups <- CoreCaches
INVARIANTS TypeOK NoDuplicateLines NoLostWriteback AccessCost PrefetchAccounted
