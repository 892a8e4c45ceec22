SPECIFICATION Spec
CONSTANTS
    NLines = 3
    Sets = 1
    Ways = 2
    Setups <- LiveCaches
PROPERTY KeepsServing
