SPECIFICATION Spec
CONSTANTS
    Tree <- MCTree
    Worlds <- MCWorlds
    N = 2
    Ntry = 3
INVARIANTS
    RightPlace
    SavedWhole
PROPERTY Ends
