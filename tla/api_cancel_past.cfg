\* A game that never clears its history, as plusminus.
CONSTANTS
    Cell = {w, x, y, z}
    MaxActions = 2
    ClearsHistory = FALSE
    PlaysInInit = FALSE
SPECIFICATION Spec
CHECK_DEADLOCK FALSE
INVARIANT
    NoEmptyPop
