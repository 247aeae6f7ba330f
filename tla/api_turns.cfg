\* A game that clears its history after each turn and refuses actions before
\* the first one, as tictactoe; the champion runs in its sandbox.  The cells run
\* out: no deadlock check.
CONSTANTS
    Cell = {w, x, y, z}
    MaxActions = 2
    ClearsHistory = TRUE
    PlaysInInit = FALSE
    HasDeadline = TRUE
SPECIFICATION SandboxFairSpec
CHECK_DEADLOCK FALSE
INVARIANTS
    CancelIsExact
    AgreesWithServer
PROPERTIES
    ImplementsApi
    NothingSentEarly
    TurnsEnd
