\* Three players, one of which may die at any moment and then times out in
\* every round that is left.  The game is decided in the turn of the second
\* player of the second round: the clients leave at once, the server ends the
\* round without them.
CONSTANTS
    NbPlayers = 3
    NbSpectators = 0
    Client = {0, 1, 2}
    Cell = {x, y}
    FinishHook = "player_turn"
    Limit = 5
    Strict = TRUE
    Slow = {}
    Mortal = {0}
    MaxConsecutiveTimeout = 2
SPECIFICATION Spec
INVARIANTS
    GameStateAgrees
    NoSyncError
    ReplayRebuilds
PROPERTY
    ImplementsMatch
