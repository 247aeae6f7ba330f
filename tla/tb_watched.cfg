\* Two players and one spectator, a game that ends at the start of a round and
\* applies whatever it receives.  Player 0 may answer after the deadline,
\* player 1 may die at any moment; both are eliminated by their first timeout.
\* Late answers shift all the later ones and the last client waits for ever:
\* no deadlock check.
CONSTANTS
    NbPlayers = 2
    NbSpectators = 1
    Client = {0, 1, 2}
    Cell = {x}
    FinishHook = "start_of_round"
    Limit = 3
    Strict = FALSE
    Slow = {0}
    Mortal = {1}
    MaxConsecutiveTimeout = 1
SPECIFICATION FairSpec
CHECK_DEADLOCK FALSE
INVARIANTS
    TypeOK
    LockStep
    StreamAligned
    RequestFromTurn
    SharedFinalState
    SpectatorsSeeEveryTurn
    ForeignTurnsAgree
PROPERTY
    Termination
