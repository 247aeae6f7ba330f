\* Player 0 may die at any moment and is eliminated after two timeouts; the
\* other player and the spectator go on.
CONSTANTS
    NbPlayers = 2
    NbSpectators = 1
    Client = {0, 1, 2}
    Limit = 3
    Slow = {}
    Mortal = {0}
    MaxTimeout = 2
    SizeT = 16
SPECIFICATION FairSpec
INVARIANTS
    TypeOK
    RoundsAgree
    TimeoutsDeserved
    SpectatorsCounted
PROPERTIES
    Termination
    ImplementsRounds
