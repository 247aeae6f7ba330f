\* A game found finished in the turn of the last player, as tictactoe is.
CONSTANTS
    NbPlayers = 2
    NbSpectators = 1
    Client = {0, 1, 2}
    Cell = {x}
    FinishHook = "player_turn"
    Limit = 4
    Strict = TRUE
    Slow = {}
    Mortal = {}
    MaxConsecutiveTimeout = 3
SPECIFICATION FairSpec
INVARIANT
    SpectatorsSeeEveryTurn
CHECK_DEADLOCK FALSE
