\* Player 0 may answer after the deadline.  It may be left waiting for an
\* acknowledgement when the server stops: no deadlock check.
CONSTANTS
    NbPlayers = 2
    NbSpectators = 1
    Client = {0, 1, 2}
    Limit = 3
    Slow = {0}
    Mortal = {}
    MaxTimeout = 2
    SizeT = 16
SPECIFICATION Spec
CHECK_DEADLOCK FALSE
INVARIANTS
    ForeignActionsAgree
    OncePerAction
    ReplayRebuilds
