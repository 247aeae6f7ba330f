\* A late answer, and a prompt one after it.
CONSTANTS
    NbPlayers = 2
    NbSpectators = 0
    Client = {0, 1}
    Limit = 3
    Slow = {0}
    Mortal = {}
    MaxTimeout = 3
    SizeT = 16
SPECIFICATION Spec
CHECK_DEADLOCK FALSE
INVARIANT
    TimeoutsDeserved
