\* A client names a seat, another names none.
CONSTANTS
    Applicant = {a, b}
    NbPlayers = 2
    NbSpectators = 0
    Wanted <- AutoOrSeat
    Stale = {}
    LateSubscriber = {}
SPECIFICATION Spec
CHECK_DEADLOCK FALSE
INVARIANT
    AutoIdGranted
