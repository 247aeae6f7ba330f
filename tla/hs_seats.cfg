\* Three clients, with wrong ids, the same one or none, a late subscriber and
\* maybe a leftover request of an earlier match.  The model ends where the match
\* starts: no deadlock check.
CONSTANTS
    Applicant = {a, b, c}
    NbPlayers = 1
    NbSpectators = 1
    Wanted <- AutoOrAnything
    Stale = {s}
    LateSubscriber = {a}
SPECIFICATION FairSpec
CHECK_DEADLOCK FALSE
INVARIANTS
    SeatIsMine
    SeatsFilled
    RosterShared
PROPERTY
    EveryoneSeated
