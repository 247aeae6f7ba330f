------------------------- MODULE SynchronousReplay -------------------------
(***************************************************************************)
(* A synchronous match played again from the file its server has saved:    *)
(* SynchronousRules::replay_loop.  The file holds a list of actions per    *)
(* round, then the result; where the lists end is not in it.               *)
(***************************************************************************)
EXTENDS Synchronous

\* Where a replay of a file is: the lists left to read, the rounds applied, and
\* whether it has taken the result for a list.
ReplayInit(saved) == [file |-> saved, rounds |-> <<>>, error |-> FALSE]

\* A round: the next list is read and all of it is applied.
ReplayRound(r) ==
    IF r.file = <<>> THEN [r EXCEPT !.error = TRUE]
    ELSE [r EXCEPT !.file = Tail(@),
                   !.rounds = Applied(OpenRound(@), Head(r.file))]

\* replay_loop; no game has more than Limit rounds.
ReplayLoop(saved) ==
    LET After[n \in 0 .. Limit] ==
          IF n = 0 THEN ReplayInit(saved)
          ELSE LET before == After[n - 1] IN
               IF before.error \/ Over(before.rounds) THEN before ELSE ReplayRound(before)
    IN  After[Limit]

\* "To create a standalone copy of a match, you can create a match replay file"
\* (doc/rules.rst:686): whoever has been late, died, or come back once
\* eliminated, the file of a finished match leads replay_loop through the very
\* rounds of the server, and is read up to the result and no further.
ReplayRebuilds ==
    spc = "done" =>
        LET r == ReplayLoop(replay) IN
        ~r.error /\ r.file = <<>> /\ r.rounds = log[Server]
=============================================================================
