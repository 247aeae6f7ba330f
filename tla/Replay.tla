------------------------------- MODULE Replay -------------------------------
(***************************************************************************)
(* A match played again from the file its server has saved: stechec2-replay *)
(* (src/replay/replay.cc) and TurnBasedRules::replay_loop.  The file holds *)
(* a list of actions per turn, then the result; nothing in it says whose   *)
(* turn a list is for nor where the lists end.  replay_loop finds both for *)
(* itself, by running the hooks of the game and asking is_finished() at a  *)
(* place of its own, once per round and before the round starts.           *)
(***************************************************************************)
EXTENDS TurnBased, SequencesExt

\* Where a replay of a file is: the lists left to read, the turns applied, the
\* hooks run, and whether it has stopped on an error.
ReplayInit(saved) == [file |-> saved, turns |-> <<>>, ticks |-> 0, error |-> FALSE]

\* apply_action of every action, in the turn of client id.
ReplayAccepts(turns, id, actions) ==
    LET taken == UNION {{a.cell : a \in ToSet(t.actions)} : t \in ToSet(turns)}
    IN  Strict => \A a \in ToSet(actions) : a.player = id /\ a.cell \notin taken

\* One turn: the next list is read and applied, be it a spectator's.  Past the
\* last list there is the result, which is no list of actions.
ReplayTurn(r, id) ==
    LET actions == Head(r.file).actions IN
    IF r.error \/ r.file = <<>> \/ ~ReplayAccepts(r.turns, id, actions)
    THEN [r EXCEPT !.error = TRUE]
    ELSE [r EXCEPT !.file = Tail(@),
                   !.ticks = @ + IF id \in Player THEN Hit("player_turn") ELSE 0,
                   !.turns = IF id \in Player \/ actions # <<>>
                             THEN Append(@, TurnOf(id, actions)) ELSE @]

\* The turn of a player, and those of the spectators after it.
ReplayPlayer(r, p) ==
    LET After[s \in 0 .. NbSpectators] ==
          IF s = 0 THEN ReplayTurn(r, p) ELSE ReplayTurn(After[s - 1], NbPlayers + s - 1)
    IN  After[NbSpectators]

\* Mutant: the loop over players_ stops where the game ends.
ReplayPlayersUnlessOver(r) ==
    LET After[p \in 0 .. NbPlayers] ==
          IF p = 0 THEN r
          ELSE IF Over(After[p - 1].ticks) THEN After[p - 1]
               ELSE ReplayPlayer(After[p - 1], p - 1)
    IN  After[NbPlayers]

\* The loop over players_.
ReplayPlayers(r) ==
    LET After[p \in 0 .. NbPlayers] ==
          IF p = 0 THEN r ELSE ReplayPlayer(After[p - 1], p - 1)
    IN  After[NbPlayers]

ReplayRound(r) ==
    LET played == ReplayPlayers([r EXCEPT !.ticks = @ + Hit("start_of_round")])
    IN  IF played.error THEN played
        ELSE [played EXCEPT !.ticks = @ + Hit("end_of_round")]

\* replay_loop; no game has more than Limit rounds.
ReplayLoop(saved) ==
    LET After[n \in 0 .. Limit] ==
          IF n = 0 THEN ReplayInit(saved)
          ELSE LET before == After[n - 1] IN
               IF before.error \/ Over(before.ticks) THEN before ELSE ReplayRound(before)
    IN  After[Limit]

\* "To create a standalone copy of a match, you can create a match replay file"
\* (doc/rules.rst:686): whoever has died or been eliminated in it, the file of
\* a finished match leads replay_loop to the state of the server, and is read
\* up to the result and no further.
ReplayRebuilds ==
    spc = "done" =>
        LET r == ReplayLoop(replay) IN
        ~r.error /\ r.file = <<>> /\ r.turns = log[Server]
=============================================================================
