----------------------------- MODULE TurnBased -----------------------------
(***************************************************************************)
(* A match of a turn-based game: TurnBasedRules::server_loop, player_loop  *)
(* and spectator_loop of src/lib/rules/rules.cc, running in the server and *)
(* in one process per client.  Every process keeps its own copy of the     *)
(* game state and rebuilds it from the actions it sees.                    *)
(*                                                                         *)
(* The game itself is abstracted to what the loops observe of it:          *)
(*   - an action is a player taking a cell, and a turn holds at most one;  *)
(*   - the game state of a process is the log of the player turns it has   *)
(*     applied;                                                            *)
(*   - is_finished() becomes true when a hook of the rules (FinishHook)    *)
(*     has run Limit times.                                                *)
(***************************************************************************)
EXTENDS Sockets, FiniteSets

CONSTANTS
    NbPlayers,              \* config player_count
    NbSpectators,           \* the other --nb_clients
    Cell,                   \* what an action may take
    FinishHook,             \* the hook of the rules that ends the game...
    Limit,                  \* ...and how many times it runs before it does
    Strict,                 \* apply_action checks the action, as in tictactoe
    Slow,                   \* players that may answer after the deadline
    Mortal,                 \* clients that may die at any moment
    MaxConsecutiveTimeout   \* max_consecutive_timeout

Player == 0 .. NbPlayers - 1
Spectator == NbPlayers .. NbPlayers + NbSpectators - 1
Server == -1
Proc == {Server} \union Client

Hook == {"start_of_round", "player_turn", "end_of_round"}

ASSUME PlayersAssumption == NbPlayers \in Nat \ {0}
ASSUME SpectatorsAssumption == NbSpectators \in Nat
ASSUME ClientAssumption == Client = 0 .. NbPlayers + NbSpectators - 1
ASSUME HookAssumption == FinishHook \in Hook
ASSUME LimitAssumption == Limit \in Nat \ {0}
ASSUME StrictAssumption == Strict \in BOOLEAN
ASSUME FaultAssumption == Slow \subseteq Player /\ Mortal \subseteq Client
ASSUME TimeoutAssumption == MaxConsecutiveTimeout \in Nat

Action == [player : Client, cell : Cell]
Turn == [player : Player, actions : Seq(Action)]

VARIABLES
    spc,        \* where server_loop stands
    turn,       \* the player of the server's current turn
    watcher,    \* the spectator of the server's current turn
    received,   \* get_actions() of the server
    nbTimeout,  \* Player::nb_timeout
    replay,     \* what save_player_actions wrote
    cpc,        \* where each client's loop stands
    playing,    \* playing_id
    previous,   \* previous_playing_id (spectators)
    lastId,     \* last_player_id
    lastRound,  \* last_round (spectators)
    log,        \* game state: the player turns each process has applied
    ticks       \* game state: how often FinishHook has run in each process

serverVars == <<spc, turn, watcher, received, nbTimeout, replay>>
clientVars == <<cpc, playing, previous, lastId, lastRound>>
gameVars == <<log, ticks>>
vars == <<socketVars, serverVars, clientVars, gameVars>>

Nobody == -1    \* static_cast<uint32_t>(-1), no player yet

-----------------------------------------------------------------------------
(* The rules of the game, as far as the loops see them. *)

Hit(hook) == IF FinishHook = hook THEN 1 ELSE 0

Over(t) == t >= Limit

Finished(p) == Over(ticks[p])

\* What end_of_round(); if (!is_finished()) start_of_round(); does.
RoundTicks(t) ==
    LET ended == t + Hit("end_of_round") IN
    IF Over(ended) THEN ended ELSE ended + Hit("start_of_round")

Played(p) == {a \in Action : \E i \in DOMAIN log[p] :
                \E j \in DOMAIN log[p][i].actions : log[p][i].actions[j] = a}

FreeCell(p) == {cell \in Cell : \A a \in Played(p) : a.cell # cell}

\* game_state_check of every action, in the turn of player id.
Legal(p, id, actions) ==
    \A j \in DOMAIN actions :
        actions[j].player = id /\ actions[j].cell \in FreeCell(p)

\* apply_action of every action; FATAL when a strict game refuses one.
Accepts(p, id, actions) == Strict => Legal(p, id, actions)

TurnOf(id, actions) == [player |-> id, actions |-> actions]

Apply(p, id, actions) == log' = [log EXCEPT ![p] = Append(@, TurnOf(id, actions))]

\* What the champion of player c may do in its turn: nothing, or one action
\* the API accepts.
ChampionActions(c) ==
    {<<>>} \union {<<[player |-> c, cell |-> cell]>> : cell \in FreeCell(c)}

Gone(c) == cpc[c] \in {"done", "dead", "fatal"}

-----------------------------------------------------------------------------
Init ==
    /\ SocketsInit
    /\ spc = "start"
    /\ turn = 0
    /\ watcher = NbPlayers
    /\ received = <<>>
    /\ nbTimeout = [p \in Player |-> 0]
    /\ replay = <<>>
    /\ cpc = [c \in Client |-> "start"]
    /\ playing = [c \in Client |-> Nobody]
    /\ previous = [c \in Client |-> Nobody]
    /\ lastId = [c \in Client |-> Nobody]
    /\ lastRound = [c \in Client |-> FALSE]
    /\ log = [p \in Proc |-> <<>>]
    /\ ticks = [p \in Proc |-> 0]

-----------------------------------------------------------------------------
(* The server. *)

\* Mutant: players_.front() for players_.back().
FirstPlayer == 0

LastPlayer == NbPlayers - 1

\* The id of the last player is pushed, then the first round starts.
StartMatch ==
    /\ spc = "start"
    /\ Push(IdMessage(LastPlayer))
    /\ ticks' = [ticks EXCEPT ![Server] = @ + Hit("start_of_round")]
    /\ spc' = IF Finished(Server)' THEN "done" ELSE "turn"
    /\ UNCHANGED <<requests, replies, cursor, turn, watcher, received,
                   nbTimeout, replay, clientVars, log>>

\* Mutant: one timeout too many is tolerated.
EliminatedOneLate(p) == nbTimeout[p] > MaxConsecutiveTimeout

Eliminated(p) == nbTimeout[p] >= MaxConsecutiveTimeout

\* Mutant: the buffer keeps the actions of the previous turn.
KeepActions == UNCHANGED received

ClearActions == received' = <<>>

\* The turn of a player starts; an eliminated player is not polled.
BeginTurn ==
    /\ spc = "turn"
    /\ ticks' = [ticks EXCEPT ![Server] = @ + Hit("player_turn")]
    /\ Push(IdMessage(turn))
    /\ ClearActions
    /\ IF Eliminated(turn)
       THEN spc' = "end_turn" /\ Apply(Server, turn, <<>>)
       ELSE spc' = "poll" /\ UNCHANGED log
    /\ UNCHANGED <<requests, replies, cursor, turn, watcher, nbTimeout,
                   replay, clientVars>>

\* Some request is there: received and acknowledged, whoever sent it.  Its
\* actions are appended to the buffer, which is applied as the actions of the
\* player whose turn it is.
ReceiveAnswer ==
    /\ spc = "poll"
    /\ \E request \in requests :
         /\ RecvAndAck(request)
         /\ received' = received \o request.actions
         /\ IF Accepts(Server, turn, received')
            THEN spc' = "end_turn" /\ Apply(Server, turn, received')
            ELSE spc' = "fatal" /\ UNCHANGED log
    /\ UNCHANGED <<published, cursor, turn, watcher, nbTimeout, replay,
                   clientVars, ticks>>

\* Mutant: poll(-1), no deadline for a player that has left or died.
OnlySlowMisses(p) == p \in Slow

\* A player outside Slow that is still there always answers in time.
MissesDeadline(p) == p \in Slow \/ Gone(p)

\* The deadline passes without any request.
TimeoutAnswer ==
    /\ spc = "poll"
    /\ ~Poll
    /\ MissesDeadline(turn)
    /\ nbTimeout' = [nbTimeout EXCEPT ![turn] = @ + 1]
    /\ spc' = "end_turn"
    /\ Apply(Server, turn, <<>>)
    /\ UNCHANGED <<socketVars, turn, watcher, received, replay, clientVars,
                   ticks>>

\* Mutant: the loop stops before the last player.
NextTurnButLast ==
    IF turn < NbPlayers - 2
    THEN turn' = turn + 1 /\ spc' = "turn"
    ELSE turn' = turn /\ spc' = "end_round"

\* Where the loop over players_ goes once a turn and its watch are over.
NextTurn ==
    IF turn < NbPlayers - 1
    THEN turn' = turn + 1 /\ spc' = "turn"
    ELSE turn' = turn /\ spc' = "end_round"

\* Mutant: a turn without actions is not saved.
SavedUnlessEmpty(id, actions) ==
    IF actions = <<>> THEN replay
    ELSE Append(replay, [client |-> id, actions |-> actions])

Saved(id, actions) == Append(replay, [client |-> id, actions |-> actions])

\* Mutant: a turn without actions is not published.
PushUnlessEmpty(actions) ==
    IF actions = <<>> THEN UNCHANGED published ELSE Push(ActionsMessage(actions))

PushActions(actions) == Push(ActionsMessage(actions))

\* The turn is saved to the replay and published; spectators come next.
EndTurn ==
    /\ spc = "end_turn"
    /\ replay' = Saved(turn, received)
    /\ PushActions(received)
    /\ IF NbSpectators > 0 THEN spc' = "watch" /\ UNCHANGED turn ELSE NextTurn
    /\ watcher' = NbPlayers
    /\ UNCHANGED <<requests, replies, cursor, received, nbTimeout, clientVars,
                   gameVars>>

BeginWatch ==
    /\ spc = "watch"
    /\ Push(IdMessage(watcher))
    /\ ClearActions
    /\ spc' = "watching"
    /\ UNCHANGED <<requests, replies, cursor, turn, watcher, nbTimeout, replay,
                   clientVars, gameVars>>

\* Any request ends the turn of a spectator: saved, never applied nor
\* published.  There is no deadline.
ReceiveWatch ==
    /\ spc = "watching"
    /\ \E request \in requests :
         /\ RecvAndAck(request)
         /\ received' = received \o request.actions
         /\ replay' = Saved(watcher, received')
    /\ IF watcher + 1 \in Spectator
       THEN watcher' = watcher + 1 /\ spc' = "watch" /\ UNCHANGED turn
       ELSE UNCHANGED watcher /\ NextTurn
    /\ UNCHANGED <<published, cursor, nbTimeout, clientVars, gameVars>>

EndRound ==
    /\ spc = "end_round"
    /\ ticks' = [ticks EXCEPT ![Server] = RoundTicks(@)]
    /\ turn' = 0
    /\ spc' = IF Finished(Server)' THEN "done" ELSE "turn"
    /\ UNCHANGED <<socketVars, watcher, received, nbTimeout, replay,
                   clientVars, log>>

ServerStep ==
    \/ StartMatch \/ BeginTurn \/ ReceiveAnswer \/ TimeoutAnswer \/ EndTurn
    \/ BeginWatch \/ ReceiveWatch \/ EndRound

-----------------------------------------------------------------------------
(* The clients: player_loop and spectator_loop. *)

\* Both loops first pull the id of the last player, then start a round.
ClientStart(c) ==
    /\ cpc[c] = "start"
    /\ Pull(c)
    /\ lastId' = [lastId EXCEPT ![c] = NextMessage(c).id]
    /\ ticks' = [ticks EXCEPT ![c] = @ + Hit("start_of_round")]
    /\ cpc' = [cpc EXCEPT ![c] = IF Finished(c)' THEN "done" ELSE "await"]
    /\ UNCHANGED <<requests, replies, published, serverVars, playing, previous,
                   lastRound, log>>

\* Mutant: every player answers in the turn of any player.
AnyPlayersTurn(c) ==
    IF c \in Player THEN NextMessage(c).id \in Player ELSE NextMessage(c).id = c

MyTurn(c) == NextMessage(c).id = c

\* wait_for_turn: the pulled id is this client's own.
PullOwnTurn(c) ==
    /\ cpc[c] = "await"
    /\ Pull(c)
    /\ MyTurn(c)
    /\ playing' = [playing EXCEPT ![c] = c]
    /\ cpc' = [cpc EXCEPT ![c] = "my_turn"]
    /\ ticks' = [ticks EXCEPT ![c] =
                    @ + IF c \in Player THEN Hit("player_turn") ELSE 0]
    /\ UNCHANGED <<requests, replies, published, serverVars, previous, lastId,
                   lastRound, log>>

\* wait_for_turn: the turn of a spectator; none of its actions will follow.
PullSpectatorTurn(c) ==
    /\ cpc[c] = "await"
    /\ Pull(c)
    /\ ~MyTurn(c)
    /\ NextMessage(c).id \in Spectator
    /\ playing' = [playing EXCEPT ![c] = NextMessage(c).id]
    /\ UNCHANGED <<requests, replies, published, serverVars, cpc, previous,
                   lastId, lastRound, gameVars>>

\* wait_for_turn: the turn of another player; its actions follow.
PullPlayerTurn(c) ==
    /\ cpc[c] = "await"
    /\ Pull(c)
    /\ ~MyTurn(c)
    /\ NextMessage(c).id \in Player
    /\ playing' = [playing EXCEPT ![c] = NextMessage(c).id]
    /\ previous' = [previous EXCEPT ![c] =
                        IF c \in Spectator THEN NextMessage(c).id ELSE @]
    /\ cpc' = [cpc EXCEPT ![c] = "actions"]
    /\ ticks' = [ticks EXCEPT ![c] = @ + Hit("player_turn")]
    /\ UNCHANGED <<requests, replies, published, serverVars, lastId, lastRound,
                   log>>

\* The champion plays; its actions change the local game state at once and
\* are sent when it returns.  A spectator only says it has seen the state.
Answer(c) ==
    /\ cpc[c] = "my_turn"
    /\ cpc' = [cpc EXCEPT ![c] = "ack"]
    /\ IF c \in Player
       THEN \E actions \in ChampionActions(c) :
              SendActions(c, actions) /\ Apply(c, c, actions)
       ELSE SendActions(c, <<>>) /\ UNCHANGED log
    /\ UNCHANGED <<replies, published, cursor, serverVars, playing, previous,
                   lastId, lastRound, ticks>>

\* wait_for_ack of a player, which then pulls its own actions back.
PlayerAck(c) ==
    /\ cpc[c] = "ack"
    /\ c \in Player
    /\ WaitForAck(c)
    /\ cpc' = [cpc EXCEPT ![c] = "own_actions"]
    /\ UNCHANGED <<requests, published, cursor, serverVars, playing, previous,
                   lastId, lastRound, gameVars>>

\* End of a player turn in player_loop, and of the round after the last one.
PlayerEndTurn(c) ==
    /\ ticks' = [ticks EXCEPT ![c] =
                    IF playing[c] = lastId[c] THEN RoundTicks(@) ELSE @]
    /\ cpc' = [cpc EXCEPT ![c] = IF Finished(c)' THEN "done" ELSE "await"]

\* Mutant: a player applies its own actions again.
PullOwnAndApply(c) ==
    /\ cpc[c] = "own_actions"
    /\ Pull(c)
    /\ PlayerEndTurn(c)
    /\ Apply(c, c, NextMessage(c).actions)
    /\ UNCHANGED <<requests, replies, published, serverVars, playing, previous,
                   lastId, lastRound>>

\* A player pulls its own actions and throws them away: it has applied them.
PullOwnActions(c) ==
    /\ cpc[c] = "own_actions"
    /\ Pull(c)
    /\ PlayerEndTurn(c)
    /\ UNCHANGED <<requests, replies, published, serverVars, playing, previous,
                   lastId, lastRound, log>>

\* A player pulls and applies the actions of another one.
PlayerPullActions(c) ==
    /\ cpc[c] = "actions"
    /\ c \in Player
    /\ Pull(c)
    /\ IF Accepts(c, playing[c], NextMessage(c).actions)
       THEN Apply(c, playing[c], NextMessage(c).actions) /\ PlayerEndTurn(c)
       ELSE cpc' = [cpc EXCEPT ![c] = "fatal"] /\ UNCHANGED gameVars
    /\ UNCHANGED <<requests, replies, published, serverVars, playing, previous,
                   lastId, lastRound>>

\* A spectator does the same; the round is not over before its own turn.
SpectatorPullActions(c) ==
    /\ cpc[c] = "actions"
    /\ c \in Spectator
    /\ Pull(c)
    /\ IF Accepts(c, playing[c], NextMessage(c).actions)
       THEN /\ Apply(c, playing[c], NextMessage(c).actions)
            /\ cpc' = [cpc EXCEPT ![c] = IF lastRound[c] \/ Finished(c)
                                         THEN "done" ELSE "await"]
       ELSE cpc' = [cpc EXCEPT ![c] = "fatal"] /\ UNCHANGED log
    /\ UNCHANGED <<requests, replies, published, serverVars, playing, previous,
                   lastId, lastRound, ticks>>

\* wait_for_ack of a spectator, and the end of its turn: after the turn of
\* the last player it ends the round, and a game finished there is followed
\* by one last turn.
SpectatorAck(c) ==
    /\ cpc[c] = "ack"
    /\ c \in Spectator
    /\ WaitForAck(c)
    /\ LET endsRound == ~lastRound[c] /\ lastId[c] = previous[c]
           over == Over(ticks[c] + Hit("end_of_round"))
       IN /\ ticks' = [ticks EXCEPT ![c] = IF endsRound THEN RoundTicks(@) ELSE @]
          /\ lastRound' = [lastRound EXCEPT ![c] = @ \/ (endsRound /\ over)]
          /\ cpc' = [cpc EXCEPT ![c] =
                        IF lastRound[c] \/ (~lastRound'[c] /\ Finished(c)')
                        THEN "done" ELSE "await"]
    /\ UNCHANGED <<requests, published, cursor, serverVars, playing, previous,
                   lastId, log>>

ClientStep(c) ==
    \/ ClientStart(c) \/ PullOwnTurn(c) \/ PullSpectatorTurn(c)
    \/ PullPlayerTurn(c) \/ Answer(c) \/ PlayerAck(c) \/ PullOwnActions(c)
    \/ PlayerPullActions(c) \/ SpectatorPullActions(c) \/ SpectatorAck(c)

\* A client process dies: the champion crashes, its sandbox times out (FATAL
\* in player_turn), the machine is lost.  Its request may be lost with it.
Die(c) ==
    /\ c \in Mortal
    /\ ~Gone(c)
    /\ cpc' = [cpc EXCEPT ![c] = "dead"]
    /\ requests' \in {requests, {r \in requests : r.from # c}}
    /\ UNCHANGED <<replies, published, cursor, serverVars, playing, previous,
                   lastId, lastRound, gameVars>>

-----------------------------------------------------------------------------
\* The match is over for every process.
MatchOver == spc \in {"done", "fatal"} /\ \A c \in Client : Gone(c)

Terminated == MatchOver /\ UNCHANGED vars

Next ==
    \/ ServerStep
    \/ \E c \in Client : ClientStep(c) \/ Die(c)
    \/ Terminated

Spec == Init /\ [][Next]_vars

\* Server and clients are processes of their own: each takes the steps it
\* can take.  Nothing forces a client to die.
Fairness == WF_vars(ServerStep) /\ \A c \in Client : WF_vars(ClientStep(c))

FairSpec == Spec /\ Fairness

-----------------------------------------------------------------------------
(* Properties. *)

TypeOK ==
    /\ requests \subseteq [from : Client, actions : Seq(Action)]
    /\ replies \subseteq Client
    /\ published \in Seq([type : {"id"}, id : Client] \union
                         [type : {"actions"}, actions : Seq(Action)])
    /\ cursor \in [Client -> Nat]
    /\ spc \in {"start", "turn", "poll", "end_turn", "watch", "watching",
                "end_round", "done", "fatal"}
    /\ turn \in Player
    /\ watcher \in NbPlayers .. NbPlayers + NbSpectators
    /\ received \in Seq(Action)
    /\ nbTimeout \in [Player -> 0 .. MaxConsecutiveTimeout]
    /\ replay \in Seq([client : Client, actions : Seq(Action)])
    /\ cpc \in [Client -> {"start", "await", "my_turn", "ack", "own_actions",
                           "actions", "done", "dead", "fatal"}]
    /\ playing \in [Client -> Client \union {Nobody}]
    /\ previous \in [Client -> Player \union {Nobody}]
    /\ lastId \in [Client -> Client \union {Nobody}]
    /\ lastRound \in [Client -> BOOLEAN]
    /\ log \in [Proc -> Seq(Turn)]
    /\ ticks \in [Proc -> Nat]

\* The published stream carries no tag: a client decodes what it pulls as an
\* id or as a list of actions from where it stands in its own loop.  The
\* loops of the server and of the clients agree on that, whatever the order
\* in which they run: no client decodes actions as an id, nor an id as
\* actions (pull_id and pull_actions of the client messenger).
StreamAligned ==
    \A c \in Client : CanPull(c) =>
        /\ cpc[c] \in {"start", "await"} => NextMessage(c).type = "id"
        /\ cpc[c] \in {"actions", "own_actions"} =>
                NextMessage(c).type = "actions"

\* A REQ socket refuses to send before the reply to its previous request has
\* been received (and send() is then FATAL).  A client with a request or a
\* reply in flight is waiting for that very reply, and has only one of them.
LockStep ==
    /\ \A r1, r2 \in requests : r1.from = r2.from => r1 = r2
    /\ \A r \in requests : r.from \notin replies
    /\ \A c \in replies \union {r.from : r \in requests} :
            cpc[c] \in {"ack", "dead"}

\* No player that is still there has missed a deadline so far.
Punctual == \A p \in Slow : nbTimeout[p] = 0

\* The server takes any pending request for the answer of the client whose
\* turn it is (recv_actions never looks at the sender).  Until a player is
\* late, the only request there can be is that client's.
RequestFromTurn ==
    Punctual => \A r \in requests : \/ spc = "poll" /\ r.from = turn
                                    \/ spc = "watching" /\ r.from = watcher

Shorter(a, b) == IF Len(a) < Len(b) THEN Len(a) ELSE Len(b)

\* "make sure the gamestate is always consistent across the clients and the
\* server": the turns a live client has applied are those the server has, in
\* the same order, but for its own turn the server may still have to receive.
GameStateAgrees ==
    \A c \in Client : cpc[c] # "dead" =>
        /\ \A i \in 1 .. Shorter(log[c], log[Server]) :
                log[c][i] = log[Server][i]
        /\ Len(log[c]) > Len(log[Server]) => cpc[c] = "ack"

\* The end of the game is found by every process for itself (is_finished).
\* A client that has left its loop has applied every turn of the match, unless
\* a player was late.
SharedFinalState ==
    Punctual => \A c \in Client : cpc[c] = "done" =>
        log[c] = log[Server] /\ spc \in {"watch", "watching", "end_round", "done"}

\* A strict game never aborts on a synchronisation error, in the server nor
\* in a client, when the players answer before the deadline.
NoSyncError == spc # "fatal" /\ \A c \in Client : cpc[c] # "fatal"

\* Whatever the players' delays, the turns of the others are the same for a
\* client as for the server, and come in the same order: only its own turns
\* may differ (played too late, recorded as empty or as another one).
ForeignTurnsAgree ==
    \A c \in Client :
        /\ Len(log[c]) <= Len(log[Server]) + 1
        /\ \A i \in 1 .. Shorter(log[c], log[Server]) :
              /\ log[c][i].player = log[Server][i].player
              /\ log[c][i].player # c => log[c][i] = log[Server][i]

\* The match ends for every process, even if players die, unless one of them
\* is late: its last answer may then wait for an acknowledgement for ever.
Termination == <>(MatchOver \/ ~Punctual)

\* "Spectators must be able to see the state of the game between after each
\* player has finished its turn" (server_loop): a spectator that has left
\* its loop has had a turn after every player turn it has applied.
SpectatorsSeeEveryTurn ==
    \A c \in Spectator : cpc[c] = "done" =>
        Cardinality({i \in DOMAIN replay : replay[i].client = c}) >= Len(log[c])

-----------------------------------------------------------------------------
(* Why StreamAligned holds: the shape of the stream, and where each process *)
(* stands in it.                                                            *)

\* Message i announces the turn of a player: a list of actions must follow.
\* (The first message is the id of the last player, and announces nothing.)
Announces(i) ==
    /\ i >= 2
    /\ published[i].type = "id"
    /\ published[i].id \in Player

StreamShape ==
    \A i \in DOMAIN published :
        published[i].type = "actions" <=> Announces(i - 1)

ServerInStream ==
    /\ spc = "start" <=> published = <<>>
    /\ spc \in {"poll", "end_turn"} => Announces(Len(published))
    /\ spc \in {"turn", "watch", "watching", "end_round", "done"} =>
            ~Announces(Len(published))
    /\ spc = "poll" => nbTimeout[turn] < MaxConsecutiveTimeout
    /\ spc \in {"watch", "watching"} => watcher \in Spectator

ClientInStream(c) ==
    /\ cursor[c] <= Len(published)
    /\ cpc[c] = "start" => cursor[c] = 0
    /\ cpc[c] = "await" => cursor[c] >= 1 /\ ~Announces(cursor[c])
    /\ cpc[c] \in {"actions", "own_actions"} => Announces(cursor[c])
    /\ cpc[c] = "actions" => playing[c] \in Player
    /\ cpc[c] \in {"my_turn", "ack"} =>
            cursor[c] >= 1 /\ (Announces(cursor[c]) <=> c \in Player)

\* What pull_id and pull_actions rely on: the stream alternates as the loops
\* expect it to, and every process stands where its loop says it does.
StreamInvariant ==
    /\ TypeOK
    /\ StreamShape
    /\ ServerInStream
    /\ \A c \in Client : ClientInStream(c)
=============================================================================
