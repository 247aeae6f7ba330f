---------------------------- MODULE Synchronous ----------------------------
(***************************************************************************)
(* A match of a synchronous game: SynchronousRules::server_loop,           *)
(* player_loop and spectator_loop of src/lib/rules/rules.cc.  In a round   *)
(* every client plays and sends its actions, the server collects them,     *)
(* applies them and publishes the lot, and every client applies those of   *)
(* the others.                                                             *)
(*                                                                         *)
(* The game is abstracted to what the loops observe of it:                 *)
(*   - a player does nothing in a round, or one action, which may be the   *)
(*     one that ends the game (the right guess of plusminus);              *)
(*   - the game state of a process is the actions it has applied, round by *)
(*     round, in the order in which it has applied them.                   *)
(***************************************************************************)
EXTENDS Sockets, SequencesExt

CONSTANTS
    NbPlayers,      \* config player_count
    NbSpectators,   \* the other --nb_clients
    Limit,          \* the game is over after that many rounds
    Slow,           \* players that may answer after the deadline
    Mortal,         \* clients that may die at any moment
    MaxTimeout,     \* the 3 of "nb_timeout == 3"
    SizeT           \* size_t counts modulo SizeT

Player == 0 .. NbPlayers - 1
Spectator == NbPlayers .. NbPlayers + NbSpectators - 1
Server == -1
Proc == {Server} \union Client

ASSUME PlayersAssumption == NbPlayers \in Nat \ {0}
ASSUME SpectatorsAssumption == NbSpectators \in Nat
ASSUME ClientAssumption == Client = 0 .. NbPlayers + NbSpectators - 1
ASSUME LimitAssumption == Limit \in Nat \ {0}
ASSUME FaultAssumption == Slow \subseteq Player /\ Mortal \subseteq Client
ASSUME TimeoutAssumption == MaxTimeout \in Nat \ {0}
ASSUME WidthAssumption == SizeT \in Nat /\ SizeT > NbPlayers + NbSpectators

\* An action of a player, in the round it was in when it played.
Action == [player : Player, round : 1 .. Limit, ends : BOOLEAN]

VARIABLES
    spc,            \* where server_loop stands
    answers,        \* i, the answers counted in this round
    playersIds,     \* players_ids, clients that are not eliminated
    playersCount,   \* players_count, the answers expected in a round
    timeouting,     \* players_timeouting
    spectatorsCount,\* spectators_count, spectators still to hear
    received,       \* get_actions() of the server
    nbTimeout,      \* Player::nb_timeout
    replay,         \* what the server has saved, round by round
    cpc,            \* where each client's loop stands
    log             \* game state: per process, the actions of each round

serverVars == <<spc, answers, playersIds, playersCount, timeouting,
                spectatorsCount, received, nbTimeout, replay>>
vars == <<socketVars, serverVars, cpc, log>>

-----------------------------------------------------------------------------
(* The rules of the game, as far as the loops see them. *)

\* is_finished() between two rounds, given the rounds played.
Over(rounds) ==
    \/ Len(rounds) >= Limit
    \/ \E i \in DOMAIN rounds : \E a \in ToSet(rounds[i]) : a.ends

\* start_of_round: a round without actions yet.
OpenRound(rounds) == Append(rounds, <<>>)

\* apply_action of every action, in the current round.
Applied(rounds, actions) == [rounds EXCEPT ![Len(rounds)] = @ \o actions]

\* What a champion may do in its n-th round: nothing, or one action.
ChampionActions(c, n) ==
    {<<>>} \union {<<[player |-> c, round |-> n, ends |-> e]>> : e \in BOOLEAN}

Gone(c) == cpc[c] \in {"done", "dead"}

-----------------------------------------------------------------------------
Init ==
    /\ SocketsInit
    /\ spc = "round"
    /\ answers = 0
    /\ playersIds = Client
    /\ playersCount = NbPlayers + NbSpectators
    /\ timeouting = {}
    /\ spectatorsCount = NbSpectators
    /\ received = <<>>
    /\ nbTimeout = [p \in Player |-> 0]
    /\ replay = <<>>
    /\ cpc = [c \in Client |-> "round"]
    /\ log = [p \in Proc |-> <<>>]

-----------------------------------------------------------------------------
(* The server. *)

\* Mutant: spectators_count is not a variable of the round.
KeepSpectatorsCount == UNCHANGED spectatorsCount

ResetSpectatorsCount == spectatorsCount' = NbSpectators

\* Mutant: the buffer keeps the actions of the previous round.
KeepActions == UNCHANGED received

ClearActions == received' = <<>>

StartRound ==
    /\ spc = "round"
    /\ ResetSpectatorsCount
    /\ log' = [log EXCEPT ![Server] = OpenRound(@)]
    /\ ClearActions
    /\ timeouting' = Player
    /\ answers' = 0
    /\ spc' = "collect"
    /\ UNCHANGED <<socketVars, playersIds, playersCount, nbTimeout, replay, cpc>>

\* recv_actions appends to the buffer, whoever the actions come from.
Collect(request) ==
    /\ RecvAndAck(request)
    /\ received' = received \o request.actions

Decrement(n) == (n - 1) % SizeT

\* Mutant: an answer does not clear its player of the timeout.
NeverCleared(c) == UNCHANGED timeouting

Clear(c) == timeouting' = timeouting \ {c}

\* An answer of a client that is not eliminated is counted.
ReceiveAnswer ==
    /\ \/ spc = "collect" /\ answers < playersCount
       \/ spc = "again"
    /\ \E request \in requests :
         /\ Collect(request)
         /\ request.from \in playersIds
         /\ IF request.from \in Spectator
            THEN spectatorsCount' = Decrement(spectatorsCount) /\ UNCHANGED timeouting
            ELSE Clear(request.from) /\ UNCHANGED spectatorsCount
    /\ answers' = answers + 1
    /\ spc' = "collect"
    /\ UNCHANGED <<published, cursor, playersIds, playersCount, nbTimeout, replay,
                   cpc, log>>

\* "Ignore revived players": the request of an eliminated player is received
\* and acknowledged all the same, and the server waits for the next one
\* without a deadline.
ReceiveRevived ==
    /\ \/ spc = "collect" /\ answers < playersCount
       \/ spc = "again"
    /\ \E request \in requests :
         /\ Collect(request)
         /\ request.from \notin playersIds
    /\ spc' = "again"
    /\ UNCHANGED <<published, cursor, answers, playersIds, playersCount,
                   timeouting, spectatorsCount, nbTimeout, replay, cpc, log>>

\* Mutant: poll(-1), no deadline for a player that has left or died.
OnlySlowMisses(p) == p \in Slow

\* A player outside Slow that is still there always answers in time.
MissesDeadline(p) == p \in Slow \/ Gone(p)

\* poll returns false: no request, and those still awaited are late.  (A
\* spectator may always be late.)
PollTimesOut ==
    ~Poll /\ \A p \in timeouting \cap playersIds : MissesDeadline(p)

\* Mutant: a player that was not heard loses its seat at once.
EliminatedAtOnce == timeouting

\* The players whose nb_timeout becomes 3.
Eliminated == {p \in timeouting : nbTimeout[p] + 1 = MaxTimeout}

\* Mutant: the loop stops one answer too early.
AllAnsweredButOne == answers >= playersCount - 1

AllAnswered == answers >= playersCount

\* The end of the collection: the players not heard are counted late.
CloseCollection ==
    /\ spc = "collect"
    /\ AllAnswered \/ PollTimesOut
    /\ nbTimeout' = [p \in Player |->
                        IF p \in timeouting THEN nbTimeout[p] + 1 ELSE nbTimeout[p]]
    /\ playersIds' = playersIds \ Eliminated
    /\ playersCount' = playersCount - Cardinality(Eliminated)
    /\ spc' = "spectators"
    /\ UNCHANGED <<socketVars, answers, timeouting, spectatorsCount, received,
                   replay, cpc, log>>

\* "No timeout for spectators": any request is taken for one of theirs.
ReceiveSpectator ==
    /\ spc = "spectators"
    /\ spectatorsCount > 0
    /\ \E request \in requests : Collect(request)
    /\ spectatorsCount' = Decrement(spectatorsCount)
    /\ UNCHANGED <<published, cursor, spc, answers, playersIds, playersCount,
                   timeouting, nbTimeout, replay, cpc, log>>

\* Mutant: the actions of eliminated players are applied but not published.
PushWithoutRevived(actions) ==
    Push(ActionsMessage(SelectSeq(actions, LAMBDA a : a.player \in playersIds)))

PushActions(actions) == Push(ActionsMessage(actions))

\* Mutant: a round in which nobody has played is not saved.
SavedUnlessPlayed(actions) == IF actions = <<>> THEN replay ELSE Append(replay, actions)

\* save_player_actions, one list per round.
Saved(actions) == Append(replay, actions)

\* The actions are saved, applied and published, and the round is over.
Publish ==
    /\ spc = "spectators"
    /\ spectatorsCount = 0
    /\ replay' = Saved(received)
    /\ log' = [log EXCEPT ![Server] = Applied(@, received)]
    /\ PushActions(received)
    /\ spc' = IF Over(log'[Server]) THEN "done" ELSE "round"
    /\ UNCHANGED <<requests, replies, cursor, answers, playersIds, playersCount,
                   timeouting, spectatorsCount, received, nbTimeout, cpc>>

ServerStep ==
    \/ StartRound \/ ReceiveAnswer \/ ReceiveRevived \/ CloseCollection
    \/ ReceiveSpectator \/ Publish

-----------------------------------------------------------------------------
(* The clients: player_loop and spectator_loop. *)

\* The champion plays; its actions change the local game state at once.  A
\* spectator only sends an empty list.
PlayRound(c) ==
    /\ cpc[c] = "round"
    /\ \E actions \in IF c \in Player THEN ChampionActions(c, Len(log[c]) + 1)
                      ELSE {<<>>} :
         /\ SendActions(c, actions)
         /\ log' = [log EXCEPT ![c] = Applied(OpenRound(@), actions)]
    /\ cpc' = [cpc EXCEPT ![c] = "ack"]
    /\ UNCHANGED <<replies, published, cursor, serverVars>>

Acknowledged(c) ==
    /\ cpc[c] = "ack"
    /\ WaitForAck(c)
    /\ cpc' = [cpc EXCEPT ![c] = "actions"]
    /\ UNCHANGED <<requests, published, cursor, serverVars, log>>

\* The actions of the others in a list, in its order.
Foreign(c, actions) ==
    LET kept[n \in 0 .. Len(actions)] ==
            IF n = 0 THEN <<>>
            ELSE IF actions[n].player # c THEN Append(kept[n - 1], actions[n])
            ELSE kept[n - 1]
    IN  kept[Len(actions)]

\* Mutant: a player applies its own actions again.
AllActions(c, actions) == actions

\* The actions a client still has to apply: a player has applied its own.
ToApply(c, actions) == Foreign(c, actions)

PullRound(c) ==
    /\ cpc[c] = "actions"
    /\ Pull(c)
    /\ log' = [log EXCEPT ![c] = Applied(@, ToApply(c, NextMessage(c).actions))]
    /\ cpc' = [cpc EXCEPT ![c] = IF Over(log'[c]) THEN "done" ELSE "round"]
    /\ UNCHANGED <<requests, replies, published, serverVars>>

ClientStep(c) == PlayRound(c) \/ Acknowledged(c) \/ PullRound(c)

\* A client process dies, and its request may be lost with it.
Die(c) ==
    /\ c \in Mortal
    /\ ~Gone(c)
    /\ cpc' = [cpc EXCEPT ![c] = "dead"]
    /\ requests' \in {requests, {r \in requests : r.from # c}}
    /\ UNCHANGED <<replies, published, cursor, serverVars, log>>

-----------------------------------------------------------------------------
MatchOver == spc = "done" /\ \A c \in Client : Gone(c)

Terminated == MatchOver /\ UNCHANGED vars

Next ==
    \/ ServerStep
    \/ \E c \in Client : ClientStep(c) \/ Die(c)
    \/ Terminated

Spec == Init /\ [][Next]_vars

\* Server and clients are processes of their own.
Fairness == WF_vars(ServerStep) /\ \A c \in Client : WF_vars(ClientStep(c))

FairSpec == Spec /\ Fairness

-----------------------------------------------------------------------------
(* Properties. *)

TypeOK ==
    /\ requests \subseteq [from : Client, actions : Seq(Action)]
    /\ replies \subseteq Client
    /\ published \in Seq([type : {"actions"}, actions : Seq(Action)])
    /\ cursor \in [Client -> Nat]
    /\ spc \in {"round", "collect", "again", "spectators", "done"}
    /\ answers \in Nat
    /\ playersIds \subseteq Client
    /\ playersCount \in NbSpectators .. NbPlayers + NbSpectators
    /\ timeouting \subseteq Player
    /\ spectatorsCount \in 0 .. SizeT - 1
    /\ received \in Seq(Action)
    /\ nbTimeout \in [Player -> Nat]
    /\ replay \in Seq(Seq(Action))
    /\ cpc \in [Client -> {"round", "ack", "actions", "done", "dead"}]
    /\ log \in [Proc -> Seq(Seq(Action))]

\* The rounds of a client whose actions of every player it has applied.
Complete(c) == IF cpc[c] \in {"ack", "actions", "dead"} THEN Len(log[c]) - 1
               ELSE Len(log[c])

SameActions(s, t) == Len(s) = Len(t) /\ ToSet(s) = ToSet(t)

\* "make sure the gamestate is always consistent across the clients and the
\* server" (apply_action): in a round it has completed, a live client has
\* applied the actions the server has, its own included, each of them once.
\* The order in which they are applied is not the same, by construction.
RoundsAgree ==
    \A c \in Client : cpc[c] # "dead" =>
        /\ Complete(c) <= Len(published)
        /\ \A i \in 1 .. Complete(c) : SameActions(log[c][i], log[Server][i])

\* Whatever the delays, a client applies the actions of the others in the
\* round in which the server does: only its own may be in another one.
ForeignActionsAgree ==
    \A c \in Client : \A i \in 1 .. Complete(c) :
        Foreign(c, log[c][i]) = Foreign(c, log[Server][i])

\* Rounds of the server in which the actions of player p are, in order.
OwnRounds(rounds, p) ==
    LET own(n) == {a.round : a \in {b \in ToSet(rounds[n]) : b.player = p}}
    IN [n \in DOMAIN rounds |-> own(n)]

\* Whatever the delays, the actions of a player are applied by the server
\* once, in the order in which they were played and never before the round
\* they were played in.
OncePerAction ==
    \A p \in Player :
        LET own == OwnRounds(log[Server], p) IN
        /\ \A m, n \in DOMAIN own : m < n =>
                \A x \in own[m], y \in own[n] : x < y
        /\ \A n \in DOMAIN own : \A x \in own[n] : x <= n
        /\ \A n \in DOMAIN own : Len(log[Server][n]) = Cardinality(ToSet(log[Server][n]))

\* "Increase timeout count for players that did not answer in time"
\* (server_loop): a player that always answers in time is never counted late.
TimeoutsDeserved ==
    \A p \in Player : nbTimeout[p] > 0 => MissesDeadline(p)

\* The countdown of the spectators never wraps below zero: the server would
\* then wait for requests for ever.  It is decremented in two loops, the
\* second of which takes the request of anyone for that of a spectator.
SpectatorsCounted == spectatorsCount <= NbSpectators

\* The match ends for every process, even if players have died.
Termination == <>MatchOver
=============================================================================
