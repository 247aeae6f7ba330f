----------------------------- MODULE Handshake -----------------------------
(***************************************************************************)
(* How a match starts: Server::wait_for_clients and the pushes of          *)
(* Server::run, against Client::sckt_init, wait_for_players and            *)
(* wait_for_game_start.  Clients ask for a seat, with an id of their own   *)
(* choice or any; once every seat is taken the server publishes the        *)
(* players, the spectators and the start of the game.                      *)
(*                                                                         *)
(* Two facts about ZeroMQ matter here.  A REP socket that has received a   *)
(* request must send a reply before it can receive again: recv() fails     *)
(* until then.  What a PUB socket sends before the subscription of a       *)
(* client has reached it is never seen by that client.                     *)
(***************************************************************************)
EXTENDS Integers, Sequences, FiniteSets

CONSTANTS
    Applicant,      \* the client processes that want a seat
    NbPlayers,      \* config_.player_count
    NbSpectators,   \* FLAGS_nb_clients - config_.player_count
    Wanted,         \* the values of --client_id that clients are given
    Stale,          \* clients of an earlier match, maybe with a request on its way
    LateSubscriber  \* applicants whose subscription may take its time

NbClients == NbPlayers + NbSpectators
Invalid == -1       \* "Treated by client as invalid", and "any id" in a request

ASSUME SeatAssumption == NbPlayers \in Nat \ {0} /\ NbSpectators \in Nat
ASSUME WantedAssumption == Wanted \subseteq Int
ASSUME ApplicantAssumption ==
    /\ IsFiniteSet(Applicant)
    /\ Stale \cap Applicant = {}
    /\ LateSubscriber \subseteq Applicant

PlayerIds == 0 .. NbPlayers - 1
SpectatorIds == NbPlayers .. NbClients - 1

VARIABLES
    kind,       \* --spectator of each applicant
    wanted,     \* --client_id of each applicant
    phase,      \* where Server::run stands
    rep,        \* what the REP socket allows: "recv" or "send"
    players,    \* players_, as the set of its (id, client) pairs
    spectators, \* spectators_
    requests,   \* on their way to the server
    replies,    \* on their way to the clients
    subscribed, \* the subscriptions the PUB socket knows of
    inbox,      \* published messages each applicant has not pulled yet
    cst,        \* where each client stands
    id,         \* the id it got
    roster      \* the lists of players and of spectators it pulled

vars == <<kind, wanted, phase, rep, players, spectators, requests, replies,
          subscribed, inbox, cst, id, roster>>

flags == <<kind, wanted>>

Init ==
    /\ kind \in [Applicant -> {"player", "spectator"}]
    /\ wanted \in [Applicant -> Wanted]
    /\ phase = "waiting"
    /\ rep = "recv"
    /\ players = {}
    /\ spectators = {}
    /\ requests \in SUBSET [from : Stale, type : {"rules"}]
    /\ replies = {}
    /\ subscribed = {}
    /\ inbox = [a \in Applicant |-> <<>>]
    /\ cst = [a \in Applicant |-> "new"]
    /\ id = [a \in Applicant |-> Invalid]
    /\ roster = [a \in Applicant |-> <<>>]

-----------------------------------------------------------------------------
(* The server. *)

\* Mutant: ids are not compared with those already given.
NeverUsed(i) == FALSE

\* The order of players_ before it is sorted never matters, only its size.
Used(i) == \E member \in players \union spectators : member.id = i

Complete == Cardinality(players) + Cardinality(spectators) >= NbClients

\* Mutant: spectators are numbered from zero too.
AutoIdFromZero(a) ==
    IF kind[a] = "player" THEN Cardinality(players) ELSE Cardinality(spectators)

\* The id the server would give when the client names none.
AutoId(a) ==
    IF kind[a] = "player" THEN Cardinality(players)
    ELSE NbPlayers + Cardinality(spectators)

Asked(a) == IF wanted[a] = Invalid THEN AutoId(a) ELSE wanted[a]

\* Mutant: a spectator may take a player's id.
AnySeat(a, i) == i \in 0 .. NbClients - 1

\* The four checks of wait_for_clients but for the ids already used.
SeatOf(a, i) == IF kind[a] = "player" THEN i \in PlayerIds ELSE i \in SpectatorIds

Granted(a) ==
    IF ~Used(Asked(a)) /\ SeatOf(a, Asked(a)) THEN Asked(a) ELSE Invalid

\* A client connects: it is answered at once, and seated unless refused.
ReceiveConnect ==
    /\ phase = "waiting" /\ ~Complete
    /\ rep = "recv"
    /\ \E a \in Applicant :
         /\ [from |-> a, type |-> "connect"] \in requests
         /\ requests' = requests \ {[from |-> a, type |-> "connect"]}
         /\ replies' = replies \union {[to |-> a, id |-> Granted(a)]}
         /\ players' = IF Granted(a) # Invalid /\ kind[a] = "player"
                       THEN players \union {[id |-> Granted(a), from |-> a]}
                       ELSE players
         /\ spectators' = IF Granted(a) # Invalid /\ kind[a] = "spectator"
                          THEN spectators \union {[id |-> Granted(a), from |-> a]}
                          ELSE spectators
    /\ UNCHANGED <<flags, phase, rep, subscribed, inbox, cst, id, roster>>

\* Any other message is ignored: no reply is sent, and from then on recv()
\* fails and the loop spins.
IgnoreRequest ==
    /\ phase = "waiting" /\ ~Complete
    /\ rep = "recv"
    /\ \E request \in requests :
         /\ request.type # "connect"
         /\ requests' = requests \ {request}
    /\ rep' = "send"
    /\ UNCHANGED <<flags, phase, players, spectators, replies, subscribed,
                   inbox, cst, id, roster>>

\* A message reaches the subscribers the server knows of.
Publish(message) ==
    inbox' = [a \in Applicant |-> IF a \in subscribed
                                  THEN Append(inbox[a], message) ELSE inbox[a]]

\* The server waits 500 ms before the first push: the subscriptions of the
\* seated clients that are not late have reached it.
Settled ==
    \A member \in players \union spectators :
        member.from \in subscribed \union LateSubscriber

PushPlayers ==
    /\ phase = "waiting" /\ Complete /\ Settled
    /\ Publish([type |-> "players", list |-> players])
    /\ phase' = "spectators"
    /\ UNCHANGED <<flags, rep, players, spectators, requests, replies,
                   subscribed, cst, id, roster>>

PushSpectators ==
    /\ phase = "spectators"
    /\ Publish([type |-> "players", list |-> spectators])
    /\ phase' = "rules_init"
    /\ UNCHANGED <<flags, rep, players, spectators, requests, replies,
                   subscribed, cst, id, roster>>

PushGameStart ==
    /\ phase = "rules_init"
    /\ Publish([type |-> "gamestart"])
    /\ phase' = "game"
    /\ UNCHANGED <<flags, rep, players, spectators, requests, replies,
                   subscribed, cst, id, roster>>

\* The match receives requests too: one that is not MSG_RULES is an
\* exception nobody catches (ServerMessenger::recv).
LateConnect ==
    /\ phase = "game"
    /\ \E request \in requests : request.type = "connect"
    /\ phase' = "dead"
    /\ UNCHANGED <<flags, rep, players, spectators, requests, replies,
                   subscribed, inbox, cst, id, roster>>

ServerStep ==
    \/ ReceiveConnect \/ IgnoreRequest \/ PushPlayers \/ PushSpectators
    \/ PushGameStart \/ LateConnect

-----------------------------------------------------------------------------
(* A client. *)

\* sckt_init: the sockets are connected and the request is sent.
Connect(a) ==
    /\ cst[a] = "new"
    /\ requests' = requests \union {[from |-> a, type |-> "connect"]}
    /\ cst' = [cst EXCEPT ![a] = "wait_id"]
    /\ UNCHANGED <<flags, phase, rep, players, spectators, replies, subscribed,
                   inbox, id, roster>>

\* The subscription reaches the server some time after the connection.
Subscribe(a) ==
    /\ cst[a] # "new" /\ a \notin subscribed
    /\ subscribed' = subscribed \union {a}
    /\ UNCHANGED <<flags, phase, rep, players, spectators, requests, replies,
                   inbox, cst, id, roster>>

\* The reply: an id, or a refusal which is FATAL.
GetId(a) ==
    \E reply \in replies :
        /\ reply.to = a
        /\ replies' = replies \ {reply}
        /\ id' = [id EXCEPT ![a] = reply.id]
        /\ cst' = [cst EXCEPT ![a] =
                       IF reply.id = Invalid THEN "fatal" ELSE "wait_players"]
        /\ UNCHANGED <<flags, phase, rep, players, spectators, requests,
                       subscribed, inbox, roster>>

\* Mutant: a subscriber that has missed the first list does not wait for two.
AwaitedAny(a) ==
    IF cst[a] = "wait_players" THEN "players" ELSE Head(inbox[a]).type

\* wait_for_players pulls until it has seen two lists, wait_for_game_start
\* until the game starts; anything else is skipped.
Awaited(a) == IF cst[a] = "wait_start" THEN "gamestart" ELSE "players"

After(state) ==
    CASE state = "wait_players" -> "wait_spectators"
      [] state = "wait_spectators" -> "wait_start"
      [] state = "wait_start" -> "playing"

PullMessage(a) ==
    /\ cst[a] \in {"wait_players", "wait_spectators", "wait_start"}
    /\ inbox[a] # <<>>
    /\ inbox' = [inbox EXCEPT ![a] = Tail(@)]
    /\ LET message == Head(inbox[a]) IN
       IF message.type = Awaited(a)
       THEN /\ cst' = [cst EXCEPT ![a] = After(@)]
            /\ roster' = IF message.type = "gamestart" THEN roster
                         ELSE [roster EXCEPT ![a] = Append(@, message.list)]
       ELSE UNCHANGED <<cst, roster>>
    /\ UNCHANGED <<flags, phase, rep, players, spectators, requests, replies,
                   subscribed, id>>

ClientStep(a) == Connect(a) \/ Subscribe(a) \/ GetId(a) \/ PullMessage(a)

-----------------------------------------------------------------------------
Next == ServerStep \/ \E a \in Applicant : ClientStep(a)

Spec == Init /\ [][Next]_vars

Fairness == WF_vars(ServerStep) /\ \A a \in Applicant : WF_vars(ClientStep(a))

FairSpec == Spec /\ Fairness

-----------------------------------------------------------------------------
(* Properties. *)

Member == [id : PlayerIds \union SpectatorIds, from : Applicant]

TypeOK ==
    /\ kind \in [Applicant -> {"player", "spectator"}]
    /\ wanted \in [Applicant -> Wanted]
    /\ phase \in {"waiting", "spectators", "rules_init", "game", "dead"}
    /\ rep \in {"recv", "send"}
    /\ players \subseteq Member
    /\ spectators \subseteq Member
    /\ requests \subseteq [from : Applicant \union Stale, type : {"connect", "rules"}]
    /\ replies \subseteq [to : Applicant, id : Int]
    /\ subscribed \subseteq Applicant
    /\ inbox \in [Applicant -> Seq([type : {"players"}, list : SUBSET Member]
                                   \union [type : {"gamestart"}])]
    /\ cst \in [Applicant -> {"new", "wait_id", "fatal", "wait_players",
                              "wait_spectators", "wait_start", "playing"}]
    /\ id \in [Applicant -> Int]
    /\ roster \in [Applicant -> Seq(SUBSET Member)]

Ids(list) == {member.id : member \in list}

\* "Player IDs must be in [0-NB_PLAYER[, spectator IDs in [NB_PLAYER-
\* NB_CLIENTS[" (wait_for_clients): nothing counts the players and the
\* spectators apart, yet when the match starts every seat of each kind is
\* taken by exactly one client.  The loops rely on it: players_[playing_id],
\* players_.back()->id, and is_spectator tell clients apart by their id.
SeatsFilled ==
    phase # "waiting" =>
        /\ Ids(players) = PlayerIds /\ Cardinality(players) = NbPlayers
        /\ Ids(spectators) = SpectatorIds /\ Cardinality(spectators) = NbSpectators

\* A client that has an id holds that seat alone, in the list of its kind.
SeatIsMine ==
    \A a \in Applicant :
        cst[a] \in {"wait_players", "wait_spectators", "wait_start", "playing"} =>
            /\ {m \in players \union spectators : m.id = id[a] \/ m.from = a} =
                   {[id |-> id[a], from |-> a]}
            /\ [id |-> id[a], from |-> a] \in
                   IF kind[a] = "player" THEN players ELSE spectators

\* A client in the match knows the players and the spectators of the server,
\* even if its subscription came late: two lists of clients are published
\* with the same type and no name, and missing the first one must not make
\* the second one pass for it.
RosterShared ==
    \A a \in Applicant : cst[a] \in {"wait_start", "playing"} =>
        roster[a] = <<players, spectators>>

\* There are clients of each kind for all its seats: as many as seats when none
\* of them names an id, or one that names it for every seat when they all do.
Compatible ==
    \/ /\ \A a \in Applicant : wanted[a] = Invalid
       /\ Cardinality({a \in Applicant : kind[a] = "player"}) >= NbPlayers
       /\ Cardinality({a \in Applicant : kind[a] = "spectator"}) >= NbSpectators
    \/ /\ \A a \in Applicant : wanted[a] # Invalid
       /\ \A i \in PlayerIds \union SpectatorIds :
              \E a \in Applicant : wanted[a] = i /\ SeatOf(a, i)

\* Then the match starts, in whatever order they come, and every client that
\* has a seat is in it but for those whose subscription was too late; unless
\* a request of an earlier match was waiting, which blocks the server.
EveryoneSeated ==
    Compatible /\ requests = {} =>
        <>(/\ phase \in {"game", "dead"}
           /\ \A member \in players \union spectators :
                 member.from \in LateSubscriber \/ cst[member.from] = "playing")

\* "Client id, -1 for auto allocation", "For each client connecting, we send
\* back a unique id": a client that lets the server choose is refused only
\* when no seat of its kind is free.
AutoIdGranted ==
    \A reply \in replies :
        reply.id = Invalid /\ wanted[reply.to] = Invalid =>
            \A i \in IF kind[reply.to] = "player" THEN PlayerIds ELSE SpectatorIds :
                Used(i)
=============================================================================
