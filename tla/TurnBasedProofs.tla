-------------------------- MODULE TurnBasedProofs --------------------------
(***************************************************************************)
(* Theorems about TurnBased, for any number of players and spectators, any *)
(* game and any delay or death.                                            *)
(***************************************************************************)
EXTENDS TurnBased, TLAPS

-----------------------------------------------------------------------------
(* Facts about the clients and about the stream. *)

LEMMA ClientFacts ==
    /\ Player \subseteq Client
    /\ Spectator \subseteq Client
    /\ Player \intersect Spectator = {}
    /\ Client = Player \union Spectator
    /\ Client \subseteq Nat
    /\ 0 \in Player /\ LastPlayer \in Player
    /\ Server \notin Client
  BY PlayersAssumption, SpectatorsAssumption, ClientAssumption
  DEF Player, Spectator, LastPlayer, Server

Message == [type : {"id"}, id : Client] \union
           [type : {"actions"}, actions : Seq(Action)]

LEMMA MessageFacts ==
    /\ \A id \in Client : IdMessage(id) \in Message
    /\ \A actions \in Seq(Action) : ActionsMessage(actions) \in Message
    /\ \A m \in Message : m.type = "id" => m.id \in Client
    /\ \A m \in Message : m.type = "actions" => m.actions \in Seq(Action)
    /\ \A m \in Message : m.type \in {"id", "actions"}
  BY DEF Message, IdMessage, ActionsMessage

\* Pushing a message leaves the messages before it where they are.
LEMMA PushFacts ==
    ASSUME published \in Seq(Message), NEW m \in Message, Push(m)
    PROVE  /\ published' \in Seq(Message)
           /\ Len(published') = Len(published) + 1
           /\ published'[Len(published) + 1] = m
           /\ \A i \in 1 .. Len(published) : published'[i] = published[i]
           /\ published' # <<>>
           /\ \A i \in 0 .. Len(published) : Announces(i)' <=> Announces(i)
           /\ Announces(Len(published))' <=>
                  /\ published # <<>>
                  /\ m.type = "id"
                  /\ m.id \in Player
  <1>1. published' = Append(published, m)
    BY DEF Push
  <1>2. /\ published' \in Seq(Message)
        /\ Len(published') = Len(published) + 1
        /\ published'[Len(published) + 1] = m
        /\ \A i \in 1 .. Len(published) : published'[i] = published[i]
        /\ published' # <<>>
    BY <1>1
  <1>3. \A i \in 0 .. Len(published) : Announces(i)' <=> Announces(i)
    BY <1>2 DEF Announces
  <1>4. published # <<>> <=> Len(published) + 1 >= 2
    OBVIOUS
  <1>5. Announces(Len(published))' <=>
            published # <<>> /\ m.type = "id" /\ m.id \in Player
    <2>1. Announces(Len(published))' <=>
              /\ Len(published') >= 2
              /\ published'[Len(published')].type = "id"
              /\ published'[Len(published')].id \in Player
      BY <1>2, Zenon DEF Announces
    <2>2. published'[Len(published')] = m /\ Len(published') = Len(published) + 1
      BY <1>2
    <2> QED
      BY <2>1, <2>2, <1>4, Zenon
  <1> QED
    BY <1>2, <1>3, <1>5

LEMMA HitType == \A hook : Hit(hook) \in Nat
  BY DEF Hit

LEMMA RoundTicksType == \A t \in Nat : RoundTicks(t) \in Nat
  <1> SUFFICES ASSUME NEW t \in Nat PROVE RoundTicks(t) \in Nat
    OBVIOUS
  <1>1. Hit("end_of_round") \in Nat /\ Hit("start_of_round") \in Nat
    BY HitType
  <1> QED
    BY <1>1 DEF RoundTicks

LEMMA ApplyType ==
    ASSUME log \in [Proc -> Seq(Turn)], NEW p \in Proc, NEW id \in Player,
           NEW actions \in Seq(Action), Apply(p, id, actions)
    PROVE  log' \in [Proc -> Seq(Turn)]
  <1>1. TurnOf(id, actions) \in Turn
    BY DEF TurnOf, Turn
  <1>2. Append(log[p], TurnOf(id, actions)) \in Seq(Turn)
    BY <1>1
  <1> QED
    BY <1>2 DEF Apply

\* What the champion of a player does is a list of actions.
LEMMA ChampionActionsType ==
    \A c \in Client : ChampionActions(c) \subseteq Seq(Action)
  <1> SUFFICES ASSUME NEW c \in Client, NEW actions \in ChampionActions(c)
               PROVE  actions \in Seq(Action)
    OBVIOUS
  <1>1. CASE actions = <<>>
    BY <1>1
  <1>2. CASE actions # <<>>
    <2>1. PICK cell \in FreeCell(c) : actions = <<[player |-> c, cell |-> cell]>>
      BY <1>2 DEF ChampionActions
    <2>2. [player |-> c, cell |-> cell] \in Action
      BY DEF Action, FreeCell
    <2> QED
      BY <2>1, <2>2
  <1> QED
    BY <1>1, <1>2

-----------------------------------------------------------------------------
(* The stream: what a step leaves in place. *)

\* A step that pushes nothing and moves no client.
LEMMA StreamStutter ==
    ASSUME StreamInvariant, UNCHANGED <<published, cursor, cpc, playing>>
    PROVE  StreamShape' /\ \A c \in Client : ClientInStream(c)'
  BY DEF StreamInvariant, StreamShape, ClientInStream, Announces

\* A message pushed at its place keeps the shape of the stream, and moves no
\* client.
LEMMA StreamPush ==
    ASSUME StreamInvariant, NEW m \in Message, Push(m),
           m.type = "actions" <=> Announces(Len(published)),
           UNCHANGED <<cursor, cpc, playing>>
    PROVE  /\ published' \in Seq(Message)
           /\ StreamShape'
           /\ \A c \in Client : ClientInStream(c)'
  <1>1. published \in Seq(Message)
    BY DEF StreamInvariant, TypeOK, Message
  <1>2. /\ published' \in Seq(Message)
        /\ Len(published') = Len(published) + 1
        /\ published'[Len(published) + 1] = m
        /\ \A i \in 1 .. Len(published) : published'[i] = published[i]
        /\ \A i \in 0 .. Len(published) : Announces(i)' <=> Announces(i)
    BY <1>1, PushFacts
  <1>3. StreamShape'
    <2> SUFFICES ASSUME NEW i \in 1 .. Len(published) + 1
                 PROVE  published'[i].type = "actions" <=> Announces(i - 1)'
      BY <1>2 DEF StreamShape
    <2>1. CASE i \in 1 .. Len(published)
      <3>1. published'[i] = published[i]
        BY <1>2, <2>1
      <3>2. Announces(i - 1)' <=> Announces(i - 1)
        BY <1>2, <2>1
      <3>3. published[i].type = "actions" <=> Announces(i - 1)
        BY <1>1, <2>1 DEF StreamInvariant, StreamShape
      <3> QED
        BY <3>1, <3>2, <3>3
    <2>2. CASE i = Len(published) + 1
      <3>1. i - 1 = Len(published) /\ published'[i] = m
        BY <1>1, <1>2, <2>2
      <3>2. \A j \in 0 .. Len(published) :
               j = i - 1 => (Announces(j)' <=> Announces(j))
        BY <1>2
      <3>3. Announces(i - 1)' <=> Announces(Len(published))
        BY <1>1, <3>1, <3>2
      <3> QED
        BY <3>1, <3>3
    <2> QED
      BY <1>1, <2>1, <2>2
  <1>4. \A c \in Client : ClientInStream(c)'
    <2> SUFFICES ASSUME NEW c \in Client PROVE ClientInStream(c)'
      OBVIOUS
    <2>1. cursor[c] \in 0 .. Len(published) /\ ClientInStream(c)
      BY <1>1 DEF StreamInvariant, TypeOK, ClientInStream
    <2>2. \A j \in 0 .. Len(published) :
             j = cursor[c] => (Announces(j)' <=> Announces(j))
      BY <1>2
    <2>3. Announces(cursor[c])' <=> Announces(cursor[c])
      BY <2>1, <2>2
    <2> QED
      BY <1>1, <1>2, <2>1, <2>3 DEF ClientInStream
  <1> QED
    BY <1>2, <1>3, <1>4

-----------------------------------------------------------------------------
(* StreamInvariant is inductive. *)

LEMMA StreamInit == Init => StreamInvariant
  <1> SUFFICES ASSUME Init PROVE StreamInvariant
    OBVIOUS
  <1> USE DEF Init, SocketsInit
  <1>1. TypeOK
    <2>1. 0 \in Player /\ NbPlayers \in NbPlayers .. NbPlayers + NbSpectators
      BY ClientFacts, PlayersAssumption, SpectatorsAssumption
    <2>2. 0 \in 0 .. MaxConsecutiveTimeout
      BY TimeoutAssumption
    <2> QED
      BY <2>1, <2>2 DEF TypeOK, Nobody
  <1>2. StreamShape /\ ServerInStream /\ \A c \in Client : ClientInStream(c)
    BY DEF StreamShape, ServerInStream, ClientInStream, Announces
  <1> QED
    BY <1>1, <1>2 DEF StreamInvariant

LEMMA StreamServer ==
    ASSUME StreamInvariant, ServerStep
    PROVE  StreamInvariant'
  <1> USE DEF StreamInvariant
  <1>0. published \in Seq(Message) /\ turn \in Player /\ turn \in Client
    BY ClientFacts DEF TypeOK, Message
  <1>1. CASE StartMatch
    <2>1. IdMessage(LastPlayer) \in Message /\ LastPlayer \in Player
      BY ClientFacts, MessageFacts
    <2>2. StreamShape' /\ (\A c \in Client : ClientInStream(c)') /\ published' \in Seq(Message)
      <3>1. ~Announces(Len(published))
        BY <1>1 DEF StartMatch, ServerInStream, Announces
      <3>2. IdMessage(LastPlayer).type = "id"
        BY DEF IdMessage
      <3> QED
        BY <1>1, <2>1, <3>1, <3>2, StreamPush DEF StartMatch, clientVars
    <2>3. ServerInStream'
      <3>1. published = <<>> /\ published' # <<>> /\ ~Announces(Len(published))'
        BY <1>0, <1>1, <2>1, PushFacts DEF StartMatch, ServerInStream
      <3> QED
        BY <1>1, <3>1 DEF StartMatch, ServerInStream
    <2>4. ticks' \in [Proc -> Nat]
      <3>1. Hit("start_of_round") \in Nat /\ Server \in Proc
        BY HitType DEF Proc
      <3> QED
        BY <1>1, <3>1 DEF TypeOK, StartMatch
    <2>5. TypeOK'
      BY <1>1, <2>2, <2>4 DEF TypeOK, StartMatch, clientVars, Message
    <2> QED
      BY <2>2, <2>3, <2>5
  <1>2. CASE BeginTurn
    <2>1. IdMessage(turn) \in Message /\ <<>> \in Seq(Action)
      BY <1>0, MessageFacts
    <2>2. StreamShape' /\ (\A c \in Client : ClientInStream(c)') /\ published' \in Seq(Message)
      <3>1. ~Announces(Len(published))
        BY <1>2 DEF BeginTurn, ServerInStream
      <3>2. IdMessage(turn).type = "id"
        BY DEF IdMessage
      <3> QED
        BY <1>2, <2>1, <3>1, <3>2, StreamPush DEF BeginTurn, clientVars
    <2>3. ServerInStream'
      <3>1. published # <<>> /\ published' # <<>> /\ Announces(Len(published))'
        BY <1>0, <1>2, <2>1, PushFacts DEF BeginTurn, ServerInStream, IdMessage
      <3> QED
        BY <1>0, <1>2, <3>1, TimeoutAssumption
        DEF BeginTurn, ServerInStream, Eliminated, TypeOK
    <2>4. log' \in [Proc -> Seq(Turn)]
      BY <1>0, <1>2, <2>1, ApplyType DEF BeginTurn, TypeOK, Proc
    <2>5. ticks' \in [Proc -> Nat]
      <3>1. Hit("player_turn") \in Nat /\ Server \in Proc
        BY HitType DEF Proc
      <3> QED
        BY <1>2, <3>1 DEF TypeOK, BeginTurn
    <2>6. TypeOK'
      BY <1>2, <2>1, <2>2, <2>4, <2>5
      DEF TypeOK, BeginTurn, ClearActions, clientVars, Message
    <2> QED
      BY <2>2, <2>3, <2>6
  <1>3. CASE ReceiveAnswer
    <2>1. PICK request \in requests :
            /\ RecvAndAck(request)
            /\ received' = received \o request.actions
            /\ IF Accepts(Server, turn, received')
               THEN spc' = "end_turn" /\ Apply(Server, turn, received')
               ELSE spc' = "fatal" /\ UNCHANGED log
      BY <1>3 DEF ReceiveAnswer
    <2>2. request.from \in Client /\ received' \in Seq(Action)
      BY <2>1 DEF TypeOK
    <2>3. StreamShape' /\ \A c \in Client : ClientInStream(c)'
      BY <1>3, StreamStutter DEF ReceiveAnswer, clientVars
    <2>4. ServerInStream'
      BY <1>3, <2>1 DEF ReceiveAnswer, ServerInStream, Announces
    <2>5. log' \in [Proc -> Seq(Turn)]
      BY <1>0, <2>1, <2>2, ApplyType DEF TypeOK, Proc
    <2>6. TypeOK'
      BY <1>3, <2>1, <2>2, <2>5
      DEF TypeOK, ReceiveAnswer, RecvAndAck, clientVars
    <2> QED
      BY <2>3, <2>4, <2>6
  <1>4. CASE TimeoutAnswer
    <2>1. StreamShape' /\ \A c \in Client : ClientInStream(c)'
      BY <1>4, StreamStutter DEF TimeoutAnswer, clientVars, socketVars
    <2>2. ServerInStream'
      BY <1>4 DEF TimeoutAnswer, ServerInStream, Announces, socketVars
    <2>3. log' \in [Proc -> Seq(Turn)]
      <3>1. <<>> \in Seq(Action) /\ Server \in Proc
        BY DEF Proc
      <3> QED
        BY <1>0, <1>4, <3>1, ApplyType DEF TimeoutAnswer, TypeOK
    <2>4. nbTimeout' \in [Player -> 0 .. MaxConsecutiveTimeout]
      BY <1>0, <1>4, TimeoutAssumption DEF TimeoutAnswer, TypeOK, ServerInStream
    <2>5. TypeOK'
      BY <1>4, <2>3, <2>4 DEF TypeOK, TimeoutAnswer, clientVars, socketVars
    <2> QED
      BY <2>1, <2>2, <2>5
  <1>5. CASE EndTurn
    <2>0. NbSpectators > 0 => NbPlayers \in Spectator
      BY PlayersAssumption, SpectatorsAssumption DEF Spectator
    <2>1. ActionsMessage(received) \in Message /\ ActionsMessage(received).type = "actions"
      BY MessageFacts DEF TypeOK, ActionsMessage
    <2>2. StreamShape' /\ (\A c \in Client : ClientInStream(c)') /\ published' \in Seq(Message)
      <3>1. Announces(Len(published))
        BY <1>5 DEF EndTurn, ServerInStream
      <3> QED
        BY <1>5, <2>1, <3>1, StreamPush DEF EndTurn, PushActions, clientVars
    <2>3. spc' \in {"watch", "turn", "end_round"}
      BY <1>5 DEF EndTurn, NextTurn
    <2>4. ServerInStream'
      <3>1. published # <<>> /\ published' # <<>> /\ ~Announces(Len(published))'
        BY <1>0, <1>5, <2>1, PushFacts DEF EndTurn, PushActions, ServerInStream
      <3> QED
        BY <1>5, <2>0, <2>3, <3>1 DEF EndTurn, ServerInStream, NextTurn
    <2>5. turn' \in Player
      BY <1>0, <1>5, PlayersAssumption DEF EndTurn, NextTurn, Player
    <2>6. replay' \in Seq([client : Client, actions : Seq(Action)])
      BY <1>0, <1>5 DEF EndTurn, Saved, TypeOK
    <2>7. watcher' \in NbPlayers .. NbPlayers + NbSpectators
      BY <1>5, PlayersAssumption, SpectatorsAssumption DEF EndTurn
    <2>8. TypeOK'
      BY <1>5, <2>2, <2>3, <2>5, <2>6, <2>7
      DEF TypeOK, EndTurn, clientVars, gameVars, Message
    <2> QED
      BY <2>2, <2>4, <2>8
  <1>6. CASE BeginWatch
    <2>1. watcher \in Spectator /\ watcher \in Client /\ watcher \notin Player
      BY <1>6, ClientFacts DEF BeginWatch, ServerInStream
    <2>2. IdMessage(watcher) \in Message /\ <<>> \in Seq(Action)
      BY <2>1, MessageFacts
    <2>3. StreamShape' /\ (\A c \in Client : ClientInStream(c)') /\ published' \in Seq(Message)
      <3>1. ~Announces(Len(published))
        BY <1>6 DEF BeginWatch, ServerInStream
      <3>2. IdMessage(watcher).type = "id"
        BY DEF IdMessage
      <3> QED
        BY <1>6, <2>2, <3>1, <3>2, StreamPush DEF BeginWatch, clientVars
    <2>4. ServerInStream'
      <3>1. published # <<>> /\ published' # <<>> /\ ~Announces(Len(published))'
        BY <1>0, <1>6, <2>1, <2>2, PushFacts DEF BeginWatch, ServerInStream, IdMessage
      <3> QED
        BY <1>6, <2>1, <3>1 DEF BeginWatch, ServerInStream
    <2>5. TypeOK'
      BY <1>6, <2>2, <2>3
      DEF TypeOK, BeginWatch, ClearActions, clientVars, gameVars, Message
    <2> QED
      BY <2>3, <2>4, <2>5
  <1>7. CASE ReceiveWatch
    <2>1. PICK request \in requests :
            /\ RecvAndAck(request)
            /\ received' = received \o request.actions
            /\ replay' = Saved(watcher, received')
      BY <1>7 DEF ReceiveWatch
    <2>2. /\ request.from \in Client /\ received' \in Seq(Action)
          /\ watcher \in Spectator /\ watcher \in Client
      BY <1>7, <2>1, ClientFacts DEF TypeOK, ReceiveWatch, ServerInStream
    <2>3. StreamShape' /\ \A c \in Client : ClientInStream(c)'
      BY <1>7, StreamStutter DEF ReceiveWatch, clientVars
    <2>4. \/ spc' = "watch" /\ watcher' \in Spectator
          \/ spc' \in {"turn", "end_round"} /\ watcher' = watcher
      BY <1>7 DEF ReceiveWatch, NextTurn
    <2>5. ServerInStream'
      BY <1>7, <2>2, <2>4 DEF ReceiveWatch, ServerInStream, Announces
    <2>6. turn' \in Player
      BY <1>0, <1>7, PlayersAssumption DEF ReceiveWatch, NextTurn, Player
    <2>7. replay' \in Seq([client : Client, actions : Seq(Action)])
      BY <2>1, <2>2 DEF Saved, TypeOK
    <2>8. watcher' \in NbPlayers .. NbPlayers + NbSpectators
      BY <2>4, PlayersAssumption, SpectatorsAssumption DEF TypeOK, Spectator
    <2>9. TypeOK'
      BY <1>7, <2>1, <2>2, <2>4, <2>6, <2>7, <2>8
      DEF TypeOK, ReceiveWatch, RecvAndAck, clientVars, gameVars
    <2> QED
      BY <2>3, <2>5, <2>9
  <1>8. CASE EndRound
    <2>1. StreamShape' /\ \A c \in Client : ClientInStream(c)'
      BY <1>8, StreamStutter DEF EndRound, clientVars, socketVars
    <2>2. ServerInStream'
      BY <1>8 DEF EndRound, ServerInStream, Announces, socketVars
    <2>3. RoundTicks(ticks[Server]) \in Nat
      BY RoundTicksType DEF TypeOK, Proc
    <2>4. TypeOK'
      BY <1>8, <2>3, ClientFacts DEF TypeOK, EndRound, clientVars, socketVars
    <2> QED
      BY <2>1, <2>2, <2>4
  <1> QED
    BY <1>1, <1>2, <1>3, <1>4, <1>5, <1>6, <1>7, <1>8 DEF ServerStep

\* What a client finds when it pulls: an id where it waits for one, actions
\* where it waits for actions.
LEMMA PullFacts ==
    ASSUME StreamInvariant, NEW c \in Client, Pull(c)
    PROVE  /\ cursor' \in [Client -> Nat]
           /\ cursor'[c] = cursor[c] + 1
           /\ \A d \in Client \ {c} : cursor'[d] = cursor[d]
           /\ cursor'[c] \in 1 .. Len(published)
           /\ NextMessage(c) \in Message
           /\ NextMessage(c).type = "actions" <=> Announces(cursor[c])
           /\ Announces(cursor[c] + 1) <=>
                  /\ cursor[c] >= 1
                  /\ NextMessage(c).type = "id"
                  /\ NextMessage(c).id \in Player
  <1>1. published \in Seq(Message) /\ cursor \in [Client -> Nat]
    BY DEF StreamInvariant, TypeOK, Message
  <1>2. /\ cursor' \in [Client -> Nat]
        /\ cursor'[c] = cursor[c] + 1
        /\ \A d \in Client \ {c} : cursor'[d] = cursor[d]
        /\ cursor'[c] \in 1 .. Len(published)
    BY <1>1 DEF Pull, CanPull
  <1>3. cursor[c] + 1 \in DOMAIN published /\ (cursor[c] + 1) - 1 = cursor[c]
    BY <1>1, <1>2
  <1>4. NextMessage(c) \in Message
    BY <1>1, <1>3 DEF NextMessage
  <1>5. NextMessage(c).type = "actions" <=> Announces(cursor[c])
    BY <1>3 DEF StreamInvariant, StreamShape, NextMessage
  <1>6. Announces(cursor[c] + 1) <=>
            cursor[c] >= 1 /\ NextMessage(c).type = "id" /\ NextMessage(c).id \in Player
    BY <1>1 DEF Announces, NextMessage
  <1> QED
    BY <1>2, <1>4, <1>5, <1>6

\* A step of client c that leaves the server and the stream alone, and the
\* place of every other client.
LEMMA StreamClient ==
    ASSUME StreamInvariant, NEW c \in Client,
           UNCHANGED <<published, serverVars>>,
           \A d \in Client \ {c} :
               UNCHANGED <<cursor[d], cpc[d], playing[d]>>,
           ClientInStream(c)'
    PROVE  StreamShape' /\ ServerInStream' /\ \A d \in Client : ClientInStream(d)'
  <1>1. \A i : Announces(i)' <=> Announces(i)
    BY DEF Announces
  <1>2. StreamShape' /\ ServerInStream'
    BY DEF StreamInvariant, StreamShape, ServerInStream, serverVars, Announces
  <1>3. ASSUME NEW d \in Client \ {c} PROVE ClientInStream(d)'
    <2>1. ClientInStream(d) /\ UNCHANGED <<cursor[d], cpc[d], playing[d]>>
      BY DEF StreamInvariant
    <2> QED
      BY <2>1 DEF ClientInStream, Announces
  <1> QED
    BY <1>2, <1>3

\* Where the client stands after the pull.
LEMMA PullPlace ==
    ASSUME StreamInvariant, NEW c \in Client, Pull(c), UNCHANGED published
    PROVE  /\ cursor'[c] \in 1 .. Len(published')
           /\ Announces(cursor[c])' <=> Announces(cursor[c] + 1)
  <1>1. cursor'[c] = cursor[c] + 1 /\ cursor'[c] \in 1 .. Len(published)
    BY PullFacts
  <1> QED
    BY <1>1 DEF Announces

LEMMA StreamClientStep ==
    ASSUME StreamInvariant, NEW c \in Client, ClientStep(c) \/ Die(c)
    PROVE  StreamInvariant'
  <1> USE DEF StreamInvariant
  <1>a. published \in Seq(Message) /\ cursor[c] \in Nat /\ ClientInStream(c)
    BY DEF TypeOK, Message
  <1>b. c \in Proc /\ ticks[c] \in Nat
    BY DEF Proc, TypeOK
  <1>c. Hit("start_of_round") \in Nat /\ Hit("player_turn") \in Nat
    BY HitType
  <1>d. RoundTicks(ticks[c]) \in Nat
    BY <1>b, RoundTicksType
  <1>1. CASE ClientStart(c)
    <2>1. Pull(c) /\ cursor[c] = 0 /\ ~Announces(cursor[c])
      BY <1>a, <1>1 DEF ClientStart, ClientInStream, Announces
    <2>2. NextMessage(c).id \in Client /\ ~Announces(cursor[c] + 1)
      BY <2>1, PullFacts, MessageFacts
    <2>3. ClientInStream(c)'
      BY <1>1, <1>a, <2>1, <2>2, PullFacts, PullPlace
      DEF ClientStart, ClientInStream, TypeOK
    <2>4. TypeOK'
      <3>1. cursor' \in [Client -> Nat]
        BY <2>1, PullFacts
      <3>2. ticks' \in [Proc -> Nat]
        BY <1>1, <1>b, <1>c DEF ClientStart, TypeOK
      <3>3. lastId' \in [Client -> Client \union {Nobody}]
        BY <1>1, <2>2 DEF ClientStart, TypeOK
      <3> QED
        BY <1>1, <3>1, <3>2, <3>3 DEF TypeOK, ClientStart, serverVars
    <2> QED
      BY <1>1, <2>1, <2>3, <2>4, PullFacts, StreamClient DEF ClientStart, TypeOK
  <1>2. CASE PullOwnTurn(c)
    <2>1. Pull(c) /\ cursor[c] >= 1 /\ ~Announces(cursor[c]) /\ NextMessage(c).id = c
      BY <1>2, <1>a DEF PullOwnTurn, MyTurn, ClientInStream
    <2>2. NextMessage(c).type = "id" /\ (Announces(cursor[c] + 1) <=> c \in Player)
      BY <2>1, PullFacts, MessageFacts
    <2>3. ClientInStream(c)'
      <3>1. UNCHANGED published /\ cpc'[c] = "my_turn"
        BY <1>2 DEF PullOwnTurn, TypeOK
      <3>2. cursor'[c] \in 1 .. Len(published')
        BY <2>1, <3>1, PullPlace
      <3>3. Announces(cursor[c])' <=> c \in Player
        BY <2>1, <2>2, <3>1, PullPlace
      <3> QED
        BY <1>a, <3>1, <3>2, <3>3 DEF ClientInStream
    <2>4. TypeOK'
      <3>1. cursor' \in [Client -> Nat]
        BY <2>1, PullFacts
      <3>2. ticks' \in [Proc -> Nat]
        BY <1>2, <1>b, <1>c DEF PullOwnTurn, TypeOK
      <3>3. playing' \in [Client -> Client \union {Nobody}]
        BY <1>2 DEF PullOwnTurn, TypeOK
      <3> QED
        BY <1>2, <3>1, <3>2, <3>3 DEF TypeOK, PullOwnTurn, serverVars
    <2> QED
      BY <1>2, <2>1, <2>3, <2>4, PullFacts, StreamClient DEF PullOwnTurn, TypeOK
  <1>3. CASE PullSpectatorTurn(c)
    <2>1. /\ Pull(c) /\ cursor[c] >= 1 /\ ~Announces(cursor[c])
          /\ NextMessage(c).id \in Spectator
      BY <1>3, <1>a DEF PullSpectatorTurn, ClientInStream
    <2>2. NextMessage(c).id \in Client /\ ~Announces(cursor[c] + 1)
      BY <2>1, PullFacts, ClientFacts
    <2>3. ClientInStream(c)'
      BY <1>3, <1>a, <2>1, <2>2, PullFacts, PullPlace
      DEF PullSpectatorTurn, ClientInStream, TypeOK
    <2>4. TypeOK'
      <3>1. cursor' \in [Client -> Nat]
        BY <2>1, PullFacts
      <3>2. playing' \in [Client -> Client \union {Nobody}]
        BY <1>3, <2>2 DEF PullSpectatorTurn, TypeOK
      <3> QED
        BY <1>3, <3>1, <3>2 DEF TypeOK, PullSpectatorTurn, serverVars, gameVars
    <2> QED
      BY <1>3, <2>1, <2>3, <2>4, PullFacts, StreamClient DEF PullSpectatorTurn, TypeOK
  <1>4. CASE PullPlayerTurn(c)
    <2>1. /\ Pull(c) /\ cursor[c] >= 1 /\ ~Announces(cursor[c])
          /\ NextMessage(c).id \in Player
      BY <1>4, <1>a DEF PullPlayerTurn, ClientInStream
    <2>2. NextMessage(c).id \in Client /\ Announces(cursor[c] + 1)
      BY <2>1, PullFacts, MessageFacts, ClientFacts
    <2>3. ClientInStream(c)'
      <3>1. cpc'[c] = "actions" /\ playing'[c] = NextMessage(c).id /\ UNCHANGED published
        BY <1>4 DEF PullPlayerTurn, TypeOK
      <3>2. cursor'[c] \in 1 .. Len(published') /\ Announces(cursor[c])'
        BY <2>1, <2>2, <3>1, PullPlace
      <3> QED
        BY <2>1, <3>1, <3>2 DEF ClientInStream
    <2>4. TypeOK'
      <3>1. cursor' \in [Client -> Nat]
        BY <2>1, PullFacts
      <3>2. ticks' \in [Proc -> Nat]
        BY <1>4, <1>b, <1>c DEF PullPlayerTurn, TypeOK
      <3>3. /\ playing' \in [Client -> Client \union {Nobody}]
            /\ previous' \in [Client -> Player \union {Nobody}]
        BY <1>4, <2>1, <2>2 DEF PullPlayerTurn, TypeOK
      <3> QED
        BY <1>4, <3>1, <3>2, <3>3 DEF TypeOK, PullPlayerTurn, serverVars
    <2> QED
      BY <1>4, <2>1, <2>3, <2>4, PullFacts, StreamClient DEF PullPlayerTurn, TypeOK
  <1>5. CASE Answer(c)
    <2>1. ClientInStream(c)'
      BY <1>5, <1>a DEF Answer, ClientInStream, Announces, TypeOK
    <2>2. PICK actions \in Seq(Action) :
             SendActions(c, actions) /\ (UNCHANGED log \/ (c \in Player /\ Apply(c, c, actions)))
      <3>1. CASE c \in Player
        BY <1>5, <3>1, ChampionActionsType DEF Answer
      <3>2. CASE c \notin Player
        <4>1. <<>> \in Seq(Action)
          OBVIOUS
        <4> QED
          BY <1>5, <3>2, <4>1 DEF Answer
      <3> QED
        BY <3>1, <3>2
    <2>3. log' \in [Proc -> Seq(Turn)]
      BY <1>b, <2>2, ApplyType DEF TypeOK
    <2>4. requests' \subseteq [from : Client, actions : Seq(Action)]
      BY <2>2 DEF SendActions, TypeOK
    <2>5. TypeOK'
      BY <1>5, <2>3, <2>4 DEF TypeOK, Answer, serverVars
    <2> QED
      BY <1>5, <2>1, <2>5, StreamClient DEF Answer, TypeOK
  <1>6. CASE PlayerAck(c)
    <2>1. ClientInStream(c)'
      BY <1>6, <1>a DEF PlayerAck, ClientInStream, Announces, TypeOK
    <2>2. TypeOK'
      BY <1>6 DEF TypeOK, PlayerAck, WaitForAck, serverVars, gameVars
    <2> QED
      BY <1>6, <2>1, <2>2, StreamClient DEF PlayerAck, TypeOK
  <1>7. ASSUME cpc[c] \in {"own_actions", "actions"}, Pull(c),
               cpc' = [cpc EXCEPT ![c] = "await"] \/
               cpc' = [cpc EXCEPT ![c] = "done"] \/
               cpc' = [cpc EXCEPT ![c] = "fatal"],
               UNCHANGED <<published, playing>>
        PROVE  /\ ClientInStream(c)'
               /\ NextMessage(c).actions \in Seq(Action)
               /\ cursor' \in [Client -> Nat]
               /\ cpc' \in [Client -> {"start", "await", "my_turn", "ack",
                          "own_actions", "actions", "done", "dead", "fatal"}]
    <2>1. Announces(cursor[c])
      BY <1>7, <1>a DEF ClientInStream
    <2>2. NextMessage(c).type = "actions" /\ ~Announces(cursor[c] + 1)
      BY <1>7, <2>1, PullFacts
    <2>3. ClientInStream(c)'
      <3>1. cpc'[c] \in {"await", "done", "fatal"}
        BY <1>7 DEF TypeOK
      <3>2. cursor'[c] \in 1 .. Len(published')
        BY <1>7, PullPlace
      <3>3. ~Announces(cursor[c])'
        BY <1>7, <2>2, PullPlace
      <3> QED
        BY <1>a, <3>1, <3>2, <3>3 DEF ClientInStream
    <2> QED
      BY <1>7, <2>2, <2>3, PullFacts, MessageFacts DEF TypeOK
  <1>8. ASSUME PlayerEndTurn(c)
        PROVE  /\ ticks' \in [Proc -> Nat]
               /\ cpc' = [cpc EXCEPT ![c] = "await"] \/
                  cpc' = [cpc EXCEPT ![c] = "done"]
    BY <1>8, <1>b, <1>d DEF PlayerEndTurn, TypeOK
  <1>9. CASE PullOwnActions(c)
    <2>1. /\ ClientInStream(c)' /\ ticks' \in [Proc -> Nat]
          /\ cursor' \in [Client -> Nat]
          /\ cpc' \in [Client -> {"start", "await", "my_turn", "ack",
                     "own_actions", "actions", "done", "dead", "fatal"}]
      BY <1>9, <1>7, <1>8 DEF PullOwnActions
    <2>2. TypeOK'
      BY <1>9, <2>1 DEF TypeOK, PullOwnActions, serverVars
    <2> QED
      BY <1>9, <1>8, <2>1, <2>2, PullFacts, StreamClient DEF PullOwnActions, TypeOK
  <1>10. CASE PlayerPullActions(c)
    <2>1. /\ cpc' = [cpc EXCEPT ![c] = "await"] \/
             cpc' = [cpc EXCEPT ![c] = "done"] \/
             cpc' = [cpc EXCEPT ![c] = "fatal"]
          /\ ticks' \in [Proc -> Nat]
      BY <1>10, <1>8 DEF PlayerPullActions, gameVars, TypeOK
    <2>2. /\ ClientInStream(c)' /\ cursor' \in [Client -> Nat]
          /\ NextMessage(c).actions \in Seq(Action) /\ playing[c] \in Player
          /\ cpc' \in [Client -> {"start", "await", "my_turn", "ack",
                     "own_actions", "actions", "done", "dead", "fatal"}]
      BY <1>10, <1>7, <1>a, <2>1 DEF PlayerPullActions, ClientInStream
    <2>3. log' \in [Proc -> Seq(Turn)]
      BY <1>10, <1>b, <2>2, ApplyType DEF PlayerPullActions, gameVars, TypeOK
    <2>4. TypeOK'
      BY <1>10, <2>1, <2>2, <2>3 DEF TypeOK, PlayerPullActions, serverVars
    <2> QED
      BY <1>10, <2>1, <2>2, <2>4, PullFacts, StreamClient DEF PlayerPullActions, TypeOK
  <1>11. CASE SpectatorPullActions(c)
    <2>1. cpc' = [cpc EXCEPT ![c] = "await"] \/
          cpc' = [cpc EXCEPT ![c] = "done"] \/
          cpc' = [cpc EXCEPT ![c] = "fatal"]
      BY <1>11 DEF SpectatorPullActions
    <2>2. /\ ClientInStream(c)' /\ cursor' \in [Client -> Nat]
          /\ NextMessage(c).actions \in Seq(Action) /\ playing[c] \in Player
          /\ cpc' \in [Client -> {"start", "await", "my_turn", "ack",
                     "own_actions", "actions", "done", "dead", "fatal"}]
      BY <1>11, <1>7, <1>a, <2>1 DEF SpectatorPullActions, ClientInStream
    <2>3. log' \in [Proc -> Seq(Turn)]
      BY <1>11, <1>b, <2>2, ApplyType DEF SpectatorPullActions, TypeOK
    <2>4. TypeOK'
      BY <1>11, <2>2, <2>3 DEF TypeOK, SpectatorPullActions, serverVars
    <2> QED
      BY <1>11, <2>1, <2>2, <2>4, PullFacts, StreamClient DEF SpectatorPullActions, TypeOK
  <1>12. CASE SpectatorAck(c)
    <2>1. c \notin Player
      BY <1>12, ClientFacts DEF SpectatorAck
    <2>2. ClientInStream(c)'
      BY <1>12, <1>a, <2>1 DEF SpectatorAck, ClientInStream, Announces, TypeOK
    <2>3. ticks' \in [Proc -> Nat] /\ lastRound' \in [Client -> BOOLEAN]
      BY <1>12, <1>b, <1>d DEF SpectatorAck, TypeOK
    <2>4. TypeOK'
      BY <1>12, <2>3 DEF TypeOK, SpectatorAck, WaitForAck, serverVars
    <2> QED
      BY <1>12, <2>2, <2>4, StreamClient DEF SpectatorAck, TypeOK
  <1>13. CASE Die(c)
    <2>1. ClientInStream(c)'
      BY <1>13, <1>a DEF Die, ClientInStream, Announces, TypeOK
    <2>2. TypeOK'
      BY <1>13 DEF TypeOK, Die, serverVars, gameVars
    <2> QED
      BY <1>13, <2>1, <2>2, StreamClient DEF Die, TypeOK
  <1> QED
    BY <1>1, <1>2, <1>3, <1>4, <1>5, <1>6, <1>9, <1>10, <1>11, <1>12, <1>13
    DEF ClientStep

\* The stream keeps its shape and every process its place in it.
THEOREM StreamSafety == Spec => []StreamInvariant
  <1>1. Init => StreamInvariant
    BY StreamInit
  <1>2. StreamInvariant /\ [Next]_vars => StreamInvariant'
    <2> SUFFICES ASSUME StreamInvariant, [Next]_vars PROVE StreamInvariant'
      OBVIOUS
    <2>1. CASE ServerStep
      BY <2>1, StreamServer
    <2>2. CASE \E c \in Client : ClientStep(c) \/ Die(c)
      BY <2>2, StreamClientStep
    <2>3. CASE UNCHANGED vars
      BY <2>3 DEF vars, socketVars, serverVars, clientVars, gameVars,
         StreamInvariant, TypeOK, StreamShape, ServerInStream, ClientInStream,
         Announces
    <2> QED
      BY <2>1, <2>2, <2>3 DEF Next, Terminated
  <1> QED
    BY <1>1, <1>2, PTL DEF Spec

\* Every variable keeps its type: in particular nb_timeout never exceeds
\* max_consecutive_timeout, and no id is ever applied as a list of actions.
THEOREM TypeCorrect == Spec => []TypeOK
  <1>1. StreamInvariant => TypeOK
    BY DEF StreamInvariant
  <1> QED
    BY <1>1, StreamSafety, PTL

\* pull_id always finds an id, pull_actions always finds actions, however the
\* server and the clients interleave, time out or die.
THEOREM StreamIsAligned == Spec => []StreamAligned
  <1>1. StreamInvariant => StreamAligned
    <2> SUFFICES ASSUME StreamInvariant, NEW c \in Client, CanPull(c)
                 PROVE  /\ cpc[c] \in {"start", "await"} => NextMessage(c).type = "id"
                        /\ cpc[c] \in {"actions", "own_actions"} =>
                              NextMessage(c).type = "actions"
      BY DEF StreamAligned
    <2>1. published \in Seq(Message) /\ cursor[c] \in Nat /\ ClientInStream(c)
      BY DEF StreamInvariant, TypeOK, Message
    <2>2. cursor[c] + 1 \in DOMAIN published /\ (cursor[c] + 1) - 1 = cursor[c]
      BY <2>1 DEF CanPull
    <2>3. NextMessage(c).type = "actions" <=> Announces(cursor[c])
      BY <2>2 DEF StreamInvariant, StreamShape, NextMessage
    <2>4. NextMessage(c) \in Message
      BY <2>1, <2>2 DEF NextMessage
    <2>5. NextMessage(c).type \in {"id", "actions"}
      BY <2>4, MessageFacts
    <2>6. cpc[c] \in {"start", "await"} => ~Announces(cursor[c])
      BY <2>1 DEF ClientInStream, Announces
    <2>7. cpc[c] \in {"actions", "own_actions"} => Announces(cursor[c])
      BY <2>1 DEF ClientInStream
    <2> QED
      BY <2>3, <2>5, <2>6, <2>7
  <1> QED
    BY <1>1, StreamSafety, PTL

-----------------------------------------------------------------------------
(* One request, then its reply: LockStep is inductive by itself. *)

LEMMA LockStepServer ==
    ASSUME TypeOK, LockStep, ServerStep
    PROVE  LockStep'
  <1>1. CASE ReceiveAnswer \/ ReceiveWatch
    <2>1. /\ \E request \in requests : RecvAndAck(request)
          /\ UNCHANGED cpc
      BY <1>1 DEF ReceiveAnswer, ReceiveWatch, clientVars
    <2> QED
      BY <2>1 DEF LockStep, RecvAndAck
  <1>2. CASE ~(ReceiveAnswer \/ ReceiveWatch)
    <2>1. UNCHANGED <<requests, replies, cpc>>
      BY <1>2 DEF ServerStep, StartMatch, BeginTurn, TimeoutAnswer, EndTurn,
         BeginWatch, EndRound, clientVars, socketVars
    <2> QED
      BY <2>1 DEF LockStep
  <1> QED
    BY <1>1, <1>2

LEMMA LockStepClient ==
    ASSUME TypeOK, LockStep, NEW c \in Client, ClientStep(c) \/ Die(c)
    PROVE  LockStep'
  <1> DEFINE Engaged == replies \union {r.from : r \in requests}
  <1>0. \A d \in Client \ {c} : cpc'[d] = cpc[d]
    BY DEF ClientStep, ClientStart, PullOwnTurn, PullSpectatorTurn,
       PullPlayerTurn, Answer, PlayerAck, PullOwnActions, PlayerEndTurn,
       PlayerPullActions, SpectatorPullActions, SpectatorAck, Die, TypeOK
  <1>a. Engaged \subseteq Client
    BY DEF TypeOK
  <1>1. CASE Answer(c)
    <2>1. PICK actions : SendActions(c, actions)
      BY <1>1 DEF Answer
    <2>2. c \notin Engaged
      BY <1>1 DEF Answer, LockStep
    <2>3. cpc'[c] = "ack" /\ replies' = replies
      BY <1>1 DEF Answer, TypeOK
    <2> QED
      BY <1>0, <1>a, <2>1, <2>2, <2>3 DEF LockStep, SendActions
  <1>2. CASE PlayerAck(c) \/ SpectatorAck(c)
    <2>1. WaitForAck(c) /\ UNCHANGED requests
      BY <1>2 DEF PlayerAck, SpectatorAck
    <2>2. c \notin Engaged'
      BY <2>1 DEF WaitForAck, LockStep
    <2>3. Engaged' \subseteq Engaged
      BY <2>1 DEF WaitForAck
    <2> QED
      BY <1>0, <1>a, <2>1, <2>2, <2>3 DEF LockStep, WaitForAck
  <1>3. CASE Die(c)
    <2>1. requests' \subseteq requests /\ UNCHANGED replies /\ cpc'[c] = "dead"
      BY <1>3 DEF Die, TypeOK
    <2> QED
      BY <1>0, <1>a, <2>1 DEF LockStep
  <1>4. CASE /\ ~(Answer(c) \/ PlayerAck(c) \/ SpectatorAck(c) \/ Die(c))
    <2>1. UNCHANGED <<requests, replies>> /\ cpc[c] \notin {"ack", "dead"}
      BY <1>4 DEF ClientStep, ClientStart, PullOwnTurn, PullSpectatorTurn,
         PullPlayerTurn, PullOwnActions, PlayerPullActions, SpectatorPullActions
    <2>2. c \notin Engaged
      BY <2>1 DEF LockStep
    <2> QED
      BY <1>0, <1>a, <2>1, <2>2 DEF LockStep
  <1> QED
    BY <1>1, <1>2, <1>3, <1>4

\* A client never sends before the reply to its previous request has come,
\* and never has both a request and a reply on their way: its REQ socket is
\* never used out of turn, late answers or not.
THEOREM OneRequestAtATime == Spec => []LockStep
  <1>1. Init => LockStep
    BY DEF Init, SocketsInit, LockStep
  <1>2. TypeOK /\ LockStep /\ [Next]_vars => LockStep'
    <2> SUFFICES ASSUME TypeOK, LockStep, [Next]_vars PROVE LockStep'
      OBVIOUS
    <2>1. CASE ServerStep
      BY <2>1, LockStepServer
    <2>2. CASE \E c \in Client : ClientStep(c) \/ Die(c)
      BY <2>2, LockStepClient
    <2>3. CASE UNCHANGED vars
      BY <2>3 DEF vars, socketVars, clientVars, LockStep
    <2> QED
      BY <2>1, <2>2, <2>3 DEF Next, Terminated
  <1> QED
    BY <1>1, <1>2, TypeCorrect, PTL DEF Spec
=============================================================================
