-------------------------- MODULE AgreementProofs --------------------------
(***************************************************************************)
(* Theorems about what the processes of a turn-based match agree on: the   *)
(* turns of the others whatever the delays, the whole game state and the   *)
(* requests as long as no player is late, the Match they implement, the    *)
(* end of the game, the turns that the spectators are shown, and the       *)
(* replay of the file that the server leaves.                              *)
(***************************************************************************)
EXTENDS TurnBasedMatch, Replay, TurnBasedProofs, ListLemmas, FiniteSetTheorems

-----------------------------------------------------------------------------
(* Where the turns of each process are in the stream. *)

\* How many turns are in the first i messages of a stream, and of what the
\* server has pushed.
TurnsOf(stream, i) == Cardinality({j \in 1 .. i : stream[j].type = "actions"})

Turns(i) == TurnsOf(published, i)

\* The server has applied the turns it has published, and the one it is about
\* to publish.
ServerLog ==
    /\ Len(log[Server]) = Turns(Len(published)) + IF spc = "end_turn" THEN 1 ELSE 0
    /\ \A i \in DOMAIN published : published[i].type = "actions" =>
            log[Server][Turns(i)] = TurnOf(published[i - 1].id, published[i].actions)
    /\ spc \in {"poll", "end_turn"} => published[Len(published)].id = turn
    /\ spc = "poll" => received = <<>>
    /\ spc = "end_turn" => log[Server][Len(log[Server])] = TurnOf(turn, received)

\* A client that has played its turn, and has not pulled it back.
Ahead(c) == Len(log[c]) > Turns(cursor[c])

\* A client has applied the turns it has pulled, and the one it has played.
ClientLog(c) ==
    /\ Len(log[c]) <= Turns(cursor[c]) + 1
    /\ cpc[c] \notin {"dead", "fatal"} =>
          /\ Len(log[c]) >= Turns(cursor[c])
          /\ Ahead(c) <=> \/ cpc[c] = "ack" /\ c \in Player
                          \/ cpc[c] = "own_actions"
    /\ Ahead(c) => Announces(cursor[c]) /\ published[cursor[c]].id = c
    /\ Ahead(c) => log[c][Len(log[c])].player = c
    /\ cpc[c] = "actions" => playing[c] = published[cursor[c]].id
    /\ cpc[c] = "my_turn" => published[cursor[c]].id = c
    /\ \A i \in 1 .. Shorter(log[c], log[Server]) :
          /\ log[c][i].player = log[Server][i].player
          /\ log[c][i].player # c => log[c][i] = log[Server][i]

LogInvariant == ServerLog /\ \A c \in Client : ClientLog(c)

-----------------------------------------------------------------------------
(* Counting turns. *)

LEMMA TurnsOfFacts ==
    ASSUME NEW stream
    PROVE  /\ TurnsOf(stream, 0) = 0
           /\ \A i \in Nat : TurnsOf(stream, i) \in Nat
           /\ \A i \in Nat : TurnsOf(stream, i + 1) =
                   TurnsOf(stream, i) + IF stream[i + 1].type = "actions" THEN 1 ELSE 0
           /\ \A i, j \in Nat : i <= j => TurnsOf(stream, i) <= TurnsOf(stream, j)
  <1> DEFINE T(i) == {j \in 1 .. i : stream[j].type = "actions"}
  <1>1. \A i \in Nat : IsFiniteSet(T(i)) /\ Cardinality(T(i)) \in Nat
    <2> TAKE i \in Nat
    <2>1. IsFiniteSet(1 .. i) /\ T(i) \subseteq 1 .. i
      BY FS_Interval
    <2>2. IsFiniteSet(T(i))
      BY <2>1, FS_Subset
    <2> QED
      BY <2>2, FS_CardinalityType
  <1>2. T(0) = {}
    OBVIOUS
  <1>3. ASSUME NEW i \in Nat
        PROVE  Cardinality(T(i + 1)) =
                   Cardinality(T(i)) + IF stream[i + 1].type = "actions" THEN 1 ELSE 0
    <2>1. CASE stream[i + 1].type = "actions"
      <3>1. T(i + 1) = T(i) \union {i + 1} /\ i + 1 \notin T(i)
        BY <2>1
      <3>2. IsFiniteSet(T(i)) /\ Cardinality(T(i)) \in Nat
        BY <1>1
      <3> HIDE DEF T
      <3>3. Cardinality(T(i) \union {i + 1}) = Cardinality(T(i)) + 1
        BY <3>1, <3>2, FS_AddElement
      <3> QED
        BY <2>1, <3>1, <3>3
    <2>2. CASE stream[i + 1].type # "actions"
      <3>1. T(i + 1) = T(i)
        BY <2>2
      <3>2. Cardinality(T(i)) \in Nat
        BY <1>1
      <3> HIDE DEF T
      <3> QED
        BY <2>2, <3>1, <3>2
    <2> QED
      BY <2>1, <2>2
  <1>4. ASSUME NEW i \in Nat, NEW j \in Nat, i <= j
        PROVE  Cardinality(T(i)) <= Cardinality(T(j))
    <2>1. T(i) \subseteq T(j)
      BY <1>4
    <2> QED
      BY <1>1, <2>1, FS_Subset
  <1>5. Cardinality(T(0)) = 0
    BY <1>2, FS_EmptySet
  <1> QED
    BY <1>1, <1>3, <1>4, <1>5 DEF TurnsOf

LEMMA TurnsFacts ==
    /\ Turns(0) = 0
    /\ \A i \in Nat : Turns(i) \in Nat
    /\ \A i \in Nat : Turns(i + 1) =
            Turns(i) + IF published[i + 1].type = "actions" THEN 1 ELSE 0
    /\ \A i, j \in Nat : i <= j => Turns(i) <= Turns(j)
  BY TurnsOfFacts DEF Turns

\* What is pushed does not change the count of what was there.
LEMMA TurnsKept ==
    ASSUME NEW n \in Nat, \A i \in 1 .. n : published'[i] = published[i]
    PROVE  \A i \in 0 .. n : Turns(i)' = Turns(i)
  <1> TAKE i \in 0 .. n
  <1>1. {j \in 1 .. i : published'[j].type = "actions"} =
            {j \in 1 .. i : published[j].type = "actions"}
    OBVIOUS
  <1> QED
    BY <1>1 DEF Turns, TurnsOf

LEMMA TurnsStep ==
    ASSUME NEW i \in Nat
    PROVE  /\ published[i + 1].type = "actions" => Turns(i + 1) = Turns(i) + 1
           /\ published[i + 1].type # "actions" => Turns(i + 1) = Turns(i)
  <1>1. Turns(i) \in Nat
    BY TurnsFacts
  <1>2. Turns(i + 1) = Turns(i) + IF published[i + 1].type = "actions" THEN 1 ELSE 0
    BY TurnsFacts
  <1> QED
    BY <1>1, <1>2

\* The turn of a client that has been published after what it has pulled.
LEMMA TurnInLog ==
    ASSUME LogInvariant, NEW n \in Nat, n + 1 \in DOMAIN published,
           published[n + 1].type = "actions"
    PROVE  log[Server][Turns(n + 1)] = TurnOf(published[n].id, published[n + 1].actions)
  <1>1. n + 1 - 1 = n
    OBVIOUS
  <1>2. PICK i \in DOMAIN published : i = n + 1
    OBVIOUS
  <1>3. published[i].type = "actions" /\ i - 1 = n
    BY <1>1, <1>2
  <1>4. log[Server][Turns(i)] = TurnOf(published[i - 1].id, published[i].actions)
    BY <1>3 DEF LogInvariant, ServerLog
  <1> QED
    BY <1>2, <1>3, <1>4

LEMMA LogTypes ==
    ASSUME TypeOK
    PROVE  /\ log[Server] \in Seq(Turn) /\ Len(log[Server]) \in Nat
           /\ \A c \in Client : log[c] \in Seq(Turn) /\ Len(log[c]) \in Nat
           /\ published \in Seq(Message) /\ Len(published) \in Nat
           /\ \A c \in Client : cursor[c] \in Nat
  BY DEF TypeOK, Proc, Message

\* A client whose turn is not known to the server stands at the end of the
\* stream, and it is its turn.
LEMMA AheadOfServer ==
    ASSUME StreamInvariant, LogInvariant, NEW c \in Client,
           Len(log[c]) > Len(log[Server])
    PROVE  /\ cursor[c] = Len(published)
           /\ Announces(Len(published)) /\ published[Len(published)].id = c
           /\ Ahead(c) /\ spc # "end_turn"
           /\ Len(log[c]) = Len(log[Server]) + 1
  <1> USE DEF LogInvariant
  <1>1. /\ log[c] \in Seq(Turn) /\ Len(log[c]) \in Nat /\ Len(log[Server]) \in Nat
        /\ published \in Seq(Message) /\ Len(published) \in Nat /\ cursor[c] \in Nat
    BY LogTypes DEF StreamInvariant
  <1>2. cursor[c] <= Len(published)
    BY DEF StreamInvariant, ClientInStream
  <1>3. /\ Turns(cursor[c]) \in Nat /\ Turns(Len(published)) \in Nat
        /\ Turns(cursor[c]) <= Turns(Len(published))
    BY <1>1, <1>2, TurnsFacts
  <1>4. /\ Len(log[c]) <= Turns(cursor[c]) + 1
        /\ Len(log[Server]) = Turns(Len(published)) + IF spc = "end_turn" THEN 1 ELSE 0
    BY DEF ServerLog, ClientLog
  <1>5. /\ spc # "end_turn" /\ Turns(cursor[c]) = Turns(Len(published))
        /\ Len(log[c]) = Len(log[Server]) + 1 /\ Len(log[c]) > Turns(cursor[c])
    BY <1>1, <1>3, <1>4
  <1>6. Ahead(c) /\ Announces(cursor[c]) /\ published[cursor[c]].id = c
    BY <1>5 DEF Ahead, ClientLog
  <1>7. cursor[c] = Len(published)
    <2> SUFFICES ASSUME cursor[c] < Len(published) PROVE FALSE
      BY <1>1, <1>2
    <2>1. cursor[c] + 1 \in DOMAIN published /\ cursor[c] + 1 - 1 = cursor[c]
      BY <1>1
    <2>2. published[cursor[c] + 1].type = "actions"
      <3>1. published[cursor[c] + 1].type = "actions" <=> Announces(cursor[c])
        BY <1>1, <2>1 DEF StreamInvariant, StreamShape
      <3> QED
        BY <1>6, <3>1
    <2>3. Turns(cursor[c] + 1) = Turns(cursor[c]) + 1
      BY <1>1, <2>2, TurnsFacts
    <2>4. Turns(cursor[c] + 1) <= Turns(Len(published))
      BY <1>1, <2>1, TurnsFacts
    <2> QED
      BY <1>3, <1>5, <2>3, <2>4
  <1> QED
    BY <1>5, <1>6, <1>7

-----------------------------------------------------------------------------
(* The steps of the server. *)

\* The server may push, and append a turn to its log: a client that has this
\* turn already is the one that has played it.
LEMMA ServerLeavesClients ==
    ASSUME StreamInvariant, LogInvariant,
           UNCHANGED <<cursor, cpc, playing>>,
           \A c \in Client : log'[c] = log[c],
           \A i \in 1 .. Len(published) : published'[i] = published[i],
           \A i \in 0 .. Len(published) : Announces(i)' <=> Announces(i),
           Len(log'[Server]) \in {Len(log[Server]), Len(log[Server]) + 1},
           \A i \in 1 .. Len(log[Server]) : log'[Server][i] = log[Server][i],
           \A c \in Client :
               Len(log[c]) > Len(log[Server]) /\ Len(log'[Server]) > Len(log[Server])
                   => log'[Server][Len(log'[Server])].player = c
    PROVE  \A c \in Client : ClientLog(c)'
  <1> SUFFICES ASSUME NEW c \in Client PROVE ClientLog(c)'
    OBVIOUS
  <1>1. /\ Len(log[c]) \in Nat /\ Len(log[Server]) \in Nat
        /\ Len(published) \in Nat /\ cursor[c] \in Nat
        /\ ClientLog(c) /\ cursor[c] <= Len(published)
    BY LogTypes DEF StreamInvariant, ClientInStream, LogInvariant
  <1>2. Turns(cursor[c])' = Turns(cursor[c])
    <2>1. \A i \in 0 .. Len(published) : Turns(i)' = Turns(i)
      BY <1>1, TurnsKept
    <2>2. cursor[c] \in 0 .. Len(published) /\ cursor'[c] = cursor[c]
      BY <1>1
    <2>3. \A i \in 0 .. Len(published) : i = cursor[c] => Turns(i)' = Turns(i)
      BY <2>1
    <2> QED
      BY <2>2, <2>3 DEF Turns, TurnsOf
  <1>3. Announces(cursor[c])' <=> Announces(cursor[c])
    <2>1. \A i \in 0 .. Len(published) : i = cursor[c] => (Announces(i)' <=> Announces(i))
      OBVIOUS
    <2> QED
      BY <1>1, <2>1 DEF Announces
  <1>4. cursor[c] >= 1 => published'[cursor'[c]] = published[cursor[c]]
    BY <1>1
  <1>5. Ahead(c)' <=> Ahead(c)
    BY <1>2 DEF Ahead
  <1>6. cpc[c] \in {"actions", "my_turn"} => cursor[c] >= 1
    BY <1>1 DEF StreamInvariant, ClientInStream, Announces
  <1>7. Ahead(c) => cursor[c] >= 1
    BY <1>1 DEF ClientLog, Announces
  <1>8. ASSUME NEW i \in 1 .. Shorter(log'[c], log'[Server])
        PROVE  /\ log'[c][i].player = log'[Server][i].player
               /\ log'[c][i].player # c => log'[c][i] = log'[Server][i]
    <2>1. i \in 1 .. Len(log[c]) /\ i \in 1 .. Len(log'[Server])
      BY <1>1, <1>8 DEF Shorter
    <2>2. CASE i <= Len(log[Server])
      <3>1. i \in 1 .. Shorter(log[c], log[Server])
        BY <1>1, <2>1, <2>2 DEF Shorter
      <3> QED
        <4>1. log'[c][i] = log[c][i] /\ log'[Server][i] = log[Server][i]
          BY <1>1, <2>1, <2>2
        <4> QED
          BY <1>1, <3>1, <4>1 DEF ClientLog
    <2>3. CASE i > Len(log[Server])
      <3>1. /\ i = Len(log[Server]) + 1 /\ Len(log'[Server]) = i
            /\ Len(log[c]) > Len(log[Server])
        BY <1>1, <2>1, <2>3
      <3>2. Ahead(c) /\ Len(log[c]) = i
        BY <3>1, AheadOfServer
      <3>3. log[c][i].player = c /\ log'[Server][i].player = c
        BY <1>1, <3>1, <3>2 DEF ClientLog
      <3> QED
        BY <3>3
    <2> QED
      BY <1>1, <2>1, <2>2, <2>3
  <1>9. UNCHANGED <<cursor[c], cpc[c], playing[c], log[c]>>
    OBVIOUS
  <1> QED
    BY <1>1, <1>2, <1>3, <1>4, <1>5, <1>6, <1>7, <1>8, <1>9 DEF ClientLog

TurnsInLog ==
    \A i \in DOMAIN published : published[i].type = "actions" =>
        log[Server][Turns(i)] = TurnOf(published[i - 1].id, published[i].actions)

\* What was in the stream is still in the log, and what is pushed is.
LEMMA PublishedInLog ==
    ASSUME StreamInvariant, LogInvariant,
           published' \in Seq(Message),
           Len(published') \in {Len(published), Len(published) + 1},
           \A i \in 1 .. Len(published) : published'[i] = published[i],
           \A i \in 1 .. Len(log[Server]) : log'[Server][i] = log[Server][i],
           Len(published') = Len(published) + 1 =>
               LET m == published'[Len(published')] IN
               m.type = "actions" =>
                   log'[Server][Turns(Len(published)) + 1] =
                       TurnOf(published[Len(published)].id, m.actions),
           published # <<>> \/ published'[1].type # "actions"
    PROVE  /\ TurnsInLog'
           /\ Turns(Len(published))' = Turns(Len(published)) +
                  IF /\ Len(published') = Len(published) + 1
                     /\ published'[Len(published')].type = "actions"
                  THEN 1 ELSE 0
  <1>0. /\ Len(log[Server]) \in Nat
        /\ published \in Seq(Message) /\ Len(published) \in Nat
    BY LogTypes DEF StreamInvariant
  <1>1. \A i \in 0 .. Len(published) : Turns(i)' = Turns(i)
    BY <1>0, TurnsKept
  <1>3. \A i \in Nat : Turns(i + 1)' =
            Turns(i)' + IF published'[i + 1].type = "actions" THEN 1 ELSE 0
    BY TurnsOfFacts DEF Turns
  <1>4. \A i \in Nat : Turns(i) \in Nat
    BY TurnsFacts
  <1>5. PICK n \in Nat : n = Len(published)
    BY <1>0
  <1>6. Turns(n)' = Turns(n) /\ Turns(n + 1)' =
            Turns(n) + IF published'[n + 1].type = "actions" THEN 1 ELSE 0
    <2>1. n \in 0 .. Len(published)
      BY <1>5
    <2> QED
      BY <1>1, <1>3, <2>1
  <1>7. Turns(Len(published))' = TurnsOf(published', Len(published'))
    BY DEF Turns
  <1>8. Turns(Len(published))' = Turns(n) +
            IF Len(published') = n + 1 /\ published'[Len(published')].type = "actions"
            THEN 1 ELSE 0
    <2>0. \A i \in Nat : Turns(i)' = TurnsOf(published', i)
      BY DEF Turns
    <2>1. CASE Len(published') = n
      <3>1. Turns(Len(published))' = Turns(n)'
        BY <1>7, <2>0, <2>1
      <3>2. Turns(n) \in Nat /\ Len(published') # n + 1
        BY <1>4, <2>1
      <3> QED
        BY <1>6, <3>1, <3>2
    <2>2. CASE Len(published') = n + 1
      BY <1>4, <1>5, <1>6, <1>7, <2>0, <2>2
    <2> QED
      BY <1>5, <2>1, <2>2
  <1>9. TurnsInLog'
    <2> SUFFICES ASSUME NEW i \in DOMAIN published', published'[i].type = "actions"
                 PROVE  log'[Server][Turns(i)'] =
                            TurnOf(published'[i - 1].id, published'[i].actions)
      BY DEF TurnsInLog
    <2>1. CASE i <= Len(published)
      <3>1. i \in DOMAIN published /\ published[i].type = "actions"
        BY <1>0, <2>1
      <3>2. Announces(i - 1)
        BY <3>1 DEF StreamInvariant, StreamShape
      <3>3. i - 1 \in 1 .. Len(published)
        BY <1>0, <3>1, <3>2 DEF Announces
      <3>4. published'[i - 1] = published[i - 1] /\ published'[i] = published[i]
        BY <1>0, <3>1, <3>3
      <3>5. Turns(i)' = Turns(i)
        BY <1>0, <1>1, <3>1
      <3>6. Turns(i) \in 1 .. Len(log[Server])
        <4>0. PICK k \in Nat : k = i - 1
          BY <1>0, <3>3
        <4>a. k + 1 = i /\ published[k + 1].type = "actions"
          BY <1>0, <3>1, <4>0
        <4>1. Turns(i) = Turns(k) + 1
          BY <4>a, TurnsFacts
        <4>2. Turns(k) \in Nat /\ Turns(i) <= Turns(n) /\ Turns(n) \in Nat
          BY <1>0, <1>5, <3>1, <4>0, TurnsFacts, SMTT(30)
        <4>3. Len(log[Server]) >= Turns(n)
          BY <1>5, <4>2 DEF LogInvariant, ServerLog
        <4> QED
          BY <1>0, <4>1, <4>2, <4>3
      <3>7. log[Server][Turns(i)] = TurnOf(published[i - 1].id, published[i].actions)
        BY <3>1 DEF LogInvariant, ServerLog
      <3> QED
        BY <3>4, <3>5, <3>6, <3>7
    <2>2. CASE i > Len(published)
      <3>1. i = n + 1 /\ Len(published') = n + 1 /\ i - 1 = n
        BY <1>0, <1>5, <2>2
      <3>2. n # 0
        BY <1>0, <1>5, <3>1
      <3>3. published'[n] = published[n]
        BY <1>5, <3>2
      <3>4. Turns(i)' = Turns(n) + 1
        BY <1>6, <3>1
      <3> QED
        BY <1>5, <3>1, <3>3, <3>4
    <2> QED
      BY <1>0, <2>1, <2>2
  <1> QED
    BY <1>5, <1>8, <1>9

\* What appending a turn to the log of a process does, there and elsewhere.
LEMMA ApplyFacts ==
    ASSUME TypeOK, NEW p \in Proc, NEW id \in Player,
           NEW actions \in Seq(Action), Apply(p, id, actions)
    PROVE  /\ Len(log'[p]) = Len(log[p]) + 1
           /\ \A i \in 1 .. Len(log[p]) : log'[p][i] = log[p][i]
           /\ log'[p][Len(log[p]) + 1] = TurnOf(id, actions)
           /\ \A q \in Proc \ {p} : log'[q] = log[q]
  <1>1. /\ log[p] \in Seq(Turn) /\ log'[p] = Append(log[p], TurnOf(id, actions))
        /\ \A q \in Proc \ {p} : log'[q] = log[q]
    BY DEF TypeOK, Apply
  <1>2. TurnOf(id, actions) \in Turn
    BY DEF TurnOf, Turn
  <1> QED
    BY <1>1, <1>2

LEMMA TurnOfFields ==
    \A id, actions : /\ TurnOf(id, actions).player = id
                     /\ TurnOf(id, actions).actions = actions
  BY DEF TurnOf

\* A server step that publishes nothing and applies nothing, outside a turn.
LEMMA ServerQuiet ==
    ASSUME StreamInvariant, LogInvariant,
           UNCHANGED <<published, cursor, cpc, playing, log>>,
           spc # "end_turn", spc' \notin {"poll", "end_turn"}
    PROVE  LogInvariant'
  <1>1. ServerLog'
    BY DEF LogInvariant, ServerLog, Turns
  <1>2. \A c \in Client : ClientLog(c)'
    BY DEF LogInvariant, ClientLog, Ahead, Turns, Announces
  <1> QED
    BY <1>1, <1>2 DEF LogInvariant

\* A server step that publishes an id, outside a turn or at its beginning.
LEMMA ServerPushesId ==
    ASSUME StreamInvariant, LogInvariant, NEW id \in Client, Push(IdMessage(id)),
           UNCHANGED <<cursor, cpc, playing, log>>,
           spc # "end_turn", spc' # "end_turn",
           spc' = "poll" => id = turn' /\ received' = <<>>
    PROVE  LogInvariant'
  <1>1. published \in Seq(Message) /\ IdMessage(id) \in Message
    BY MessageFacts, LogTypes DEF StreamInvariant
  <1>2. /\ published' \in Seq(Message)
        /\ Len(published') = Len(published) + 1
        /\ published'[Len(published) + 1] = IdMessage(id)
        /\ \A i \in 1 .. Len(published) : published'[i] = published[i]
        /\ \A i \in 0 .. Len(published) : Announces(i)' <=> Announces(i)
    BY <1>1, PushFacts
  <1>3. IdMessage(id).type # "actions" /\ IdMessage(id).id = id
    BY DEF IdMessage
  <1>4. Len(log[Server]) \in Nat /\ Len(published) \in Nat
    BY LogTypes DEF StreamInvariant
  <1>5. \A c \in Client : ClientLog(c)'
    BY <1>2, <1>4, ServerLeavesClients
  <1>6. TurnsInLog' /\ Turns(Len(published))' = Turns(Len(published))
    <2>1. published'[Len(published')].type # "actions"
      BY <1>2, <1>3
    <2>2. published # <<>> \/ published'[1].type # "actions"
      BY <1>1, <1>2, <1>3
    <2>3. Turns(Len(published)) \in Nat
      BY <1>4, TurnsFacts
    <2> QED
      BY <1>2, <2>1, <2>2, <2>3, PublishedInLog
  <1>7. ServerLog'
    BY <1>2, <1>3, <1>4, <1>6 DEF LogInvariant, ServerLog, TurnsInLog
  <1> QED
    BY <1>5, <1>7 DEF LogInvariant

\* The server applies the answer it has, or the empty turn of a late player.
LEMMA ServerApplies ==
    ASSUME StreamInvariant, LogInvariant,
           UNCHANGED <<published, cursor, cpc, playing, turn>>,
           spc = "poll", spc' = "end_turn",
           received' \in Seq(Action), Apply(Server, turn, received')
    PROVE  LogInvariant'
  <1>0. TypeOK /\ turn \in Player /\ Server \in Proc
    BY DEF StreamInvariant, TypeOK, Proc
  <1>1. /\ Len(log'[Server]) = Len(log[Server]) + 1
        /\ \A i \in 1 .. Len(log[Server]) : log'[Server][i] = log[Server][i]
        /\ log'[Server][Len(log[Server]) + 1] = TurnOf(turn, received')
        /\ \A q \in Proc \ {Server} : log'[q] = log[q]
    BY <1>0, ApplyFacts
  <1>2. \A c \in Client : log'[c] = log[c]
    BY <1>1, ClientFacts DEF Proc
  <1>3. \A i \in 0 .. Len(published) : Announces(i)' <=> Announces(i)
    BY DEF Announces
  <1>4. published[Len(published)].id = turn
    BY DEF LogInvariant, ServerLog
  <1>5. Len(log[Server]) \in Nat /\ Len(published) \in Nat /\ published' \in Seq(Message)
    BY LogTypes DEF StreamInvariant
  <1>6. ASSUME NEW c \in Client, Len(log[c]) > Len(log[Server])
        PROVE  log'[Server][Len(log'[Server])].player = c
    BY <1>1, <1>4, <1>6, AheadOfServer, TurnOfFields
  <1>7. \A c \in Client : ClientLog(c)'
    BY <1>1, <1>2, <1>3, <1>6, ServerLeavesClients
  <1>8. TurnsInLog' /\ Turns(Len(published))' = Turns(Len(published))
    <2>1. published # <<>>
      BY <1>5 DEF StreamInvariant, ServerInStream, Announces
    <2>2. Turns(Len(published)) \in Nat
      BY <1>5, TurnsFacts
    <2> QED
      BY <1>1, <1>5, <2>1, <2>2, PublishedInLog
  <1>9. ServerLog'
    <2>1. Turns(Len(published)) \in Nat
      BY <1>5, TurnsFacts
    <2>2. Len(log[Server]) = Turns(Len(published))
      BY <2>1 DEF LogInvariant, ServerLog
    <2> QED
      BY <1>1, <1>4, <1>5, <1>8, <2>1, <2>2 DEF ServerLog, TurnsInLog
  <1> QED
    BY <1>7, <1>9 DEF LogInvariant

\* The turn that has just been applied is published.
LEMMA ServerPublishes ==
    ASSUME StreamInvariant, LogInvariant, EndTurn
    PROVE  LogInvariant'
  <1>0. TypeOK /\ turn \in Player /\ received \in Seq(Action) /\ spc = "end_turn"
    BY DEF StreamInvariant, TypeOK, EndTurn
  <1>1. published \in Seq(Message) /\ ActionsMessage(received) \in Message
    BY <1>0, MessageFacts, LogTypes DEF StreamInvariant
  <1>2. /\ published' \in Seq(Message)
        /\ Len(published') = Len(published) + 1
        /\ published'[Len(published) + 1] = ActionsMessage(received)
        /\ \A i \in 1 .. Len(published) : published'[i] = published[i]
        /\ \A i \in 0 .. Len(published) : Announces(i)' <=> Announces(i)
    BY <1>1, PushFacts DEF EndTurn, PushActions
  <1>3. /\ ActionsMessage(received).type = "actions"
        /\ ActionsMessage(received).actions = received
    BY DEF ActionsMessage
  <1>4. /\ Len(log[Server]) \in Nat /\ Len(published) \in Nat
        /\ Turns(Len(published)) \in Nat
    BY <1>0, LogTypes, TurnsFacts
  <1>5. UNCHANGED <<cursor, cpc, playing, log>> /\ spc' \in {"watch", "turn", "end_round"}
    BY DEF EndTurn, NextTurn, clientVars, gameVars
  <1>6. \A c \in Client : ClientLog(c)'
    BY <1>2, <1>4, <1>5, ServerLeavesClients
  <1>7. /\ Len(log[Server]) = Turns(Len(published)) + 1
        /\ log[Server][Turns(Len(published)) + 1] = TurnOf(turn, received)
        /\ published[Len(published)].id = turn
    BY <1>0, <1>4 DEF LogInvariant, ServerLog
  <1>8. TurnsInLog' /\ Turns(Len(published))' = Turns(Len(published)) + 1
    <2>1. published'[Len(published')] = ActionsMessage(received)
      BY <1>2
    <2>2. published # <<>>
      BY <1>0, <1>4 DEF StreamInvariant, ServerInStream, Announces
    <2> QED
      BY <1>2, <1>3, <1>5, <1>7, <2>1, <2>2, PublishedInLog
  <1>9. ServerLog'
    BY <1>4, <1>5, <1>7, <1>8 DEF ServerLog, TurnsInLog
  <1> QED
    BY <1>6, <1>9 DEF LogInvariant

\* The turn of an eliminated player is announced, and applied as empty.
LEMMA ServerSkips ==
    ASSUME StreamInvariant, LogInvariant, BeginTurn, Eliminated(turn)
    PROVE  LogInvariant'
  <1>0. /\ TypeOK /\ turn \in Player /\ turn \in Client /\ Server \in Proc
        /\ spc = "turn" /\ spc' = "end_turn" /\ received' = <<>> /\ turn' = turn
        /\ Push(IdMessage(turn)) /\ Apply(Server, turn, <<>>)
        /\ UNCHANGED <<cursor, cpc, playing>>
    BY ClientFacts DEF StreamInvariant, TypeOK, Proc, BeginTurn, ClearActions, clientVars
  <1>1. published \in Seq(Message) /\ IdMessage(turn) \in Message
    BY <1>0, MessageFacts, LogTypes
  <1>2. /\ published' \in Seq(Message)
        /\ Len(published') = Len(published) + 1
        /\ published'[Len(published) + 1] = IdMessage(turn)
        /\ \A i \in 1 .. Len(published) : published'[i] = published[i]
        /\ \A i \in 0 .. Len(published) : Announces(i)' <=> Announces(i)
    BY <1>0, <1>1, PushFacts
  <1>3. IdMessage(turn).type # "actions" /\ IdMessage(turn).id = turn
    BY DEF IdMessage
  <1>4. /\ Len(log'[Server]) = Len(log[Server]) + 1
        /\ \A i \in 1 .. Len(log[Server]) : log'[Server][i] = log[Server][i]
        /\ log'[Server][Len(log[Server]) + 1] = TurnOf(turn, <<>>)
        /\ \A q \in Proc \ {Server} : log'[q] = log[q]
    <2>1. <<>> \in Seq(Action)
      OBVIOUS
    <2> QED
      BY <1>0, <2>1, ApplyFacts
  <1>5. /\ Len(log[Server]) \in Nat /\ Len(published) \in Nat
        /\ Turns(Len(published)) \in Nat
    BY <1>0, LogTypes, TurnsFacts
  <1>6. \A c \in Client : log'[c] = log[c] /\ Len(log[c]) <= Len(log[Server])
    <2>1. ~Announces(Len(published))
      BY <1>0 DEF StreamInvariant, ServerInStream
    <2>2. \A c \in Client : ~(Len(log[c]) > Len(log[Server]))
      BY <2>1, AheadOfServer
    <2>3. \A c \in Client : Len(log[c]) \in Nat
      BY <1>0, LogTypes
    <2> QED
      BY <1>4, <1>5, <2>2, <2>3, ClientFacts DEF Proc
  <1>7. \A c \in Client : ClientLog(c)'
    <2>1. \A c \in Client : ~(Len(log[c]) > Len(log[Server]))
      <3>1. \A c \in Client : Len(log[c]) \in Nat
        BY <1>0, LogTypes
      <3> QED
        BY <1>5, <1>6, <3>1
    <2> QED
      BY <1>0, <1>2, <1>4, <1>5, <1>6, <2>1, ServerLeavesClients
  <1>8. TurnsInLog' /\ Turns(Len(published))' = Turns(Len(published))
    <2>1. published'[Len(published')].type # "actions"
      BY <1>2, <1>3
    <2>2. published # <<>>
      BY <1>0 DEF StreamInvariant, ServerInStream
    <2> QED
      BY <1>2, <1>4, <1>5, <2>1, <2>2, PublishedInLog
  <1>9. ServerLog'
    <2>1. Len(log[Server]) = Turns(Len(published))
      BY <1>0, <1>5 DEF LogInvariant, ServerLog
    <2> QED
      BY <1>0, <1>2, <1>3, <1>4, <1>5, <1>8, <2>1 DEF ServerLog, TurnsInLog
  <1> QED
    BY <1>7, <1>9 DEF LogInvariant

\* Each handler of the server loop keeps the logs where the stream says.
LEMMA LogServer ==
    ASSUME StreamInvariant, StreamInvariant', LogInvariant, ServerStep
    PROVE  LogInvariant'
  <1>0. turn \in Client /\ received' \in Seq(Action) /\ received \in Seq(Action)
    BY ClientFacts DEF StreamInvariant, TypeOK
  <1>1. CASE StartMatch
    <2>1. LastPlayer \in Client
      BY ClientFacts
    <2> QED
      BY <1>1, <2>1, ServerPushesId DEF StartMatch, clientVars
  <1>2. CASE BeginTurn
    <2>1. CASE Eliminated(turn)
      BY <1>2, <2>1, ServerSkips
    <2>2. CASE ~Eliminated(turn)
      BY <1>0, <1>2, <2>2, ServerPushesId DEF BeginTurn, ClearActions, clientVars
    <2> QED
      BY <2>1, <2>2
  <1>3. CASE ReceiveAnswer
    <2>1. \/ spc' = "end_turn" /\ Apply(Server, turn, received')
          \/ spc' = "fatal" /\ UNCHANGED log
      BY <1>3 DEF ReceiveAnswer
    <2>2. spc = "poll" /\ UNCHANGED <<published, cursor, cpc, playing, turn>>
      BY <1>3 DEF ReceiveAnswer, clientVars
    <2> QED
      BY <1>0, <2>1, <2>2, ServerApplies, ServerQuiet
  <1>4. CASE TimeoutAnswer
    <2>1. received = <<>>
      BY <1>4 DEF TimeoutAnswer, LogInvariant, ServerLog
    <2>2. /\ spc = "poll" /\ spc' = "end_turn" /\ Apply(Server, turn, received')
          /\ UNCHANGED <<published, cursor, cpc, playing, turn>>
      BY <1>4, <2>1 DEF TimeoutAnswer, clientVars, socketVars
    <2> QED
      BY <1>0, <2>2, ServerApplies
  <1>5. CASE EndTurn
    BY <1>5, ServerPublishes
  <1>6. CASE BeginWatch
    <2>1. watcher \in Client
      BY <1>6, ClientFacts DEF BeginWatch, StreamInvariant, ServerInStream
    <2> QED
      BY <1>6, <2>1, ServerPushesId DEF BeginWatch, clientVars, gameVars
  <1>7. CASE ReceiveWatch
    BY <1>7, ServerQuiet DEF ReceiveWatch, NextTurn, clientVars, gameVars
  <1>8. CASE EndRound
    BY <1>8, ServerQuiet DEF EndRound, clientVars, socketVars
  <1> QED
    BY <1>1, <1>2, <1>3, <1>4, <1>5, <1>6, <1>7, <1>8 DEF ServerStep

-----------------------------------------------------------------------------
(* The steps of the clients. *)

\* A client step that keeps its own log in place keeps every log in place.
LEMMA LogClientAlone ==
    ASSUME StreamInvariant, LogInvariant, NEW c \in Client,
           UNCHANGED <<published, serverVars, log[Server]>>,
           \A d \in Client \ {c} :
               UNCHANGED <<cursor[d], cpc[d], playing[d], log[d]>>,
           ClientLog(c)'
    PROVE  LogInvariant'
  <1>1. ServerLog'
    BY DEF LogInvariant, ServerLog, Turns, serverVars
  <1>2. ASSUME NEW d \in Client \ {c} PROVE ClientLog(d)'
    <2>1. ClientLog(d) /\ UNCHANGED <<cursor[d], cpc[d], playing[d], log[d]>>
      BY DEF LogInvariant
    <2> QED
      BY <2>1 DEF ClientLog, Ahead, Turns, Announces
  <1> QED
    BY <1>1, <1>2 DEF LogInvariant

\* The turn the server has applied after the turns of a client is the turn
\* the client has seen announced.
LEMMA NextTurnOfServer ==
    ASSUME StreamInvariant, LogInvariant, NEW c \in Client,
           Announces(cursor[c]), Len(log[Server]) > Turns(cursor[c])
    PROVE  log[Server][Turns(cursor[c]) + 1].player = published[cursor[c]].id
  <1>0. /\ Len(log[Server]) \in Nat /\ Len(published) \in Nat
        /\ published \in Seq(Message)
        /\ cursor[c] \in Nat /\ cursor[c] <= Len(published)
    BY LogTypes DEF StreamInvariant, ClientInStream
  <1>1. Turns(cursor[c]) \in Nat /\ Turns(Len(published)) \in Nat
    BY <1>0, TurnsFacts
  <1>2. CASE cursor[c] = Len(published)
    <2>1. spc = "end_turn" /\ Len(log[Server]) = Turns(cursor[c]) + 1
      BY <1>0, <1>1, <1>2 DEF LogInvariant, ServerLog
    <2>2. log[Server][Len(log[Server])] = TurnOf(turn, received)
          /\ published[Len(published)].id = turn
      BY <2>1 DEF LogInvariant, ServerLog
    <2> QED
      BY <1>2, <2>1, <2>2, TurnOfFields
  <1>3. CASE cursor[c] < Len(published)
    <2>1. cursor[c] + 1 \in DOMAIN published /\ cursor[c] + 1 - 1 = cursor[c]
      BY <1>0, <1>3
    <2>2. published[cursor[c] + 1].type = "actions"
      <3>1. published[cursor[c] + 1].type = "actions" <=> Announces(cursor[c])
        BY <1>0, <2>1 DEF StreamInvariant, StreamShape
      <3> QED
        BY <3>1
    <2>3. Turns(cursor[c] + 1) = Turns(cursor[c]) + 1
      BY <1>0, <1>1, <2>2, TurnsFacts
    <2>4. log[Server][Turns(cursor[c] + 1)] =
              TurnOf(published[cursor[c]].id, published[cursor[c] + 1].actions)
      BY <1>0, <2>1, <2>2, TurnInLog
    <2> QED
      BY <2>1, <2>3, <2>4, TurnOfFields
  <1> QED
    BY <1>0, <1>2, <1>3

\* Pulling an id moves a client to its next turn, and no further in the log.
LEMMA LogPullId ==
    ASSUME StreamInvariant, LogInvariant, NEW c \in Client, Pull(c),
           UNCHANGED <<published, log>>,
           ~Announces(cursor[c]), ~Ahead(c), cpc[c] \notin {"dead", "fatal"},
           cpc'[c] \notin {"ack", "own_actions"},
           cpc'[c] = "actions" => playing'[c] = NextMessage(c).id,
           cpc'[c] = "my_turn" => NextMessage(c).id = c
    PROVE  ClientLog(c)'
  <1>0. /\ Len(log[c]) \in Nat /\ cursor[c] \in Nat /\ ClientLog(c)
        /\ cursor'[c] = cursor[c] + 1
    BY LogTypes, PullFacts DEF StreamInvariant, LogInvariant
  <1>1. Turns(cursor[c])' = Turns(cursor[c])
    <2>1. NextMessage(c).type # "actions"
      BY PullFacts
    <2>2. Turns(cursor[c] + 1) = Turns(cursor[c])
      <3>1. published[cursor[c] + 1].type # "actions"
        BY <1>0, <2>1 DEF NextMessage
      <3> QED
        BY <1>0, <3>1, TurnsStep
    <2> QED
      BY <1>0, <2>2 DEF Turns
  <1>2. ~Ahead(c)'
    BY <1>1 DEF Ahead
  <1>3. published'[cursor'[c]] = NextMessage(c)
    BY <1>0 DEF NextMessage
  <1> QED
    BY <1>0, <1>1, <1>2, <1>3 DEF ClientLog

\* A client that has not played applies the turn it pulls, or gives up.
LEMMA LogPullActions ==
    ASSUME StreamInvariant, LogInvariant, NEW c \in Client, Pull(c),
           UNCHANGED <<published, playing>>, cpc[c] = "actions",
           \/ /\ Apply(c, playing[c], NextMessage(c).actions)
              /\ cpc'[c] \in {"await", "done"}
           \/ UNCHANGED log /\ cpc'[c] = "fatal"
    PROVE  ClientLog(c)' /\ \A p \in Proc \ {c} : log'[p] = log[p]
  <1>0. /\ Len(log[c]) \in Nat /\ Len(log[Server]) \in Nat
        /\ published \in Seq(Message) /\ Len(published) \in Nat /\ cursor[c] \in Nat
        /\ ClientLog(c) /\ TypeOK /\ c \in Proc /\ Server \in Proc \ {c}
        /\ cursor'[c] = cursor[c] + 1 /\ cursor[c] + 1 \in 1 .. Len(published)
    BY LogTypes, PullFacts, ClientFacts DEF StreamInvariant, LogInvariant, Proc
  <1>1. Announces(cursor[c]) /\ playing[c] \in Player
    BY <1>0 DEF StreamInvariant, ClientInStream
  <1>2. NextMessage(c).type = "actions" /\ NextMessage(c).actions \in Seq(Action)
    BY <1>1, PullFacts, MessageFacts
  <1>3. Turns(cursor[c]) \in Nat /\ Turns(cursor[c] + 1) = Turns(cursor[c]) + 1
    BY <1>0, <1>2, TurnsFacts DEF NextMessage
  <1>4. Len(log[c]) = Turns(cursor[c]) /\ playing[c] = published[cursor[c]].id
    BY <1>0, <1>3 DEF ClientLog, Ahead
  <1>5. Turns(cursor[c])' = Turns(cursor[c]) + 1
    BY <1>0, <1>3 DEF Turns
  <1>6. CASE UNCHANGED log /\ cpc'[c] = "fatal"
    <2>1. ~Ahead(c)'
      BY <1>3, <1>4, <1>5, <1>6 DEF Ahead
    <2> QED
      BY <1>0, <1>3, <1>4, <1>5, <1>6, <2>1 DEF ClientLog
  <1>7. CASE /\ Apply(c, playing[c], NextMessage(c).actions)
             /\ cpc'[c] \in {"await", "done"}
    <2>1. /\ Len(log'[c]) = Len(log[c]) + 1
          /\ \A i \in 1 .. Len(log[c]) : log'[c][i] = log[c][i]
          /\ log'[c][Len(log[c]) + 1] = TurnOf(playing[c], NextMessage(c).actions)
          /\ \A q \in Proc \ {c} : log'[q] = log[q]
      BY <1>0, <1>1, <1>2, <1>7, ApplyFacts
    <2>2. ~Ahead(c)' /\ Len(log'[c]) = Turns(cursor[c])'
      BY <1>3, <1>4, <1>5, <2>1 DEF Ahead
    <2>3. log[Server][Len(log[c]) + 1] = log'[c][Len(log[c]) + 1]
      <3>1. cursor[c] + 1 \in DOMAIN published /\ published[cursor[c] + 1].type = "actions"
        BY <1>0, <1>2 DEF NextMessage
      <3>2. log[Server][Turns(cursor[c] + 1)] =
                TurnOf(published[cursor[c]].id, published[cursor[c] + 1].actions)
        BY <1>0, <3>1, TurnInLog
      <3> QED
        BY <1>3, <1>4, <2>1, <3>2 DEF NextMessage
    <2>4. ASSUME NEW i \in 1 .. Shorter(log'[c], log'[Server])
          PROVE  /\ log'[c][i].player = log'[Server][i].player
                 /\ log'[c][i].player # c => log'[c][i] = log'[Server][i]
      <3>1. /\ log'[Server] = log[Server]
            /\ i \in 1 .. Len(log[c]) + 1 /\ i <= Len(log[Server])
        BY <1>0, <2>1, <2>4 DEF Shorter
      <3>2. CASE i = Len(log[c]) + 1
        BY <2>3, <3>1, <3>2
      <3>3. CASE i <= Len(log[c])
        <4>1. i \in 1 .. Shorter(log[c], log[Server])
          BY <1>0, <3>1, <3>3 DEF Shorter
        <4>2. log'[c][i] = log[c][i] /\ log'[Server][i] = log[Server][i]
          BY <1>0, <2>1, <3>1, <3>3
        <4> QED
          BY <1>0, <4>1, <4>2 DEF ClientLog
      <3> QED
        BY <1>0, <3>1, <3>2, <3>3
    <2>5. cpc'[c] \notin {"dead", "fatal", "ack", "own_actions", "actions", "my_turn"}
      BY <1>7
    <2> QED
      BY <1>3, <1>5, <2>1, <2>2, <2>4, <2>5 DEF ClientLog
  <1> QED
    BY <1>6, <1>7

\* A player that plays is one turn ahead of what it has pulled.
LEMMA LogPlays ==
    ASSUME StreamInvariant, LogInvariant, NEW c \in Player,
           UNCHANGED <<published, cursor, playing>>, cpc[c] = "my_turn",
           cpc'[c] = "ack",
           NEW actions \in Seq(Action), Apply(c, c, actions)
    PROVE  ClientLog(c)' /\ \A p \in Proc \ {c} : log'[p] = log[p]
  <1>0. /\ c \in Client /\ c \in Proc /\ Server \in Proc \ {c} /\ TypeOK
        /\ Len(log[c]) \in Nat /\ Len(log[Server]) \in Nat
        /\ cursor[c] \in Nat /\ ClientLog(c)
    BY LogTypes, ClientFacts DEF StreamInvariant, LogInvariant, Proc
  <1>1. Announces(cursor[c]) /\ published[cursor[c]].id = c
    BY <1>0 DEF StreamInvariant, ClientInStream, ClientLog
  <1>2. Turns(cursor[c]) \in Nat /\ Turns(cursor[c])' = Turns(cursor[c])
    BY <1>0, TurnsFacts DEF Turns
  <1>3. Len(log[c]) = Turns(cursor[c])
    BY <1>0, <1>2 DEF ClientLog, Ahead
  <1>4. /\ Len(log'[c]) = Len(log[c]) + 1
        /\ \A i \in 1 .. Len(log[c]) : log'[c][i] = log[c][i]
        /\ log'[c][Len(log[c]) + 1] = TurnOf(c, actions)
        /\ \A q \in Proc \ {c} : log'[q] = log[q]
    BY <1>0, ApplyFacts
  <1>5. Ahead(c)' /\ Announces(cursor[c])'
    BY <1>1, <1>2, <1>3, <1>4 DEF Ahead, Announces
  <1>6. ASSUME NEW i \in 1 .. Shorter(log'[c], log'[Server])
        PROVE  /\ log'[c][i].player = log'[Server][i].player
               /\ log'[c][i].player # c => log'[c][i] = log'[Server][i]
    <2>1. /\ log'[Server] = log[Server]
          /\ i \in 1 .. Len(log[c]) + 1 /\ i <= Len(log[Server])
      BY <1>0, <1>4, <1>6 DEF Shorter
    <2>2. CASE i = Len(log[c]) + 1
      <3>1. log[Server][i].player = c
        BY <1>0, <1>1, <1>3, <2>1, <2>2, NextTurnOfServer
      <3> QED
        BY <1>4, <2>1, <2>2, <3>1, TurnOfFields
    <2>3. CASE i <= Len(log[c])
      <3>1. i \in 1 .. Shorter(log[c], log[Server])
        BY <1>0, <2>1, <2>3 DEF Shorter
      <3>2. log'[c][i] = log[c][i] /\ log'[Server][i] = log[Server][i]
        BY <1>0, <1>4, <2>1, <2>3
      <3> QED
        BY <1>0, <3>1, <3>2 DEF ClientLog
    <2> QED
      BY <1>0, <2>1, <2>2, <2>3
  <1>7. log'[c][Len(log'[c])].player = c
    BY <1>4, TurnOfFields
  <1> QED
    BY <1>0, <1>1, <1>2, <1>3, <1>4, <1>5, <1>6, <1>7 DEF ClientLog

\* Each handler of a client loop keeps its log where the stream says.
LEMMA LogClient ==
    ASSUME StreamInvariant, LogInvariant, NEW c \in Client,
           ClientStep(c) \/ Die(c)
    PROVE  LogInvariant'
  <1>0. /\ TypeOK /\ ClientLog(c) /\ ClientInStream(c) /\ c \in Proc
        /\ Len(log[c]) \in Nat /\ cursor[c] \in Nat
        /\ Server \in Proc \ {c} /\ Client \subseteq Proc
        /\ cpc \in [Client -> {"start", "await", "my_turn", "ack", "own_actions",
                               "actions", "done", "dead", "fatal"}]
    BY LogTypes, ClientFacts DEF StreamInvariant, LogInvariant, Proc, TypeOK
  <1>a. ASSUME Pull(c), UNCHANGED log, cpc[c] \in {"start", "await"},
               UNCHANGED <<published, serverVars>>,
               \A d \in Client \ {c} : UNCHANGED <<cpc[d], playing[d]>>,
               cpc'[c] \in {"await", "done", "my_turn", "actions"},
               cpc'[c] = "actions" => playing'[c] = NextMessage(c).id,
               cpc'[c] = "my_turn" => NextMessage(c).id = c
        PROVE  LogInvariant'
    <2>1. ~Announces(cursor[c]) /\ ~Ahead(c)
      BY <1>0, <1>a DEF ClientInStream, ClientLog, Announces
    <2>2. ClientLog(c)'
      BY <1>a, <2>1, LogPullId
    <2> QED
      BY <1>a, <2>2, PullFacts, LogClientAlone
  <1>1. CASE ClientStart(c)
    <2>1. cpc'[c] \in {"await", "done"}
      BY <1>0, <1>1 DEF ClientStart
    <2> QED
      BY <1>0, <1>1, <1>a, <2>1 DEF ClientStart
  <1>2. CASE PullOwnTurn(c)
    <2>1. \A d \in Client \ {c} : UNCHANGED <<cpc[d], playing[d]>>
      BY <1>0, <1>2 DEF PullOwnTurn, TypeOK
    <2> QED
      BY <1>0, <1>2, <1>a, <2>1 DEF PullOwnTurn, MyTurn
  <1>3. CASE PullSpectatorTurn(c)
    <2>1. \A d \in Client \ {c} : UNCHANGED <<cpc[d], playing[d]>>
      BY <1>0, <1>3 DEF PullSpectatorTurn, TypeOK
    <2> QED
      BY <1>0, <1>3, <1>a, <2>1 DEF PullSpectatorTurn, gameVars
  <1>4. CASE PullPlayerTurn(c)
    <2>1. /\ \A d \in Client \ {c} : UNCHANGED <<cpc[d], playing[d]>>
          /\ playing'[c] = NextMessage(c).id
      BY <1>0, <1>4 DEF PullPlayerTurn, TypeOK
    <2> QED
      BY <1>0, <1>4, <1>a, <2>1 DEF PullPlayerTurn
  <1>5. CASE Answer(c)
    <2>1. /\ UNCHANGED <<published, cursor, playing, serverVars>>
          /\ cpc[c] = "my_turn" /\ cpc'[c] = "ack"
          /\ \A d \in Client \ {c} : UNCHANGED <<cursor[d], cpc[d], playing[d]>>
      BY <1>0, <1>5 DEF Answer
    <2>2. CASE c \in Player
      <3>1. PICK actions \in Seq(Action) : Apply(c, c, actions)
        BY <1>5, <2>2, ChampionActionsType DEF Answer
      <3>2. ClientLog(c)' /\ \A p \in Proc \ {c} : log'[p] = log[p]
        BY <2>1, <2>2, <3>1, LogPlays
      <3> QED
        BY <1>0, <2>1, <3>2, LogClientAlone
    <2>3. CASE c \notin Player
      <3>1. UNCHANGED log
        BY <1>5, <2>3 DEF Answer
      <3>2. ~Ahead(c)
        BY <1>0, <2>1 DEF ClientLog
      <3>3. ClientLog(c)'
        BY <1>0, <2>1, <2>3, <3>1, <3>2 DEF ClientLog, Ahead, Turns, Announces
      <3> QED
        BY <2>1, <3>1, <3>3, LogClientAlone
    <2> QED
      BY <2>2, <2>3
  <1>b. ASSUME UNCHANGED <<published, cursor, playing, serverVars, log>>,
               \A d \in Client \ {c} : UNCHANGED cpc[d],
               cpc[c] # "fatal",
               \/ cpc[c] = "ack" /\ c \in Player /\ cpc'[c] = "own_actions"
               \/ cpc[c] = "ack" /\ c \notin Player /\ cpc'[c] \in {"await", "done"}
               \/ cpc'[c] = "dead"
        PROVE  LogInvariant'
    <2>1. ClientLog(c)'
      BY <1>0, <1>b DEF ClientLog, Ahead, Turns, Announces
    <2> QED
      BY <1>b, <2>1, LogClientAlone
  <1>6. CASE PlayerAck(c)
    BY <1>0, <1>6, <1>b DEF PlayerAck, gameVars
  <1>7. CASE PullOwnActions(c)
    <2>1. /\ Pull(c) /\ UNCHANGED <<published, playing, serverVars, log>>
          /\ cpc[c] = "own_actions" /\ cpc'[c] \in {"await", "done"}
          /\ \A d \in Client \ {c} : UNCHANGED cpc[d]
      BY <1>0, <1>7 DEF PullOwnActions, PlayerEndTurn
    <2>2. Announces(cursor[c]) /\ Ahead(c)
      BY <1>0, <2>1 DEF ClientInStream, ClientLog
    <2>3. /\ NextMessage(c).type = "actions" /\ cursor'[c] = cursor[c] + 1
      BY <2>1, <2>2, PullFacts
    <2>4. Turns(cursor[c]) \in Nat /\ Turns(cursor[c])' = Turns(cursor[c]) + 1
      <3>1. Turns(cursor[c]) \in Nat /\ Turns(cursor[c] + 1) = Turns(cursor[c]) + 1
        BY <1>0, <2>3, TurnsFacts DEF NextMessage
      <3> QED
        BY <2>1, <2>3, <3>1 DEF Turns
    <2>5. ~Ahead(c)' /\ Len(log'[c]) = Turns(cursor[c])'
      BY <1>0, <2>1, <2>2, <2>4 DEF ClientLog, Ahead
    <2>6. ClientLog(c)'
      BY <1>0, <2>1, <2>4, <2>5 DEF ClientLog
    <2> QED
      BY <2>1, <2>6, PullFacts, LogClientAlone
  <1>8. CASE PlayerPullActions(c)
    <2>1. \/ /\ Apply(c, playing[c], NextMessage(c).actions)
             /\ cpc'[c] \in {"await", "done"}
          \/ UNCHANGED log /\ cpc'[c] = "fatal"
      BY <1>0, <1>8 DEF PlayerPullActions, PlayerEndTurn, gameVars
    <2>2. /\ Pull(c) /\ UNCHANGED <<published, playing, serverVars>>
          /\ cpc[c] = "actions"
          /\ \A d \in Client \ {c} : UNCHANGED cpc[d]
      BY <1>0, <1>8 DEF PlayerPullActions, PlayerEndTurn
    <2>3. ClientLog(c)' /\ \A p \in Proc \ {c} : log'[p] = log[p]
      BY <2>1, <2>2, LogPullActions
    <2> QED
      BY <1>0, <2>2, <2>3, PullFacts, LogClientAlone
  <1>9. CASE SpectatorPullActions(c)
    <2>1. \/ /\ Apply(c, playing[c], NextMessage(c).actions)
             /\ cpc'[c] \in {"await", "done"}
          \/ UNCHANGED log /\ cpc'[c] = "fatal"
      BY <1>0, <1>9 DEF SpectatorPullActions
    <2>2. /\ Pull(c) /\ UNCHANGED <<published, playing, serverVars>>
          /\ cpc[c] = "actions"
          /\ \A d \in Client \ {c} : UNCHANGED cpc[d]
      BY <1>0, <1>9 DEF SpectatorPullActions
    <2>3. ClientLog(c)' /\ \A p \in Proc \ {c} : log'[p] = log[p]
      BY <2>1, <2>2, LogPullActions
    <2> QED
      BY <1>0, <2>2, <2>3, PullFacts, LogClientAlone
  <1>10. CASE SpectatorAck(c)
    <2>1. /\ UNCHANGED <<published, cursor, playing, serverVars, log>>
          /\ \A d \in Client \ {c} : UNCHANGED cpc[d]
          /\ cpc[c] = "ack" /\ c \notin Player /\ cpc'[c] \in {"await", "done"}
      BY <1>0, <1>10, ClientFacts DEF SpectatorAck
    <2> QED
      BY <1>b, <2>1
  <1>11. CASE Die(c)
    BY <1>0, <1>11, <1>b DEF Die, Gone, gameVars
  <1> QED
    BY <1>1, <1>2, <1>3, <1>4, <1>5, <1>6, <1>7, <1>8, <1>9, <1>10, <1>11
    DEF ClientStep

-----------------------------------------------------------------------------
(* The turns of the others. *)

\* The log of every process is the one the stream says: the turns the server
\* has published, the turns a client has pulled, and the one that each of
\* them may be about to publish or has just played.
THEOREM LogSafety == Spec => []LogInvariant
  <1>1. Init => LogInvariant
    <2> SUFFICES ASSUME Init PROVE LogInvariant
      OBVIOUS
    <2>1. /\ published = <<>> /\ spc = "start" /\ Server \in Proc
          /\ \A p \in Proc : log[p] = <<>>
          /\ \A c \in Client : cpc[c] = "start" /\ cursor[c] = 0 /\ c \in Proc
      BY DEF Init, SocketsInit, Proc
    <2>2. Turns(0) = 0
      BY TurnsFacts
    <2>3. ServerLog
      BY <2>1, <2>2 DEF ServerLog
    <2>4. ASSUME NEW c \in Client PROVE ClientLog(c)
      <3>1. /\ Len(log[c]) = 0 /\ Turns(cursor[c]) = 0 /\ ~Ahead(c)
            /\ Len(log[Server]) = 0 /\ cpc[c] = "start"
        BY <2>1, <2>2 DEF Ahead
      <3>2. Shorter(log[c], log[Server]) = 0
        BY <3>1 DEF Shorter
      <3> QED
        BY <3>1, <3>2 DEF ClientLog
    <2> QED
      BY <2>3, <2>4 DEF LogInvariant
  <1>2. StreamInvariant /\ StreamInvariant' /\ LogInvariant /\ [Next]_vars => LogInvariant'
    <2> SUFFICES ASSUME StreamInvariant, StreamInvariant', LogInvariant, [Next]_vars
                 PROVE  LogInvariant'
      OBVIOUS
    <2>1. CASE ServerStep
      BY <2>1, LogServer
    <2>2. CASE \E c \in Client : ClientStep(c) \/ Die(c)
      BY <2>2, LogClient
    <2>3. CASE UNCHANGED vars
      BY <2>3 DEF vars, socketVars, serverVars, clientVars, gameVars,
         LogInvariant, ServerLog, ClientLog, Turns, Ahead, Announces
    <2> QED
      BY <2>1, <2>2, <2>3 DEF Next, Terminated
  <1> QED
    BY <1>1, <1>2, StreamSafety, PTL DEF Spec

\* Whatever the delays and the deaths, a client and the server never disagree
\* on whose turn was played when, nor on the turn of another player.
THEOREM OthersAgree == Spec => []ForeignTurnsAgree
  <1>1. StreamInvariant /\ LogInvariant => ForeignTurnsAgree
    <2> SUFFICES ASSUME StreamInvariant, LogInvariant, NEW c \in Client
                 PROVE  /\ Len(log[c]) <= Len(log[Server]) + 1
                        /\ \A i \in 1 .. Shorter(log[c], log[Server]) :
                              /\ log[c][i].player = log[Server][i].player
                              /\ log[c][i].player # c => log[c][i] = log[Server][i]
      BY DEF ForeignTurnsAgree
    <2>1. Len(log[c]) \in Nat /\ Len(log[Server]) \in Nat
      BY LogTypes DEF StreamInvariant
    <2>2. Len(log[c]) > Len(log[Server]) => Len(log[c]) = Len(log[Server]) + 1
      BY AheadOfServer
    <2> QED
      BY <2>1, <2>2 DEF LogInvariant, ClientLog
  <1> QED
    BY <1>1, StreamSafety, LogSafety, PTL

-----------------------------------------------------------------------------
(* Whose answer the server is waiting for. *)

\* The server is listening, and it is the turn of c.
Awaited(c) == \/ spc = "poll" /\ turn = c
              \/ spc = "watching" /\ watcher = c

\* Message i calls client c to its turn.
Calls(i, c) == i >= 2 /\ published[i].type = "id" /\ published[i].id = c

\* Only players outside Slow that have gone miss a deadline, a request holds
\* one action at most, and a client that has been answered has something left
\* to pull.
AnswerInvariant ==
    /\ \A p \in Player \ Slow : nbTimeout[p] > 0 => Gone(p)
    /\ \A r \in requests : Len(r.actions) <= 1
    /\ spc = "poll" => \A c \in Client :
            c \in replies \/ cpc[c] = "own_actions" => cursor[c] < Len(published)

\* Whoever has sent a request, or is about to, is the client the server is
\* waiting for, and has nothing left to pull; a client that is still there has
\* no other turn to come than the one it is called to.
TurnInvariant ==
    /\ \A r \in requests : Awaited(r.from) /\ cursor[r.from] = Len(published)
    /\ \A c \in Client : cpc[c] = "my_turn" =>
            Awaited(c) /\ cursor[c] = Len(published)
    /\ \A c \in Client : ~Gone(c) =>
            \A i \in cursor[c] + 1 .. Len(published) :
                Calls(i, c) => i = Len(published) /\ Awaited(c)

\* What a client does to the sockets and to its place in its own loop.
LEMMA ClientEffects ==
    ASSUME StreamInvariant, LockStep, NEW c \in Client, ClientStep(c) \/ Die(c)
    PROVE  /\ ~Gone(c)
           /\ UNCHANGED <<published, serverVars>>
           /\ \A d \in Client \ {c} : UNCHANGED <<cursor[d], cpc[d]>>
           /\ cursor'[c] = cursor[c] \/ Pull(c)
           /\ cursor'[c] # cursor[c] => c \notin {r.from : r \in requests} \union replies
           /\ cpc'[c] = "my_turn" => cpc[c] = "await" /\ Pull(c) /\ MyTurn(c)
           /\ cpc'[c] = "own_actions" => c \in replies /\ cursor'[c] = cursor[c]
           /\ \/ requests' \subseteq requests
              \/ /\ cpc[c] = "my_turn" /\ cursor'[c] = cursor[c]
                 /\ \E actions \in ChampionActions(c) \union {<<>>} :
                        SendActions(c, actions)
           /\ replies' \subseteq replies
  <1>0. /\ cpc \in [Client -> {"start", "await", "my_turn", "ack", "own_actions",
                               "actions", "done", "dead", "fatal"}]
        /\ cursor \in [Client -> Nat]
    BY DEF StreamInvariant, TypeOK
  <1>a. ASSUME cpc[c] \notin {"ack", "dead"}
        PROVE  c \notin {r.from : r \in requests} \union replies
    BY <1>a DEF LockStep
  <1>1. CASE ClientStart(c)
    BY <1>0, <1>1, <1>a, PullFacts DEF ClientStart, Gone
  <1>2. CASE PullOwnTurn(c)
    BY <1>0, <1>2, <1>a, PullFacts DEF PullOwnTurn, Gone
  <1>3. CASE PullSpectatorTurn(c)
    BY <1>0, <1>3, <1>a, PullFacts DEF PullSpectatorTurn, Gone
  <1>4. CASE PullPlayerTurn(c)
    BY <1>0, <1>4, <1>a, PullFacts DEF PullPlayerTurn, Gone
  <1>5. CASE Answer(c)
    <2>1. \E actions \in ChampionActions(c) \union {<<>>} : SendActions(c, actions)
      BY <1>5 DEF Answer
    <2> QED
      BY <1>0, <1>5, <2>1 DEF Answer, Gone
  <1>6. CASE PlayerAck(c)
    BY <1>0, <1>6 DEF PlayerAck, WaitForAck, Gone
  <1>7. CASE PullOwnActions(c)
    BY <1>0, <1>7, <1>a, PullFacts DEF PullOwnActions, PlayerEndTurn, Gone
  <1>8. CASE PlayerPullActions(c)
    BY <1>0, <1>8, <1>a, PullFacts DEF PlayerPullActions, PlayerEndTurn, Gone
  <1>9. CASE SpectatorPullActions(c)
    BY <1>0, <1>9, <1>a, PullFacts DEF SpectatorPullActions, Gone
  <1>10. CASE SpectatorAck(c)
    BY <1>0, <1>10 DEF SpectatorAck, WaitForAck, Gone
  <1>11. CASE Die(c)
    BY <1>0, <1>11 DEF Die
  <1> QED
    BY <1>1, <1>2, <1>3, <1>4, <1>5, <1>6, <1>7, <1>8, <1>9, <1>10, <1>11
    DEF ClientStep

\* A champion of the game does one action at most.
LEMMA OneAction ==
    ASSUME NEW c \in Client, NEW actions \in ChampionActions(c) \union {<<>>}
    PROVE  actions \in Seq(Action) /\ Len(actions) <= 1
  <1>1. CASE actions = <<>>
    BY <1>1
  <1>2. CASE actions # <<>>
    <2>1. PICK cell \in FreeCell(c) : actions = <<[player |-> c, cell |-> cell]>>
      BY <1>2 DEF ChampionActions
    <2>2. [player |-> c, cell |-> cell] \in Action
      BY DEF Action, FreeCell
    <2> QED
      BY <2>1, <2>2
  <1> QED
    BY <1>1, <1>2

\* Once a player has missed a deadline, it stays so.
LEMMA PunctualBefore ==
    ASSUME StreamInvariant, [Next]_vars, Punctual'
    PROVE  Punctual
  <1>1. \A p \in Player : nbTimeout[p] \in Nat /\ nbTimeout'[p] \in {nbTimeout[p], nbTimeout[p] + 1}
    <2>0. nbTimeout \in [Player -> 0 .. MaxConsecutiveTimeout] /\ turn \in Player
      BY DEF StreamInvariant, TypeOK
    <2>1. CASE TimeoutAnswer
      BY <2>0, <2>1 DEF TimeoutAnswer
    <2>2. CASE ServerStep /\ ~TimeoutAnswer
      <3>1. UNCHANGED nbTimeout
        BY <2>2 DEF ServerStep, StartMatch, BeginTurn, ReceiveAnswer, EndTurn,
           BeginWatch, ReceiveWatch, EndRound
      <3> QED
        BY <2>0, <3>1
    <2>3. CASE \E c \in Client : ClientStep(c) \/ Die(c)
      <3>1. UNCHANGED nbTimeout
        BY <2>3 DEF ClientStep, ClientStart, PullOwnTurn, PullSpectatorTurn,
           PullPlayerTurn, Answer, PlayerAck, PullOwnActions, PlayerPullActions,
           SpectatorPullActions, SpectatorAck, Die, serverVars
      <3> QED
        BY <2>0, <3>1
    <2>4. CASE UNCHANGED vars
      BY <2>0, <2>4 DEF vars, serverVars
    <2> QED
      BY <2>1, <2>2, <2>3, <2>4 DEF Next, Terminated
  <1> QED
    BY <1>1, FaultAssumption DEF Punctual

LEMMA AnswerServer ==
    ASSUME StreamInvariant, AnswerInvariant, ServerStep
    PROVE  AnswerInvariant'
  <1>0. /\ turn \in Player /\ nbTimeout \in [Player -> 0 .. MaxConsecutiveTimeout]
        /\ published \in Seq(Message) /\ Len(published) \in Nat
        /\ \A c \in Client : cursor[c] \in Nat /\ cursor[c] <= Len(published)
    BY LogTypes DEF StreamInvariant, TypeOK, ClientInStream
  <1>1. CASE BeginTurn
    <2>1. Len(published') = Len(published) + 1
      BY <1>0, <1>1 DEF BeginTurn, Push
    <2> QED
      BY <1>0, <1>1, <2>1 DEF BeginTurn, clientVars, AnswerInvariant, Gone
  <1>2. CASE TimeoutAnswer
    <2>1. turn \notin Slow => Gone(turn)
      BY <1>2 DEF TimeoutAnswer, MissesDeadline
    <2>2. /\ UNCHANGED <<requests, cpc>> /\ spc' # "poll"
          /\ \A p \in Player : p # turn => nbTimeout'[p] = nbTimeout[p]
      BY <1>0, <1>2 DEF TimeoutAnswer, socketVars, clientVars
    <2> QED
      BY <2>1, <2>2 DEF AnswerInvariant, Gone
  <1>3. CASE ~BeginTurn /\ ~TimeoutAnswer
    <2>1. /\ spc' # "poll" /\ UNCHANGED <<nbTimeout, cpc>>
          /\ requests' \subseteq requests
      BY <1>3 DEF ServerStep, StartMatch, ReceiveAnswer, EndTurn, BeginWatch,
         ReceiveWatch, EndRound, NextTurn, RecvAndAck, clientVars, socketVars
    <2> QED
      BY <2>1 DEF AnswerInvariant, Gone
  <1> QED
    BY <1>1, <1>2, <1>3

LEMMA AnswerClient ==
    ASSUME StreamInvariant, LockStep, AnswerInvariant, NEW c \in Client,
           ClientStep(c) \/ Die(c)
    PROVE  AnswerInvariant'
  <1>1. /\ ~Gone(c)
        /\ UNCHANGED <<published, serverVars>>
        /\ \A d \in Client \ {c} : UNCHANGED <<cursor[d], cpc[d]>>
        /\ cursor'[c] # cursor[c] => c \notin replies
        /\ cpc'[c] = "own_actions" => c \in replies /\ cursor'[c] = cursor[c]
        /\ \/ requests' \subseteq requests
           \/ \E actions \in ChampionActions(c) \union {<<>>} : SendActions(c, actions)
        /\ replies' \subseteq replies
    BY ClientEffects
  <1>2. \A p \in Player \ Slow : nbTimeout'[p] > 0 => Gone(p)'
    <2> SUFFICES ASSUME NEW p \in Player \ Slow, nbTimeout'[p] > 0 PROVE Gone(p)'
      OBVIOUS
    <2>1. Gone(p)
      BY <1>1 DEF AnswerInvariant, serverVars
    <2>2. p \in Client \ {c}
      BY <1>1, <2>1, ClientFacts
    <2> QED
      BY <1>1, <2>1, <2>2 DEF Gone
  <1>3. \A r \in requests' : Len(r.actions) <= 1
    <2>1. CASE requests' \subseteq requests
      BY <2>1 DEF AnswerInvariant
    <2>2. CASE \E actions \in ChampionActions(c) \union {<<>>} : SendActions(c, actions)
      <3>1. PICK actions \in ChampionActions(c) \union {<<>>} : SendActions(c, actions)
        BY <2>2
      <3>2. Len(actions) <= 1
        BY OneAction
      <3> QED
        BY <3>1, <3>2 DEF AnswerInvariant, SendActions
    <2> QED
      BY <1>1, <2>1, <2>2
  <1>4. ASSUME spc' = "poll", NEW d \in Client,
               d \in replies' \/ cpc'[d] = "own_actions"
        PROVE  cursor'[d] < Len(published')
    <2>1. /\ spc = "poll" /\ published' = published
          /\ \A e \in Client : e \in replies \/ cpc[e] = "own_actions" =>
                cursor[e] < Len(published)
      BY <1>1, <1>4 DEF AnswerInvariant, serverVars
    <2>2. CASE d # c
      BY <1>1, <1>4, <2>1, <2>2
    <2>3. CASE d = c
      BY <1>1, <1>4, <2>1, <2>3
    <2> QED
      BY <2>2, <2>3
  <1> QED
    BY <1>2, <1>3, <1>4 DEF AnswerInvariant

\* An answer is received: the only one there was, from the client it was
\* waited for from.
LEMMA TurnReceives ==
    ASSUME StreamInvariant, LockStep, TurnInvariant,
           spc \in {"poll", "watching"}, spc' \notin {"poll", "watching"},
           UNCHANGED <<published, cursor, cpc>>,
           NEW request \in requests, requests' = requests \ {request}
    PROVE  TurnInvariant'
  <1>1. \A r \in requests : r.from = request.from
    BY DEF TurnInvariant, Awaited
  <1>2. requests' = {}
    BY <1>1 DEF LockStep
  <1>3. /\ request.from \in Client /\ cpc[request.from] \in {"ack", "dead"}
        /\ Awaited(request.from) /\ cursor[request.from] = Len(published)
    BY DEF StreamInvariant, TypeOK, LockStep, TurnInvariant
  <1>4. \A c \in Client : Awaited(c) => c = request.from
    BY <1>3 DEF Awaited
  <1>5. \A c \in Client : cpc[c] # "my_turn"
    BY <1>3, <1>4 DEF TurnInvariant
  <1>6. ASSUME NEW c \in Client, ~Gone(c), NEW i \in cursor[c] + 1 .. Len(published)
        PROVE  ~Calls(i, c)
    <2>1. Calls(i, c) => i = Len(published) /\ Awaited(c)
      BY <1>6 DEF TurnInvariant
    <2>2. cursor[c] \in Nat /\ Len(published) \in Nat
      BY LogTypes DEF StreamInvariant
    <2> QED
      BY <1>3, <1>4, <1>6, <2>1, <2>2
  <1> QED
    BY <1>2, <1>5, <1>6 DEF TurnInvariant, Gone, Calls

\* The server calls a client, or nobody: nobody was awaited.
LEMMA TurnPushes ==
    ASSUME StreamInvariant, TurnInvariant, NEW m \in Message, Push(m),
           spc \notin {"poll", "watching"},
           UNCHANGED <<requests, cursor, cpc>>,
           \A c \in Client :
               published # <<>> /\ m.type = "id" /\ m.id = c => Gone(c) \/ Awaited(c)'
    PROVE  TurnInvariant'
  <1>0. /\ published \in Seq(Message) /\ Len(published) \in Nat
        /\ \A c \in Client : cursor[c] \in Nat /\ cursor[c] <= Len(published)
    BY LogTypes DEF StreamInvariant, ClientInStream
  <1>1. /\ Len(published') = Len(published) + 1
        /\ published'[Len(published) + 1] = m
        /\ \A i \in 1 .. Len(published) : published'[i] = published[i]
    BY <1>0, PushFacts
  <1>2. \A c \in Client : ~Awaited(c)
    BY DEF Awaited
  <1>3. requests = {} /\ \A c \in Client : cpc[c] # "my_turn"
    BY <1>2 DEF TurnInvariant, StreamInvariant, TypeOK
  <1>4. ASSUME NEW c \in Client, ~Gone(c)',
               NEW i \in cursor'[c] + 1 .. Len(published'), Calls(i, c)'
        PROVE  i = Len(published') /\ Awaited(c)'
    <2>0. ~Gone(c) /\ cursor'[c] = cursor[c]
      BY <1>4 DEF Gone
    <2>1. CASE i \in 1 .. Len(published)
      <3>1. Calls(i, c)
        BY <1>1, <1>4, <2>1 DEF Calls
      <3> QED
        BY <1>0, <1>2, <1>4, <2>0, <2>1, <3>1 DEF TurnInvariant
    <2>2. CASE i = Len(published) + 1
      <3>1. m.type = "id" /\ m.id = c /\ Len(published) + 1 >= 2
        BY <1>1, <1>4, <2>2 DEF Calls
      <3>2. published # <<>>
        BY <1>0, <3>1
      <3> QED
        BY <1>1, <2>0, <2>2, <3>1, <3>2
    <2> QED
      BY <1>0, <1>1, <1>4, <2>0, <2>1, <2>2
  <1> QED
    BY <1>3, <1>4 DEF TurnInvariant

\* Nobody is waited for, before nor after.
LEMMA TurnQuiet ==
    ASSUME StreamInvariant, TurnInvariant,
           spc \notin {"poll", "watching"},
           UNCHANGED <<requests, published, cursor, cpc>>
    PROVE  TurnInvariant'
  <1>1. \A c : ~Awaited(c)
    BY DEF Awaited
  <1> QED
    BY <1>1 DEF TurnInvariant, Gone, Calls, StreamInvariant, TypeOK

LEMMA TurnServer ==
    ASSUME MaxConsecutiveTimeout > 0,
           StreamInvariant, LockStep, AnswerInvariant, TurnInvariant,
           Punctual, Punctual', ServerStep
    PROVE  TurnInvariant'
  <1>0. /\ turn \in Player /\ turn \in Client /\ LastPlayer \in Client
        /\ nbTimeout \in [Player -> 0 .. MaxConsecutiveTimeout]
        /\ published \in Seq(Message) /\ Len(published) \in Nat
        /\ received \in Seq(Action)
    BY LogTypes, ClientFacts DEF StreamInvariant, TypeOK
  <1>1. CASE StartMatch
    <2>1. published = <<>>
      BY <1>1 DEF StartMatch, StreamInvariant, ServerInStream
    <2>2. /\ IdMessage(LastPlayer) \in Message /\ Push(IdMessage(LastPlayer))
          /\ spc \notin {"poll", "watching"}
          /\ UNCHANGED <<requests, cursor, cpc>>
      BY <1>0, <1>1, MessageFacts DEF StartMatch, clientVars
    <2> QED
      BY <2>1, <2>2, TurnPushes
  <1>2. CASE BeginTurn
    <2>1. /\ IdMessage(turn) \in Message /\ Push(IdMessage(turn))
          /\ spc \notin {"poll", "watching"}
          /\ UNCHANGED <<requests, cursor, cpc, turn>>
      BY <1>0, <1>2, MessageFacts DEF BeginTurn, clientVars
    <2>2. IdMessage(turn).id = turn
      BY DEF IdMessage
    <2>3. Gone(turn) \/ Awaited(turn)'
      <3>1. CASE Eliminated(turn)
        <4>1. nbTimeout[turn] > 0
          BY <1>0, <3>1, TimeoutAssumption DEF Eliminated
        <4>2. turn \notin Slow
          BY <4>1 DEF Punctual
        <4> QED
          BY <1>0, <4>1, <4>2 DEF AnswerInvariant
      <3>2. CASE ~Eliminated(turn)
        <4>1. spc' = "poll"
          BY <1>2, <3>2 DEF BeginTurn
        <4> QED
          BY <2>1, <4>1 DEF Awaited
      <3> QED
        BY <3>1, <3>2
    <2>4. \A c \in Client : IdMessage(turn).id = c => Gone(c) \/ Awaited(c)'
      BY <2>1, <2>2, <2>3 DEF Awaited
    <2> QED
      BY <2>1, <2>4, TurnPushes
  <1>3. CASE ReceiveAnswer
    <2>1. PICK request \in requests : RecvAndAck(request)
      BY <1>3 DEF ReceiveAnswer
    <2>2. /\ spc = "poll" /\ spc' \notin {"poll", "watching"}
          /\ UNCHANGED <<published, cursor, cpc>>
          /\ requests' = requests \ {request}
      BY <1>3, <2>1 DEF ReceiveAnswer, RecvAndAck, clientVars
    <2> QED
      BY <2>2, TurnReceives
  <1>4. CASE TimeoutAnswer
    <2>1. /\ requests = {} /\ spc = "poll" /\ MissesDeadline(turn)
          /\ UNCHANGED <<requests, published, cursor, cpc>>
          /\ nbTimeout'[turn] = nbTimeout[turn] + 1
          /\ requests' = {}
      BY <1>0, <1>4 DEF TimeoutAnswer, Poll, socketVars, clientVars
    <2>2. Gone(turn)
      <3>1. nbTimeout'[turn] # 0
        BY <1>0, <2>1
      <3>2. turn \notin Slow
        BY <3>1 DEF Punctual
      <3> QED
        BY <2>1, <3>2 DEF MissesDeadline
    <2>3. \A c \in Client : Awaited(c) => c = turn
      BY <2>1 DEF Awaited
    <2>4. \A c \in Client : cpc[c] # "my_turn"
      BY <2>2, <2>3 DEF TurnInvariant, Gone
    <2>5. ASSUME NEW c \in Client, ~Gone(c), NEW i \in cursor[c] + 1 .. Len(published)
          PROVE  ~Calls(i, c)
      BY <2>2, <2>3, <2>5 DEF TurnInvariant
    <2> QED
      BY <2>1, <2>4, <2>5 DEF TurnInvariant, Gone, Calls
  <1>5. CASE EndTurn
    <2>1. /\ ActionsMessage(received) \in Message /\ Push(ActionsMessage(received))
          /\ ActionsMessage(received).type # "id"
          /\ spc \notin {"poll", "watching"}
          /\ UNCHANGED <<requests, cursor, cpc>>
      BY <1>0, <1>5, MessageFacts DEF EndTurn, PushActions, ActionsMessage, clientVars
    <2> QED
      BY <2>1, TurnPushes
  <1>6. CASE BeginWatch
    <2>1. watcher \in Client
      BY <1>6, ClientFacts DEF BeginWatch, StreamInvariant, ServerInStream
    <2>2. /\ IdMessage(watcher) \in Message /\ Push(IdMessage(watcher))
          /\ IdMessage(watcher).id = watcher
          /\ spc \notin {"poll", "watching"} /\ spc' = "watching"
          /\ UNCHANGED <<requests, cursor, cpc, watcher>>
      BY <1>6, <2>1, MessageFacts DEF BeginWatch, IdMessage, clientVars
    <2>3. \A c \in Client : IdMessage(watcher).id = c => Awaited(c)'
      BY <2>2 DEF Awaited
    <2> QED
      BY <2>2, <2>3, TurnPushes
  <1>7. CASE ReceiveWatch
    <2>1. PICK request \in requests : RecvAndAck(request)
      BY <1>7 DEF ReceiveWatch
    <2>2. /\ spc = "watching" /\ spc' \notin {"poll", "watching"}
          /\ UNCHANGED <<published, cursor, cpc>>
          /\ requests' = requests \ {request}
      BY <1>7, <2>1 DEF ReceiveWatch, NextTurn, RecvAndAck, clientVars
    <2> QED
      BY <2>2, TurnReceives
  <1>8. CASE EndRound
    BY <1>8, TurnQuiet DEF EndRound, clientVars, socketVars
  <1> QED
    BY <1>1, <1>2, <1>3, <1>4, <1>5, <1>6, <1>7, <1>8 DEF ServerStep

LEMMA TurnClient ==
    ASSUME StreamInvariant, LockStep, TurnInvariant, NEW c \in Client,
           ClientStep(c) \/ Die(c)
    PROVE  TurnInvariant'
  <1>1. /\ ~Gone(c)
        /\ UNCHANGED <<published, serverVars>>
        /\ \A d \in Client \ {c} : UNCHANGED <<cursor[d], cpc[d]>>
        /\ cursor'[c] = cursor[c] \/ Pull(c)
        /\ cursor'[c] # cursor[c] => c \notin {r.from : r \in requests}
        /\ cpc'[c] = "my_turn" => cpc[c] = "await" /\ Pull(c) /\ MyTurn(c)
        /\ \/ requests' \subseteq requests
           \/ /\ cpc[c] = "my_turn" /\ cursor'[c] = cursor[c]
              /\ \E actions \in ChampionActions(c) \union {<<>>} :
                     SendActions(c, actions)
    BY ClientEffects
  <1>2. /\ published \in Seq(Message) /\ Len(published) \in Nat /\ cursor[c] \in Nat
        /\ \A r \in requests : r.from \in Client
    BY LogTypes DEF StreamInvariant, TypeOK
  <1>3. \A d : Awaited(d)' <=> Awaited(d)
    BY <1>1 DEF Awaited, serverVars
  <1>4. ASSUME NEW r \in requests
        PROVE  Awaited(r.from)' /\ cursor'[r.from] = Len(published')
    <2>1. Awaited(r.from) /\ cursor[r.from] = Len(published) /\ r.from \in Client
      BY <1>2 DEF TurnInvariant
    <2>2. cursor'[r.from] = cursor[r.from]
      BY <1>1, <2>1
    <2> QED
      BY <1>1, <1>3, <2>1, <2>2
  <1>5. \A r \in requests' : Awaited(r.from)' /\ cursor'[r.from] = Len(published')
    <2>1. CASE requests' \subseteq requests
      BY <1>4, <2>1
    <2>2. CASE /\ cpc[c] = "my_turn" /\ cursor'[c] = cursor[c]
               /\ \E actions \in ChampionActions(c) \union {<<>>} : SendActions(c, actions)
      <3>1. Awaited(c)' /\ cursor'[c] = Len(published')
        BY <1>1, <1>3, <2>2 DEF TurnInvariant
      <3> QED
        BY <1>4, <2>2, <3>1 DEF SendActions
    <2> QED
      BY <1>1, <2>1, <2>2
  <1>6. cpc'[c] = "my_turn" => Awaited(c) /\ cursor'[c] = Len(published)
    <2> SUFFICES ASSUME cpc'[c] = "my_turn" PROVE Awaited(c) /\ cursor'[c] = Len(published)
      OBVIOUS
    <2>1. Pull(c) /\ NextMessage(c).id = c /\ cpc[c] = "await"
      BY <1>1 DEF MyTurn
    <2>2. cursor'[c] = cursor[c] + 1 /\ cursor'[c] \in 1 .. Len(published)
      BY <2>1, PullFacts
    <2>3. cursor[c] >= 1 /\ ~Announces(cursor[c])
      BY <2>1 DEF StreamInvariant, ClientInStream
    <2>4. NextMessage(c).type = "id"
      BY <2>1, <2>3, PullFacts, MessageFacts
    <2>5. Calls(cursor[c] + 1, c)
      BY <1>2, <2>1, <2>3, <2>4 DEF Calls, NextMessage
    <2> QED
      BY <1>1, <1>2, <2>2, <2>5 DEF TurnInvariant
  <1>7. ASSUME NEW d \in Client, cpc'[d] = "my_turn"
        PROVE  Awaited(d)' /\ cursor'[d] = Len(published')
    <2>1. CASE d = c
      BY <1>1, <1>3, <1>6, <1>7, <2>1
    <2>2. CASE d # c
      BY <1>1, <1>3, <1>7, <2>2 DEF TurnInvariant
    <2> QED
      BY <2>1, <2>2
  <1>8. ASSUME NEW d \in Client, ~Gone(d)', NEW i \in cursor'[d] + 1 .. Len(published'),
               Calls(i, d)'
        PROVE  i = Len(published') /\ Awaited(d)'
    <2>1. ~Gone(d)
      BY <1>1, <1>8 DEF Gone
    <2>2. i \in cursor[d] + 1 .. Len(published)
      <3>1. CASE d = c
        <4>1. cursor'[c] = cursor[c] \/ cursor'[c] = cursor[c] + 1
          BY <1>1, PullFacts
        <4> QED
          BY <1>1, <1>2, <1>8, <3>1, <4>1
      <3>2. CASE d # c
        BY <1>1, <1>8, <3>2
      <3> QED
        BY <3>1, <3>2
    <2>3. Calls(i, d)
      BY <1>1, <1>8 DEF Calls
    <2> QED
      BY <1>1, <1>3, <2>1, <2>2, <2>3 DEF TurnInvariant
  <1> QED
    BY <1>5, <1>7, <1>8 DEF TurnInvariant

\* Only players that have gone miss a deadline unless they are slow, and a
\* client that has its acknowledgement still has its turn to pull.
THEOREM AnswerSafety == Spec => []AnswerInvariant
  <1>1. Init => AnswerInvariant
    BY DEF Init, SocketsInit, AnswerInvariant
  <1>2. StreamInvariant /\ LockStep /\ AnswerInvariant /\ [Next]_vars => AnswerInvariant'
    <2> SUFFICES ASSUME StreamInvariant, LockStep, AnswerInvariant, [Next]_vars
                 PROVE  AnswerInvariant'
      OBVIOUS
    <2>1. CASE ServerStep
      BY <2>1, AnswerServer
    <2>2. CASE \E c \in Client : ClientStep(c) \/ Die(c)
      BY <2>2, AnswerClient
    <2>3. CASE UNCHANGED vars
      BY <2>3 DEF vars, socketVars, serverVars, clientVars, AnswerInvariant, Gone
    <2> QED
      BY <2>1, <2>2, <2>3 DEF Next, Terminated
  <1> QED
    BY <1>1, <1>2, StreamSafety, OneRequestAtATime, PTL DEF Spec

\* As long as no player has been late, the server has the request of the
\* client it is waiting for, or none, and no other client believes that it is
\* its turn.
THEOREM TurnSafety ==
    ASSUME MaxConsecutiveTimeout > 0
    PROVE  Spec => [](Punctual => TurnInvariant)
  <1>1. Init => TurnInvariant
    BY DEF Init, SocketsInit, TurnInvariant
  <1>2. /\ StreamInvariant /\ LockStep /\ AnswerInvariant
        /\ Punctual => TurnInvariant
        /\ [Next]_vars
        => (Punctual => TurnInvariant)'
    <2> SUFFICES ASSUME StreamInvariant, LockStep, AnswerInvariant,
                        Punctual => TurnInvariant, [Next]_vars, Punctual'
                 PROVE  TurnInvariant'
      OBVIOUS
    <2>0. Punctual /\ TurnInvariant
      BY PunctualBefore
    <2>1. CASE ServerStep
      BY <2>0, <2>1, TurnServer
    <2>2. CASE \E c \in Client : ClientStep(c) \/ Die(c)
      BY <2>0, <2>2, TurnClient
    <2>3. CASE UNCHANGED vars
      BY <2>0, <2>3 DEF vars, socketVars, serverVars, clientVars, TurnInvariant,
         Gone, Calls, Awaited
    <2> QED
      BY <2>1, <2>2, <2>3 DEF Next, Terminated
  <1> QED
    BY <1>1, <1>2, StreamSafety, OneRequestAtATime, AnswerSafety, PTL DEF Spec

\* Any request the server finds is taken for the answer it is waiting for:
\* rightly so, until a player is late.
THEOREM RequestsFromTurn ==
    ASSUME MaxConsecutiveTimeout > 0
    PROVE  Spec => []RequestFromTurn
  <1>1. (Punctual => TurnInvariant) => RequestFromTurn
    BY DEF TurnInvariant, Awaited, RequestFromTurn
  <1> QED
    BY <1>1, TurnSafety, PTL

-----------------------------------------------------------------------------
(* The whole game state, as long as no player is late. *)

\* Every action is in the turn of the player that does it, and takes a cell
\* that no earlier turn has taken.
LegalTurns(turns) ==
    \A i \in DOMAIN turns : \A j \in DOMAIN turns[i].actions :
        /\ turns[i].actions[j].player = turns[i].player
        /\ \A h \in 1 .. i - 1 : \A k \in DOMAIN turns[h].actions :
                turns[h].actions[k].cell # turns[i].actions[j].cell

\* What a pending request of a player asks is what this player has applied
\* after the turns of the server, and the server may apply it too.
RequestInvariant ==
    \A r \in requests : r.from \in Player =>
        /\ Len(log[r.from]) = Len(log[Server]) + 1
        /\ log[r.from][Len(log[r.from])] = TurnOf(r.from, r.actions)
        /\ Strict => Legal(Server, r.from, r.actions)

SamePrefix(c) ==
    \A i \in 1 .. Shorter(log[c], log[Server]) : log[c][i] = log[Server][i]

StateInvariant ==
    /\ NoSyncError
    /\ Strict => LegalTurns(log[Server])
    /\ RequestInvariant
    /\ \A c \in Client : cpc[c] # "dead" => SamePrefix(c)

\* A cell is free for a process if no turn it has applied took it.
LEMMA FreeCells ==
    ASSUME TypeOK, NEW p \in Proc, NEW cell \in Cell
    PROVE  cell \in FreeCell(p) <=>
               \A i \in 1 .. Len(log[p]) : \A j \in DOMAIN log[p][i].actions :
                   log[p][i].actions[j].cell # cell
  <1>1. log[p] \in Seq(Turn)
    BY DEF TypeOK
  <1>2. \A i \in 1 .. Len(log[p]) : log[p][i].actions \in Seq(Action)
    <2>1. \A i \in 1 .. Len(log[p]) : log[p][i] \in Turn
      BY <1>1
    <2> QED
      BY <2>1 DEF Turn
  <1>3. \A i \in 1 .. Len(log[p]) : \A j \in DOMAIN log[p][i].actions :
            log[p][i].actions[j] \in Action
    BY <1>2
  <1>4. DOMAIN log[p] = 1 .. Len(log[p])
    BY <1>1
  <1> QED
    BY <1>3, <1>4 DEF FreeCell, Played

\* The next turn of the server is legal for whoever has applied the ones
\* before.
LEMMA LegalNext ==
    ASSUME TypeOK, LegalTurns(log[Server]), NEW c \in Client,
           Len(log[c]) < Len(log[Server]), SamePrefix(c)
    PROVE  LET next == log[Server][Len(log[c]) + 1] IN
           Legal(c, next.player, next.actions)
  <1> DEFINE next == log[Server][Len(log[c]) + 1]
  <1>1. /\ log[Server] \in Seq(Turn) /\ Len(log[c]) \in Nat /\ Len(log[Server]) \in Nat
        /\ c \in Proc
    BY LogTypes DEF Proc
  <1>2. next \in Turn
    BY <1>1
  <1> SUFFICES ASSUME NEW j \in DOMAIN next.actions
               PROVE  next.actions[j].player = next.player /\ next.actions[j].cell \in FreeCell(c)
    BY DEF Legal
  <1>3. next.actions[j] \in Action
    BY <1>2 DEF Turn
  <1>4. next.actions[j].cell \in Cell
    BY <1>3 DEF Action
  <1>5. PICK n \in DOMAIN log[Server] : n = Len(log[c]) + 1
    BY <1>1
  <1>6. /\ next.actions[j].player = next.player
        /\ \A h \in 1 .. n - 1 : \A k \in DOMAIN log[Server][h].actions :
                log[Server][h].actions[k].cell # next.actions[j].cell
    BY <1>5 DEF LegalTurns
  <1>7. \A h \in 1 .. Len(log[c]) : log[c][h] = log[Server][h]
    BY <1>1 DEF SamePrefix, Shorter
  <1>8. n - 1 = Len(log[c])
    BY <1>1, <1>5
  <1>9. \A h \in 1 .. Len(log[c]) : \A k \in DOMAIN log[c][h].actions :
            log[c][h].actions[k].cell # next.actions[j].cell
    BY <1>6, <1>7, <1>8, ZenonT(30)
  <1> QED
    BY <1>1, <1>4, <1>6, <1>9, FreeCells

\* A legal turn leaves the log legal.
LEMMA LegalAppend ==
    ASSUME TypeOK, LegalTurns(log[Server]), NEW id \in Player,
           NEW actions \in Seq(Action), Legal(Server, id, actions),
           Apply(Server, id, actions)
    PROVE  LegalTurns(log'[Server])
  <1>0. Server \in Proc /\ log[Server] \in Seq(Turn) /\ Len(log[Server]) \in Nat
    BY LogTypes DEF Proc
  <1>1. /\ Len(log'[Server]) = Len(log[Server]) + 1
        /\ \A i \in 1 .. Len(log[Server]) : log'[Server][i] = log[Server][i]
        /\ log'[Server][Len(log[Server]) + 1] = TurnOf(id, actions)
    BY <1>0, ApplyFacts
  <1>2. log'[Server] \in Seq(Turn)
    BY <1>0, ApplyType DEF TypeOK
  <1>3. ASSUME NEW i \in DOMAIN log'[Server], NEW j \in DOMAIN log'[Server][i].actions
        PROVE  /\ log'[Server][i].actions[j].player = log'[Server][i].player
               /\ \A h \in 1 .. i - 1 : \A k \in DOMAIN log'[Server][h].actions :
                     log'[Server][h].actions[k].cell # log'[Server][i].actions[j].cell
    <2>0. i \in 1 .. Len(log[Server]) + 1
      BY <1>1, <1>2
    <2>1. \A h \in 1 .. i - 1 : log'[Server][h] = log[Server][h]
      BY <1>0, <1>1, <2>0
    <2>2. CASE i \in 1 .. Len(log[Server])
      <3>1. i \in DOMAIN log[Server] /\ log'[Server][i] = log[Server][i]
        BY <1>0, <1>1, <2>2
      <3> QED
        BY <1>3, <2>1, <3>1 DEF LegalTurns
    <2>3. CASE i = Len(log[Server]) + 1
      <3>1. log'[Server][i] = TurnOf(id, actions) /\ j \in DOMAIN actions
        BY <1>1, <1>3, <2>3, TurnOfFields
      <3>2. actions[j].player = id /\ actions[j].cell \in FreeCell(Server)
        BY <3>1 DEF Legal
      <3>3. \A h \in 1 .. Len(log[Server]) : \A k \in DOMAIN log[Server][h].actions :
                log[Server][h].actions[k].cell # actions[j].cell
        <4>1. actions[j].cell \in Cell
          BY <3>2 DEF FreeCell
        <4> QED
          BY <1>0, <3>2, <4>1, FreeCells
      <3>4. i - 1 = Len(log[Server])
        BY <1>0, <2>3
      <3> QED
        BY <2>1, <3>1, <3>2, <3>3, <3>4, TurnOfFields
    <2> QED
      BY <1>0, <2>0, <2>2, <2>3, SMTT(30)
  <1> QED
    BY <1>3 DEF LegalTurns

\* A step that applies nothing leaves the game states as they agree.
LEMMA StateStutter ==
    ASSUME StateInvariant, UNCHANGED log, NoSyncError', requests' \subseteq requests,
           \A c \in Client : cpc[c] = "dead" => cpc'[c] = "dead"
    PROVE  StateInvariant'
  <1>1. RequestInvariant'
    BY DEF StateInvariant, RequestInvariant, Legal, FreeCell, Played
  <1>2. Strict => LegalTurns(log'[Server])
    BY DEF StateInvariant
  <1>3. \A c \in Client : cpc'[c] # "dead" => SamePrefix(c)'
    BY DEF StateInvariant, SamePrefix
  <1> QED
    BY <1>1, <1>2, <1>3 DEF StateInvariant

\* The server applies a turn that the clients do not have, or have.
LEMMA StateAppend ==
    ASSUME TypeOK, StateInvariant, NEW id \in Player, NEW actions \in Seq(Action),
           Apply(Server, id, actions), spc' # "fatal", UNCHANGED cpc,
           requests' = {},
           Strict => Legal(Server, id, actions),
           \A c \in Client : cpc[c] # "dead" /\ Len(log[c]) > Len(log[Server]) =>
               log[c][Len(log[Server]) + 1] = TurnOf(id, actions)
    PROVE  StateInvariant'
  <1>0. Server \in Proc /\ Len(log[Server]) \in Nat
    BY LogTypes DEF Proc
  <1>1. /\ Len(log'[Server]) = Len(log[Server]) + 1
        /\ \A i \in 1 .. Len(log[Server]) : log'[Server][i] = log[Server][i]
        /\ log'[Server][Len(log[Server]) + 1] = TurnOf(id, actions)
        /\ \A q \in Proc \ {Server} : log'[q] = log[q]
    BY <1>0, ApplyFacts
  <1>2. ASSUME NEW c \in Client, cpc'[c] # "dead" PROVE SamePrefix(c)'
    <2> SUFFICES ASSUME NEW i \in 1 .. Shorter(log'[c], log'[Server])
                 PROVE  log'[c][i] = log'[Server][i]
      BY DEF SamePrefix
    <2>1. log'[c] = log[c] /\ Len(log[c]) \in Nat
      BY <1>1, LogTypes, ClientFacts DEF Proc
    <2>2. i \in 1 .. Len(log[c]) /\ i \in 1 .. Len(log[Server]) + 1
      BY <1>0, <1>1, <2>1 DEF Shorter
    <2>3. CASE i <= Len(log[Server])
      <3>1. i \in 1 .. Shorter(log[c], log[Server])
        BY <1>0, <2>1, <2>2, <2>3 DEF Shorter
      <3>2. log[c][i] = log[Server][i]
        BY <1>2, <3>1 DEF StateInvariant, SamePrefix
      <3> QED
        BY <1>0, <1>1, <2>1, <2>2, <2>3, <3>2
    <2>4. CASE i = Len(log[Server]) + 1
      BY <1>0, <1>1, <1>2, <2>1, <2>2, <2>4
    <2> QED
      BY <1>0, <2>2, <2>3, <2>4
  <1>3. Strict => LegalTurns(log'[Server])
    BY LegalAppend DEF StateInvariant
  <1> QED
    BY <1>2, <1>3 DEF StateInvariant, RequestInvariant, NoSyncError

LEMMA StateServer ==
    ASSUME MaxConsecutiveTimeout > 0,
           StreamInvariant, LockStep, LogInvariant, AnswerInvariant,
           TurnInvariant, StateInvariant, Punctual', ServerStep
    PROVE  StateInvariant'
  <1>0. /\ TypeOK /\ turn \in Player /\ turn \in Client
        /\ received \in Seq(Action) /\ <<>> \in Seq(Action)
        /\ requests \subseteq [from : Client, actions : Seq(Action)]
        /\ nbTimeout \in [Player -> 0 .. MaxConsecutiveTimeout]
    <2>1. TypeOK
      BY DEF StreamInvariant
    <2>2. turn \in Player /\ turn \in Client
      BY <2>1, ClientFacts DEF TypeOK
    <2>3. <<>> \in Seq(Action)
      OBVIOUS
    <2> QED
      BY <2>1, <2>2, <2>3 DEF TypeOK
  <1>a. NoSyncError
    BY DEF StateInvariant
  <1>b. \A p : Legal(Server, p, <<>>)
    BY DEF Legal
  <1>1. CASE BeginTurn
    <2>1. CASE Eliminated(turn)
      <3>1. /\ spc = "turn" /\ spc' # "fatal" /\ Apply(Server, turn, <<>>)
            /\ UNCHANGED <<requests, cpc>>
        BY <1>1, <2>1 DEF BeginTurn, clientVars
      <3>2. requests = {}
        BY <1>0, <3>1 DEF TurnInvariant, Awaited
      <3>3. ~Announces(Len(published))
        BY <3>1 DEF StreamInvariant, ServerInStream
      <3>4. \A c \in Client : ~(Len(log[c]) > Len(log[Server]))
        BY <3>3, AheadOfServer
      <3> QED
        BY <1>0, <1>b, <3>1, <3>2, <3>4, StateAppend
    <2>2. CASE ~Eliminated(turn)
      <3>1. spc' = "poll" /\ UNCHANGED <<log, requests, cpc>>
        BY <1>1, <2>2 DEF BeginTurn, clientVars
      <3> QED
        BY <1>a, <3>1, StateStutter DEF NoSyncError
    <2> QED
      BY <2>1, <2>2
  <1>2. CASE ReceiveAnswer
    <2>1. PICK request \in requests :
            /\ RecvAndAck(request)
            /\ received' = received \o request.actions
            /\ IF Accepts(Server, turn, received')
               THEN spc' = "end_turn" /\ Apply(Server, turn, received')
               ELSE spc' = "fatal" /\ UNCHANGED log
      BY <1>2 DEF ReceiveAnswer
    <2>2. /\ spc = "poll" /\ UNCHANGED cpc /\ request.actions \in Seq(Action)
          /\ received = <<>>
      BY <1>0, <1>2, <2>1 DEF ReceiveAnswer, clientVars, LogInvariant, ServerLog
    <2>3. received' = request.actions
      BY <2>1, <2>2
    <2>4. \A r \in requests : r.from = turn
      BY <2>2 DEF TurnInvariant, Awaited
    <2>5. requests' = {}
      BY <2>1, <2>4 DEF RecvAndAck, LockStep
    <2>6. /\ Len(log[turn]) = Len(log[Server]) + 1
          /\ log[turn][Len(log[turn])] = TurnOf(turn, received')
          /\ Strict => Legal(Server, turn, received')
      BY <1>0, <2>1, <2>3, <2>4 DEF StateInvariant, RequestInvariant
    <2>7. spc' = "end_turn" /\ Apply(Server, turn, received')
      BY <2>1, <2>6 DEF Accepts
    <2>8. ASSUME NEW c \in Client, Len(log[c]) > Len(log[Server])
          PROVE  log[c][Len(log[Server]) + 1] = TurnOf(turn, received')
      <3>1. c = turn
        BY <2>2, <2>8, AheadOfServer DEF LogInvariant, ServerLog
      <3> QED
        BY <2>6, <3>1
    <2>9. received' \in Seq(Action) /\ spc' # "fatal" /\ cpc' = cpc
      BY <2>2, <2>3, <2>7
    <2> QED
      BY <1>0, <2>5, <2>6, <2>7, <2>8, <2>9, StateAppend
  <1>3. CASE TimeoutAnswer
    <2>1. /\ requests = {} /\ requests' = {} /\ spc = "poll" /\ spc' # "fatal"
          /\ MissesDeadline(turn) /\ Apply(Server, turn, <<>>)
          /\ nbTimeout'[turn] = nbTimeout[turn] + 1
          /\ UNCHANGED cpc
      BY <1>0, <1>3 DEF TimeoutAnswer, Poll, socketVars, clientVars
    <2>2. Gone(turn)
      <3>1. nbTimeout'[turn] # 0
        BY <1>0, <2>1
      <3>2. turn \notin Slow
        BY <3>1 DEF Punctual
      <3> QED
        BY <2>1, <3>2 DEF MissesDeadline
    <2>3. ASSUME NEW c \in Client, cpc[c] # "dead", Len(log[c]) > Len(log[Server])
          PROVE  FALSE
      <3>1. c = turn /\ Ahead(c)
        BY <2>1, <2>3, AheadOfServer DEF LogInvariant, ServerLog
      <3>2. cpc[c] = "done"
        BY <1>a, <2>2, <2>3, <3>1 DEF Gone, NoSyncError
      <3> QED
        BY <3>1, <3>2 DEF LogInvariant, ClientLog
    <2> QED
      BY <1>0, <1>b, <2>1, <2>3, StateAppend
  <1>4. CASE ~BeginTurn /\ ~ReceiveAnswer /\ ~TimeoutAnswer
    <2>1. UNCHANGED <<log, cpc>> /\ spc' # "fatal" /\ requests' \subseteq requests
      BY <1>4 DEF ServerStep, StartMatch, EndTurn, BeginWatch, ReceiveWatch,
         EndRound, NextTurn, RecvAndAck, clientVars, gameVars, socketVars
    <2> QED
      BY <1>a, <2>1, StateStutter DEF NoSyncError
  <1> QED
    BY <1>1, <1>2, <1>3, <1>4

\* A step that leaves the log of the server alone leaves its rules alone.
LEMMA LegalServer ==
    ASSUME log'[Server] = log[Server]
    PROVE  \A id, actions : Legal(Server, id, actions)' <=> Legal(Server, id, actions)
  BY DEF Legal, FreeCell, Played

\* A client appends the turn that the server has applied at this place, if any.
LEMMA StateClientAppend ==
    ASSUME TypeOK, StateInvariant, NEW c \in Client, NEW id \in Player,
           NEW actions \in Seq(Action), Apply(c, id, actions),
           cpc[c] # "dead", cpc'[c] # "fatal", UNCHANGED spc,
           \A d \in Client \ {c} : UNCHANGED cpc[d],
           Len(log[c]) < Len(log[Server]) =>
               log[Server][Len(log[c]) + 1] = TurnOf(id, actions),
           RequestInvariant'
    PROVE  StateInvariant'
  <1>0. /\ c \in Proc /\ Server \in Proc \ {c} /\ \A d \in Client : d \in Proc
        /\ Len(log[Server]) \in Nat /\ Len(log[c]) \in Nat
    BY LogTypes, ClientFacts DEF Proc
  <1>1. /\ Len(log'[c]) = Len(log[c]) + 1
        /\ \A i \in 1 .. Len(log[c]) : log'[c][i] = log[c][i]
        /\ log'[c][Len(log[c]) + 1] = TurnOf(id, actions)
        /\ \A q \in Proc \ {c} : log'[q] = log[q]
    BY <1>0, ApplyFacts
  <1>2. SamePrefix(c)'
    <2> SUFFICES ASSUME NEW i \in 1 .. Shorter(log'[c], log'[Server])
                 PROVE  log'[c][i] = log'[Server][i]
      BY DEF SamePrefix
    <2>1. /\ log'[Server] = log[Server]
          /\ i \in 1 .. Len(log[c]) + 1 /\ i <= Len(log[Server])
      BY <1>0, <1>1 DEF Shorter
    <2>2. CASE i = Len(log[c]) + 1
      BY <1>0, <1>1, <2>1, <2>2
    <2>3. CASE i <= Len(log[c])
      <3>1. i \in 1 .. Shorter(log[c], log[Server])
        BY <1>0, <2>1, <2>3 DEF Shorter
      <3>2. log[c][i] = log[Server][i]
        BY <3>1 DEF StateInvariant, SamePrefix
      <3> QED
        BY <1>0, <1>1, <2>1, <2>3, <3>2
    <2> QED
      BY <1>0, <2>1, <2>2, <2>3
  <1>3. ASSUME NEW d \in Client \ {c}, cpc'[d] # "dead" PROVE SamePrefix(d)'
    <2>1. log'[d] = log[d] /\ log'[Server] = log[Server] /\ SamePrefix(d)
      BY <1>0, <1>1, <1>3 DEF StateInvariant
    <2> QED
      BY <2>1 DEF SamePrefix
  <1>4. Strict => LegalTurns(log'[Server])
    BY <1>0, <1>1 DEF StateInvariant
  <1>5. NoSyncError'
    BY DEF StateInvariant, NoSyncError
  <1> QED
    BY <1>2, <1>3, <1>4, <1>5 DEF StateInvariant

\* What a client pulls is the turn the server has applied at this place: the
\* game accepts it.
LEMMA StatePullActions ==
    ASSUME StreamInvariant, LogInvariant, StateInvariant, NEW c \in Client,
           Pull(c), cpc[c] = "actions"
    PROVE  /\ Len(log[c]) < Len(log[Server])
           /\ log[Server][Len(log[c]) + 1] = TurnOf(playing[c], NextMessage(c).actions)
           /\ playing[c] \in Player /\ NextMessage(c).actions \in Seq(Action)
           /\ Accepts(c, playing[c], NextMessage(c).actions)
  <1>0. /\ Len(log[c]) \in Nat /\ Len(log[Server]) \in Nat
        /\ published \in Seq(Message) /\ Len(published) \in Nat /\ cursor[c] \in Nat
        /\ ClientLog(c) /\ TypeOK
        /\ cursor'[c] = cursor[c] + 1 /\ cursor[c] + 1 \in 1 .. Len(published)
    BY LogTypes, PullFacts DEF StreamInvariant, LogInvariant
  <1>1. Announces(cursor[c]) /\ playing[c] \in Player
    BY DEF StreamInvariant, ClientInStream
  <1>2. NextMessage(c).type = "actions" /\ NextMessage(c).actions \in Seq(Action)
    BY <1>1, PullFacts, MessageFacts
  <1>3. /\ Turns(cursor[c]) \in Nat /\ Turns(Len(published)) \in Nat
        /\ Turns(cursor[c] + 1) = Turns(cursor[c]) + 1
        /\ Turns(cursor[c] + 1) <= Turns(Len(published))
    <2>1. published[cursor[c] + 1].type = "actions"
      BY <1>2 DEF NextMessage
    <2>2. Turns(cursor[c] + 1) = Turns(cursor[c]) + 1
      BY <1>0, <2>1, TurnsStep
    <2>3. cursor[c] + 1 \in Nat /\ cursor[c] + 1 <= Len(published)
      BY <1>0
    <2> QED
      BY <1>0, <2>2, <2>3, TurnsFacts
  <1>4. Len(log[c]) = Turns(cursor[c]) /\ playing[c] = published[cursor[c]].id
    BY <1>0, <1>3 DEF ClientLog, Ahead
  <1>5. Len(log[c]) < Len(log[Server])
    BY <1>0, <1>3, <1>4 DEF LogInvariant, ServerLog
  <1>6. log[Server][Len(log[c]) + 1] = TurnOf(playing[c], NextMessage(c).actions)
    <2>1. cursor[c] + 1 \in DOMAIN published /\ published[cursor[c] + 1].type = "actions"
      BY <1>0, <1>2 DEF NextMessage
    <2>2. log[Server][Turns(cursor[c] + 1)] =
              TurnOf(published[cursor[c]].id, published[cursor[c] + 1].actions)
      BY <1>0, <2>1, TurnInLog
    <2> QED
      BY <1>3, <1>4, <2>2 DEF NextMessage
  <1>7. ASSUME Strict PROVE Legal(c, playing[c], NextMessage(c).actions)
    <2>1. LegalTurns(log[Server]) /\ SamePrefix(c)
      BY <1>7 DEF StateInvariant
    <2> QED
      BY <1>0, <1>5, <1>6, <2>1, LegalNext, TurnOfFields
  <1> QED
    BY <1>1, <1>2, <1>5, <1>6, <1>7 DEF Accepts

\* A player that plays knows all that the server knows: what it may do, the
\* server may apply.
LEMMA StatePlays ==
    ASSUME StreamInvariant, LogInvariant, TurnInvariant, StateInvariant,
           NEW c \in Player, cpc[c] = "my_turn", NEW actions \in ChampionActions(c)
    PROVE  Len(log[c]) = Len(log[Server]) /\ Legal(Server, c, actions)
  <1>0. /\ c \in Client /\ c \notin Spectator /\ TypeOK /\ c \in Proc /\ Server \in Proc
        /\ Len(log[c]) \in Nat /\ Len(log[Server]) \in Nat /\ cursor[c] \in Nat
    BY LogTypes, ClientFacts DEF StreamInvariant, Proc
  <1>1. Awaited(c) /\ cursor[c] = Len(published)
    BY <1>0 DEF TurnInvariant
  <1>2. spc = "poll"
    BY <1>0, <1>1 DEF Awaited, StreamInvariant, ServerInStream
  <1>3. Turns(cursor[c]) \in Nat
    BY <1>0, TurnsFacts
  <1>4. Len(log[c]) = Turns(cursor[c]) /\ Len(log[Server]) = Turns(cursor[c])
    BY <1>0, <1>1, <1>2, <1>3 DEF LogInvariant, ServerLog, ClientLog, Ahead
  <1>5. SamePrefix(c)
    BY <1>0 DEF StateInvariant
  <1>6. \A i \in 1 .. Len(log[Server]) : log[c][i] = log[Server][i]
    BY <1>4, <1>5 DEF SamePrefix, Shorter
  <1>7. \A cell \in Cell : cell \in FreeCell(c) <=> cell \in FreeCell(Server)
    BY <1>0, <1>4, <1>6, FreeCells
  <1>8. FreeCell(c) \subseteq Cell
    BY DEF FreeCell
  <1>9. Legal(Server, c, actions)
    <2>1. CASE actions = <<>>
      BY <2>1 DEF Legal
    <2>2. CASE actions # <<>>
      <3>1. PICK cell \in FreeCell(c) : actions = <<[player |-> c, cell |-> cell]>>
        BY <2>2 DEF ChampionActions
      <3>2. cell \in FreeCell(Server)
        BY <1>7, <1>8
      <3>3. DOMAIN actions = {1} /\ actions[1] = [player |-> c, cell |-> cell]
        BY <3>1
      <3> QED
        BY <3>2, <3>3 DEF Legal
    <2> QED
      BY <2>1, <2>2
  <1> QED
    BY <1>4, <1>9

LEMMA StateClient ==
    ASSUME StreamInvariant, LockStep, LogInvariant, TurnInvariant,
           StateInvariant, NEW c \in Client, ClientStep(c) \/ Die(c)
    PROVE  StateInvariant'
  <1>0. /\ TypeOK /\ c \in Proc /\ Server \in Proc \ {c} /\ NoSyncError
        /\ requests \subseteq [from : Client, actions : Seq(Action)]
        /\ cpc \in [Client -> {"start", "await", "my_turn", "ack", "own_actions",
                               "actions", "done", "dead", "fatal"}]
    BY ClientFacts DEF StreamInvariant, TypeOK, Proc, StateInvariant
  <1>1. ASSUME cpc[c] = "actions", Pull(c),
               Accepts(c, playing[c], NextMessage(c).actions) =>
                   Apply(c, playing[c], NextMessage(c).actions) /\ cpc'[c] # "fatal",
               UNCHANGED <<requests, spc>>, \A d \in Client \ {c} : UNCHANGED cpc[d]
        PROVE  StateInvariant'
    <2>1. /\ log[Server][Len(log[c]) + 1] = TurnOf(playing[c], NextMessage(c).actions)
          /\ playing[c] \in Player /\ NextMessage(c).actions \in Seq(Action)
          /\ Apply(c, playing[c], NextMessage(c).actions) /\ cpc'[c] # "fatal"
      BY <1>1, StatePullActions
    <2>2. log'[Server] = log[Server] /\ \A d \in Client \ {c} : log'[d] = log[d]
      BY <1>0, <2>1, ApplyFacts DEF Proc
    <2>3. c \notin {r.from : r \in requests}
      BY <1>1 DEF LockStep
    <2>4. \A r \in requests : r.from \in Client \ {c}
      BY <1>0, <2>3
    <2>5. RequestInvariant'
      BY <1>1, <2>2, <2>4, LegalServer DEF StateInvariant, RequestInvariant
    <2> QED
      BY <1>0, <1>1, <2>1, <2>5, StateClientAppend
  <1>2. CASE PlayerPullActions(c)
    <2>1. Accepts(c, playing[c], NextMessage(c).actions) =>
              Apply(c, playing[c], NextMessage(c).actions) /\ cpc'[c] # "fatal"
      BY <1>0, <1>2 DEF PlayerPullActions, PlayerEndTurn
    <2>2. /\ cpc[c] = "actions" /\ Pull(c) /\ UNCHANGED <<requests, spc>>
          /\ \A d \in Client \ {c} : UNCHANGED cpc[d]
      BY <1>0, <1>2 DEF PlayerPullActions, PlayerEndTurn, serverVars
    <2> QED
      BY <1>1, <2>1, <2>2
  <1>3. CASE SpectatorPullActions(c)
    <2>1. Accepts(c, playing[c], NextMessage(c).actions) =>
              Apply(c, playing[c], NextMessage(c).actions) /\ cpc'[c] # "fatal"
      BY <1>0, <1>3 DEF SpectatorPullActions
    <2>2. /\ cpc[c] = "actions" /\ Pull(c) /\ UNCHANGED <<requests, spc>>
          /\ \A d \in Client \ {c} : UNCHANGED cpc[d]
      BY <1>0, <1>3 DEF SpectatorPullActions, serverVars
    <2> QED
      BY <1>1, <2>1, <2>2
  <1>4. CASE Answer(c) /\ c \in Player
    <2>1. PICK actions \in ChampionActions(c) : SendActions(c, actions) /\ Apply(c, c, actions)
      BY <1>4 DEF Answer
    <2>2. /\ cpc[c] = "my_turn" /\ cpc'[c] = "ack" /\ UNCHANGED spc
          /\ \A d \in Client \ {c} : UNCHANGED cpc[d]
      BY <1>0, <1>4 DEF Answer, serverVars
    <2>3. actions \in Seq(Action)
      BY ChampionActionsType
    <2>4. /\ Len(log'[c]) = Len(log[c]) + 1
          /\ log'[c][Len(log[c]) + 1] = TurnOf(c, actions)
          /\ log'[Server] = log[Server] /\ \A d \in Client \ {c} : log'[d] = log[d]
      BY <1>0, <1>4, <2>1, <2>3, ApplyFacts DEF Proc
    <2>5. Len(log[c]) = Len(log[Server]) /\ Legal(Server, c, actions)
          /\ Len(log[c]) \in Nat
      BY <1>0, <1>4, <2>2, StatePlays, LogTypes
    <2>6. \A r \in requests : r.from \in Client \ {c}
      BY <1>0, <2>2 DEF LockStep
    <2>7. ASSUME NEW r \in requests', r.from \in Player
          PROVE  /\ Len(log'[r.from]) = Len(log'[Server]) + 1
                 /\ log'[r.from][Len(log'[r.from])] = TurnOf(r.from, r.actions)
                 /\ Strict => Legal(Server, r.from, r.actions)'
      <3>1. CASE r \in requests
        BY <2>4, <2>6, <2>7, <3>1, LegalServer DEF StateInvariant, RequestInvariant
      <3>2. CASE r = [from |-> c, actions |-> actions]
        <4>1. Legal(Server, r.from, r.actions)
          BY <2>5, <3>2
        <4>2. Legal(Server, r.from, r.actions)'
          BY <2>4, <4>1, LegalServer
        <4> QED
          BY <2>4, <2>5, <3>2, <4>2
      <3> QED
        BY <2>1, <2>7, <3>1, <3>2 DEF SendActions
    <2>8. RequestInvariant'
      BY <2>7 DEF RequestInvariant
    <2> QED
      BY <1>0, <1>4, <2>1, <2>2, <2>3, <2>5, <2>8, StateClientAppend
  <1>5. CASE Answer(c) /\ c \notin Player
    <2>1. SendActions(c, <<>>) /\ UNCHANGED <<log, spc>>
      BY <1>5 DEF Answer, serverVars
    <2>2. /\ cpc'[c] = "ack" /\ cpc[c] # "dead" /\ \A d \in Client \ {c} : UNCHANGED cpc[d]
      BY <1>0, <1>5 DEF Answer
    <2>3. RequestInvariant'
      BY <1>5, <2>1, LegalServer DEF StateInvariant, RequestInvariant, SendActions
    <2>4. NoSyncError'
      BY <1>0, <2>1, <2>2 DEF NoSyncError
    <2>5. \A d \in Client : cpc'[d] # "dead" => SamePrefix(d)'
      BY <2>1, <2>2 DEF StateInvariant, SamePrefix
    <2> QED
      BY <2>1, <2>3, <2>4, <2>5 DEF StateInvariant
  <1>6. CASE ~PlayerPullActions(c) /\ ~SpectatorPullActions(c) /\ ~Answer(c)
    <2>1. UNCHANGED <<log, spc>> /\ requests' \subseteq requests
      BY <1>6 DEF ClientStep, ClientStart, PullOwnTurn, PullSpectatorTurn,
         PullPlayerTurn, PlayerAck, PullOwnActions, SpectatorAck, Die,
         serverVars, gameVars
    <2>2. cpc'[c] # "fatal" /\ \A d \in Client \ {c} : UNCHANGED cpc[d]
      <3>1. CASE ClientStart(c) \/ PullOwnTurn(c) \/ PullPlayerTurn(c) \/ PlayerAck(c) \/ Die(c)
        BY <1>0, <3>1 DEF ClientStart, PullOwnTurn, PullPlayerTurn, PlayerAck, Die
      <3>2. CASE PullSpectatorTurn(c)
        BY <1>0, <3>2 DEF PullSpectatorTurn
      <3>3. CASE PullOwnActions(c)
        BY <1>0, <3>3 DEF PullOwnActions, PlayerEndTurn
      <3>4. CASE SpectatorAck(c)
        BY <1>0, <3>4 DEF SpectatorAck
      <3> QED
        BY <1>6, <3>1, <3>2, <3>3, <3>4 DEF ClientStep
    <2>3. cpc[c] # "dead"
      BY ClientEffects DEF Gone
    <2>4. NoSyncError'
      BY <1>0, <2>1, <2>2 DEF NoSyncError
    <2> QED
      BY <2>1, <2>2, <2>3, <2>4, StateStutter
  <1> QED
    BY <1>2, <1>3, <1>4, <1>5, <1>6

\* As long as no player has been late, the logs agree, every pending request
\* is one the server may apply, and no process has given up.
THEOREM StateSafety ==
    ASSUME MaxConsecutiveTimeout > 0
    PROVE  Spec => [](Punctual => StateInvariant)
  <1>1. Init => StateInvariant
    <2> SUFFICES ASSUME Init PROVE StateInvariant
      OBVIOUS
    <2>1. /\ requests = {} /\ spc = "start" /\ Server \in Proc
          /\ \A p \in Proc : log[p] = <<>>
          /\ \A c \in Client : cpc[c] = "start" /\ c \in Proc
      BY DEF Init, SocketsInit, Proc
    <2>2. LegalTurns(log[Server])
      BY <2>1 DEF LegalTurns
    <2>3. log[Server] = <<>> /\ \A c \in Client : log[c] = <<>>
      BY <2>1
    <2>4. ASSUME NEW c \in Client PROVE SamePrefix(c)
      <3>1. Len(log[c]) = 0 /\ Len(log[Server]) = 0
        BY <2>3
      <3> QED
        BY <3>1 DEF SamePrefix, Shorter
    <2> QED
      BY <2>1, <2>2, <2>4 DEF StateInvariant, NoSyncError, RequestInvariant
  <1>2. /\ StreamInvariant /\ LockStep /\ LogInvariant /\ AnswerInvariant
        /\ Punctual => TurnInvariant
        /\ Punctual => StateInvariant
        /\ [Next]_vars
        => (Punctual => StateInvariant)'
    <2> SUFFICES ASSUME StreamInvariant, LockStep, LogInvariant, AnswerInvariant,
                        Punctual => TurnInvariant, Punctual => StateInvariant,
                        [Next]_vars, Punctual'
                 PROVE  StateInvariant'
      OBVIOUS
    <2>0. TurnInvariant /\ StateInvariant
      BY PunctualBefore
    <2>1. CASE ServerStep
      BY <2>0, <2>1, StateServer
    <2>2. CASE \E c \in Client : ClientStep(c) \/ Die(c)
      BY <2>0, <2>2, StateClient
    <2>3. CASE UNCHANGED vars
      BY <2>0, <2>3, StateStutter
      DEF vars, socketVars, serverVars, clientVars, gameVars, StateInvariant, NoSyncError
    <2> QED
      BY <2>1, <2>2, <2>3 DEF Next, Terminated
  <1> QED
    BY <1>1, <1>2, StreamSafety, OneRequestAtATime, LogSafety, AnswerSafety,
       TurnSafety, PTL DEF Spec

LEMMA StatesAgree ==
    StreamInvariant /\ LogInvariant /\ AnswerInvariant /\ StateInvariant
        => GameStateAgrees
  <1> SUFFICES ASSUME StreamInvariant, LogInvariant, AnswerInvariant, StateInvariant,
                      NEW c \in Client, cpc[c] # "dead"
               PROVE  /\ SamePrefix(c)
                      /\ Len(log[c]) > Len(log[Server]) => cpc[c] = "ack"
    BY DEF GameStateAgrees, SamePrefix
  <1>1. SamePrefix(c)
    BY DEF StateInvariant
  <1>2. ASSUME Len(log[c]) > Len(log[Server]) PROVE cpc[c] = "ack"
    <2>1. /\ cursor[c] = Len(published) /\ Announces(Len(published))
          /\ Ahead(c) /\ spc # "end_turn"
      BY <1>2, AheadOfServer
    <2>2. cpc[c] \in {"ack", "own_actions"}
      BY <2>1 DEF StateInvariant, NoSyncError, LogInvariant, ClientLog
    <2>3. spc = "poll"
      <3>1. spc # "fatal" /\ published # <<>>
        BY <2>1 DEF StateInvariant, NoSyncError, Announces, StreamInvariant, TypeOK
      <3> QED
        BY <2>1, <3>1 DEF StreamInvariant, ServerInStream, TypeOK
    <2>4. cpc[c] = "own_actions" => cursor[c] < Len(published)
      BY <2>3 DEF AnswerInvariant
    <2>5. cursor[c] \in Nat
      BY LogTypes DEF StreamInvariant
    <2> QED
      BY <2>1, <2>2, <2>4, <2>5
  <1> QED
    BY <1>1, <1>2

\* "Make sure the gamestate is always consistent across the clients and the
\* server": it is, whatever dies, as long as no player has missed a deadline
\* and still answered.
THEOREM PunctualStatesAgree ==
    ASSUME MaxConsecutiveTimeout > 0
    PROVE  Spec => [](Punctual => GameStateAgrees /\ NoSyncError)
  <1>1. /\ StreamInvariant /\ LogInvariant /\ AnswerInvariant
        /\ Punctual => StateInvariant
        => (Punctual => GameStateAgrees /\ NoSyncError)
    BY StatesAgree DEF StateInvariant
  <1> QED
    BY <1>1, StreamSafety, LogSafety, AnswerSafety, StateSafety, PTL

\* When no player can be late: the game state of every live client is the
\* server's, but for the turn it is playing.
THEOREM GameStatesAgree ==
    ASSUME MaxConsecutiveTimeout > 0, Slow = {}
    PROVE  Spec => []GameStateAgrees
  <1>1. Punctual
    BY DEF Punctual
  <1>2. (Punctual => GameStateAgrees /\ NoSyncError) => GameStateAgrees
    BY <1>1
  <1> QED
    BY <1>2, PunctualStatesAgree, PTL

\* ... and neither the server nor a client ever aborts on an action that its
\* copy of the game refuses.
THEOREM NoProcessAborts ==
    ASSUME MaxConsecutiveTimeout > 0, Slow = {}
    PROVE  Spec => []NoSyncError
  <1>1. Punctual
    BY DEF Punctual
  <1>2. (Punctual => GameStateAgrees /\ NoSyncError) => NoSyncError
    BY <1>1
  <1> QED
    BY <1>2, PunctualStatesAgree, PTL

-----------------------------------------------------------------------------
(* The players play in turn. *)

\* The server's game state has a turn of each player, in order, and it is the
\* turn of the next one.
RoundRobin ==
    LET due == Len(log[Server]) % NbPlayers IN
    /\ spc = "start" => due = turn /\ turn = 0
    /\ spc \in {"turn", "poll"} => due = turn
    /\ spc \in {"end_turn", "watch", "watching"} =>
            due = IF turn < NbPlayers - 1 THEN turn + 1 ELSE 0
    /\ spc = "end_round" => due = 0

LEMMA DivMod ==
    ASSUME NEW n \in Nat, NEW k \in Nat \ {0}
    PROVE  \E q \in Nat : \E r \in 0 .. k - 1 : n = k * q + r /\ r = n % k
  OBVIOUS

LEMMA ModOf ==
    ASSUME NEW k \in Nat \ {0}, NEW q \in Nat, NEW r \in 0 .. k - 1
    PROVE  (k * q + r) % k = r
  OBVIOUS

\* Counting one turn more.
LEMMA ModSucc ==
    ASSUME NEW n \in Nat, NEW k \in Nat \ {0}
    PROVE  (n + 1) % k = IF n % k < k - 1 THEN (n % k) + 1 ELSE 0
  <1>1. PICK q \in Nat, r \in 0 .. k - 1 : n = k * q + r /\ r = n % k
    BY DivMod
  <1>2. CASE r < k - 1
    <2>1. r + 1 \in 0 .. k - 1 /\ n + 1 = k * q + (r + 1)
      BY <1>1, <1>2
    <2>2. (k * q + (r + 1)) % k = r + 1
      BY <2>1, ModOf
    <2> QED
      BY <1>1, <1>2, <2>1, <2>2
  <1>3. CASE r = k - 1
    <2>1. n + 1 = k * (q + 1) + 0 /\ q + 1 \in Nat /\ 0 \in 0 .. k - 1
      BY <1>1, <1>3
    <2>2. (k * (q + 1) + 0) % k = 0
      BY <2>1, ModOf
    <2> QED
      BY <1>1, <1>3, <2>1, <2>2
  <1> QED
    BY <1>1, <1>2, <1>3

\* One turn more for the server: the next player is due.
LEMMA DueNext ==
    ASSUME TypeOK, NEW actions \in Seq(Action), Apply(Server, turn, actions),
           Len(log[Server]) % NbPlayers = turn
    PROVE  Len(log'[Server]) % NbPlayers = IF turn < NbPlayers - 1 THEN turn + 1 ELSE 0
  <1>1. turn \in Player /\ Server \in Proc /\ Len(log[Server]) \in Nat
    BY LogTypes DEF TypeOK, Proc
  <1>2. Len(log'[Server]) = Len(log[Server]) + 1
    BY <1>1, ApplyFacts
  <1>3. (Len(log[Server]) + 1) % NbPlayers =
            IF Len(log[Server]) % NbPlayers < NbPlayers - 1
            THEN (Len(log[Server]) % NbPlayers) + 1 ELSE 0
    BY <1>1, PlayersAssumption, ModSucc
  <1> QED
    BY <1>2, <1>3

LEMMA RoundRobinServer ==
    ASSUME TypeOK, RoundRobin, ServerStep, received' \in Seq(Action)
    PROVE  RoundRobin'
  <1>0. turn \in Player /\ <<>> \in Seq(Action) /\ NbPlayers \in Nat \ {0}
    BY PlayersAssumption DEF TypeOK
  <1>1. CASE StartMatch
    BY <1>1 DEF StartMatch, RoundRobin
  <1>2. CASE BeginTurn
    <2>1. spc = "turn" /\ Len(log[Server]) % NbPlayers = turn /\ turn' = turn
      BY <1>2 DEF BeginTurn, RoundRobin
    <2>2. \/ spc' = "end_turn" /\ Apply(Server, turn, <<>>)
          \/ spc' = "poll" /\ UNCHANGED log
      BY <1>2 DEF BeginTurn
    <2> QED
      BY <1>0, <2>1, <2>2, DueNext DEF RoundRobin
  <1>3. CASE ReceiveAnswer
    <2>1. spc = "poll" /\ Len(log[Server]) % NbPlayers = turn /\ turn' = turn
      BY <1>3 DEF ReceiveAnswer, RoundRobin
    <2>2. \/ spc' = "end_turn" /\ Apply(Server, turn, received')
          \/ spc' = "fatal" /\ UNCHANGED log
      BY <1>3 DEF ReceiveAnswer
    <2> QED
      BY <2>1, <2>2, DueNext DEF RoundRobin
  <1>4. CASE TimeoutAnswer
    <2>1. /\ spc = "poll" /\ Len(log[Server]) % NbPlayers = turn /\ turn' = turn
          /\ spc' = "end_turn" /\ Apply(Server, turn, <<>>)
      BY <1>4 DEF TimeoutAnswer, RoundRobin
    <2> QED
      BY <1>0, <2>1, DueNext DEF RoundRobin
  <1>5. CASE EndTurn
    BY <1>0, <1>5 DEF EndTurn, NextTurn, RoundRobin, gameVars, Player
  <1>6. CASE BeginWatch
    BY <1>6 DEF BeginWatch, RoundRobin, gameVars
  <1>7. CASE ReceiveWatch
    BY <1>0, <1>7 DEF ReceiveWatch, NextTurn, RoundRobin, gameVars, Player
  <1>8. CASE EndRound
    BY <1>8 DEF EndRound, RoundRobin
  <1> QED
    BY <1>1, <1>2, <1>3, <1>4, <1>5, <1>6, <1>7, <1>8 DEF ServerStep

LEMMA LogServerAlone ==
    ASSUME TypeOK, NEW c \in Client, ClientStep(c) \/ Die(c)
    PROVE  log'[Server] = log[Server] /\ UNCHANGED serverVars
  <1>1. \/ UNCHANGED log
        \/ \E id, actions : Apply(c, id, actions)
    BY DEF ClientStep, ClientStart, PullOwnTurn, PullSpectatorTurn,
       PullPlayerTurn, Answer, PlayerAck, PullOwnActions, PlayerPullActions,
       SpectatorPullActions, SpectatorAck, Die, gameVars
  <1>2. Server # c
    BY ClientFacts
  <1>3. UNCHANGED serverVars
    BY DEF ClientStep, ClientStart, PullOwnTurn, PullSpectatorTurn,
       PullPlayerTurn, Answer, PlayerAck, PullOwnActions, PlayerPullActions,
       SpectatorPullActions, SpectatorAck, Die
  <1>4. Server \in Proc /\ log \in [Proc -> Seq(Turn)]
    BY DEF TypeOK, Proc
  <1> QED
    BY <1>1, <1>2, <1>3, <1>4 DEF Apply

\* The turns of the match are those of player 0, player 1 and so on, again
\* and again: no delay, no death and no late answer makes a player play out of
\* turn, twice, or not at all.
THEOREM TurnsInOrder == Spec => []RoundRobin
  <1>1. Init => RoundRobin
    <2> SUFFICES ASSUME Init PROVE RoundRobin
      OBVIOUS
    <2>1. spc = "start" /\ turn = 0 /\ log[Server] = <<>>
      BY DEF Init, Proc
    <2>2. 0 % NbPlayers = 0
      <3>1. (NbPlayers * 0 + 0) % NbPlayers = 0
        BY PlayersAssumption, ModOf
      <3> QED
        BY <3>1, PlayersAssumption
    <2> QED
      BY <2>1, <2>2 DEF RoundRobin
  <1>2. StreamInvariant /\ StreamInvariant' /\ RoundRobin /\ [Next]_vars => RoundRobin'
    <2> SUFFICES ASSUME StreamInvariant, StreamInvariant', RoundRobin, [Next]_vars
                 PROVE  RoundRobin'
      OBVIOUS
    <2>0. TypeOK /\ received' \in Seq(Action)
      BY DEF StreamInvariant, TypeOK
    <2>1. CASE ServerStep
      BY <2>0, <2>1, RoundRobinServer
    <2>2. CASE \E c \in Client : ClientStep(c) \/ Die(c)
      <3>1. log'[Server] = log[Server] /\ UNCHANGED serverVars
        BY <2>0, <2>2, LogServerAlone
      <3> QED
        BY <3>1 DEF RoundRobin, serverVars
    <2>3. CASE UNCHANGED vars
      BY <2>3 DEF vars, serverVars, gameVars, RoundRobin
    <2> QED
      BY <2>1, <2>2, <2>3 DEF Next, Terminated
  <1> QED
    BY <1>1, <1>2, StreamSafety, PTL DEF Spec

-----------------------------------------------------------------------------
(* The match that the processes implement. *)

\* What a client shows of the history: nothing once it is dead.
View(c) == IF c \in Dead THEN <<>> ELSE Known(c)

LEMMA PrefixFacts ==
    ASSUME NEW s \in Seq(Turn), NEW t \in Seq(Turn)
    PROVE  /\ Len(s) <= Len(t) => SubSeq(s, 1, Shorter(s, t)) = s
           /\ Len(s) > Len(t) /\ (\A i \in 1 .. Len(t) : s[i] = t[i]) =>
                  SubSeq(s, 1, Shorter(s, t)) = t
  <1>1. Len(s) \in Nat /\ Len(t) \in Nat
    OBVIOUS
  <1>2. CASE Len(s) <= Len(t)
    <2>1. Shorter(s, t) = Len(s)
      BY <1>1, <1>2 DEF Shorter
    <2>2. SubSeq(s, 1, Len(s)) = s
      BY SubSeqFull
    <2> QED
      BY <1>1, <1>2, <2>1, <2>2
  <1>3. ASSUME Len(s) > Len(t), \A i \in 1 .. Len(t) : s[i] = t[i]
        PROVE  SubSeq(s, 1, Shorter(s, t)) = t
    <2>1. Shorter(s, t) = Len(t)
      BY <1>1, <1>3 DEF Shorter
    <2>2. \A i \in 1 .. Len(t) : s[i] \in Turn
      BY <1>1, <1>3
    <2>3. /\ SubSeq(s, 1, Len(t)) \in Seq(Turn)
          /\ Len(SubSeq(s, 1, Len(t))) = IF 1 <= Len(t) THEN Len(t) - 1 + 1 ELSE 0
          /\ \A i \in 1 .. Len(t) - 1 + 1 : SubSeq(s, 1, Len(t))[i] = s[1 + i - 1]
      BY <1>1, <2>2, SubSeqProperties
    <2>4. Len(SubSeq(s, 1, Len(t))) = Len(t)
      BY <1>1, <2>3
    <2>5. \A i \in 1 .. Len(t) : SubSeq(s, 1, Len(t))[i] = t[i]
      <3> SUFFICES ASSUME NEW i \in 1 .. Len(t) PROVE SubSeq(s, 1, Len(t))[i] = t[i]
        OBVIOUS
      <3>1. i \in 1 .. Len(t) - 1 + 1 /\ 1 + i - 1 = i
        BY <1>1
      <3> QED
        BY <1>3, <2>3, <3>1
    <2>6. SubSeq(s, 1, Len(t)) = t
      BY <2>3, <2>4, <2>5, SeqEqual
    <2> QED
      BY <2>1, <2>6
  <1> QED
    BY <1>1, <1>2, <1>3

\* What a live client knows is its log, or the server's if it has just played.
LEMMA KnownFacts ==
    ASSUME TypeOK, StateInvariant, NEW c \in Client, cpc[c] # "dead"
    PROVE  /\ Len(log[c]) <= Len(log[Server]) => Known(c) = log[c]
           /\ Len(log[c]) > Len(log[Server]) => Known(c) = log[Server]
  <1>1. log[c] \in Seq(Turn) /\ log[Server] \in Seq(Turn)
    BY LogTypes
  <1>2. Len(log[c]) \in Nat /\ Len(log[Server]) \in Nat
    BY LogTypes
  <1>3. Len(log[c]) > Len(log[Server]) =>
            \A i \in 1 .. Len(log[Server]) : log[c][i] = log[Server][i]
    BY <1>2 DEF StateInvariant, SamePrefix, Shorter
  <1> QED
    BY <1>1, <1>3, PrefixFacts DEF Known

\* A step that changes neither the history nor what a client knows of it.
LEMMA MatchStutter ==
    ASSUME log'[Server] = log[Server], UNCHANGED Dead,
           \A c \in Client : View(c)' = View(c)
    PROVE  UNCHANGED M!vars
  BY DEF M!vars, View

\* A turn of one action at most.
LEMMA ShortTurns ==
    ASSUME NEW actions \in Seq(Action), Len(actions) <= 1
    PROVE  actions \in {<<>>} \union {<<a>> : a \in Action}
  <1>1. CASE actions = <<>>
    BY <1>1
  <1>2. CASE actions # <<>>
    <2>1. Len(actions) \in Nat /\ Len(actions) # 0
      BY <1>2
    <2>2. Len(actions) = 1
      <3>1. PICK n \in Nat : n = Len(actions)
        BY <2>1
      <3>2. n <= 1
        BY <3>1
      <3>3. n # 0
        BY <2>1, <3>1
      <3>4. n = 1
        BY <3>2, <3>3
      <3> QED
        BY <3>1, <3>4
    <2>3. actions[1] \in Action
      BY <2>2
    <2>4. actions = <<actions[1]>>
      BY <2>2
    <2> QED
      BY <2>3, <2>4
  <1> QED
    BY <1>1, <1>2

\* The server applies the turn that is due.
LEMMA MatchDecide ==
    ASSUME StreamInvariant, StreamInvariant', StateInvariant, StateInvariant',
           UNCHANGED cpc, NEW actions \in Seq(Action), Len(actions) <= 1,
           Len(log[Server]) % NbPlayers = turn,
           Apply(Server, turn, actions),
           \A c \in Client : cpc[c] # "dead" /\ Len(log[c]) > Len(log[Server]) =>
               c = turn /\ Len(log[c]) = Len(log[Server]) + 1
    PROVE  M!Next
  <1>0. /\ TypeOK /\ TypeOK' /\ turn \in Player /\ turn \in Client
        /\ Server \in Proc /\ \A c \in Client : c \in Proc \ {Server}
        /\ Len(log[Server]) \in Nat /\ \A c \in Client : Len(log[c]) \in Nat
    BY LogTypes, ClientFacts DEF StreamInvariant, TypeOK, Proc
  <1>1. /\ Len(log'[Server]) = Len(log[Server]) + 1
        /\ \A c \in Client : log'[c] = log[c]
        /\ log'[Server] = Append(log[Server], TurnOf(turn, actions))
    BY <1>0, ApplyFacts DEF Apply, TypeOK
  <1>2. actions \in {<<>>} \union {<<a>> : a \in Action}
    BY ShortTurns
  <1>3. Dead' = Dead
    BY DEF Dead
  <1>4. ASSUME NEW c \in Client, c \in Dead \/ Len(log[c]) <= Len(log[Server])
        PROVE  View(c)' = View(c)
    <2>1. CASE c \in Dead
      BY <1>3, <2>1 DEF View
    <2>2. CASE c \notin Dead
      <3>1. cpc[c] # "dead" /\ cpc'[c] # "dead" /\ Len(log[c]) <= Len(log[Server])
        BY <1>4, <2>2 DEF Dead
      <3>2. Known(c) = log[c]
        BY <1>0, <3>1, KnownFacts
      <3>3. Len(log'[c]) <= Len(log'[Server])
        BY <1>0, <1>1, <3>1
      <3>4. Known(c)' = log'[c]
        <4>1. log'[c] \in Seq(Turn) /\ log'[Server] \in Seq(Turn)
          BY <1>0 DEF TypeOK
        <4> QED
          BY <3>3, <4>1, PrefixFacts DEF Known
      <3> QED
        BY <1>1, <1>3, <2>2, <3>2, <3>4 DEF View
    <2> QED
      BY <2>1, <2>2
  <1>5. CASE \A c \in Client : c \in Dead \/ Len(log[c]) <= Len(log[Server])
    <2>1. [c \in Client |-> View(c)]' = [c \in Client |-> View(c)]
      BY <1>4, <1>5
    <2> QED
      BY <1>1, <1>2, <1>3, <2>1 DEF M!Next, M!Decide, M!Due, TurnOf, View
  <1>6. CASE ~(\A c \in Client : c \in Dead \/ Len(log[c]) <= Len(log[Server]))
    <2>1. turn \notin Dead /\ Len(log[turn]) = Len(log[Server]) + 1
      BY <1>0, <1>6 DEF Dead
    <2>2. \A c \in Client : c # turn => c \in Dead \/ Len(log[c]) <= Len(log[Server])
      BY <1>0 DEF Dead
    <2>3. cpc[turn] # "dead" /\ cpc'[turn] # "dead"
      BY <1>0, <2>1 DEF Dead
    <2>4. View(turn) = log[Server]
      BY <1>0, <2>1, <2>3, KnownFacts DEF View
    <2>5. \A c \in Client : c = turn => View(c)' = log'[Server]
      <3> SUFFICES ASSUME NEW c \in Client, c = turn PROVE View(c)' = log'[Server]
        OBVIOUS
      <3>1. log'[c] \in Seq(Turn) /\ log'[Server] \in Seq(Turn)
        BY <1>0 DEF TypeOK
      <3>2. Len(log'[c]) = Len(log'[Server])
        BY <1>1, <2>1
      <3>3. \A i \in 1 .. Len(log'[c]) : log'[c][i] = log'[Server][i]
        <4>1. SamePrefix(c)'
          BY <2>3 DEF StateInvariant
        <4> QED
          BY <3>2, <4>1 DEF SamePrefix, Shorter
      <3>4. log'[c] = log'[Server]
        BY <3>1, <3>2, <3>3, SeqEqual
      <3>5. Len(log'[c]) <= Len(log'[Server])
        BY <3>1, <3>2
      <3>6. Known(c)' = log'[c]
        BY <3>1, <3>5, PrefixFacts DEF Known
      <3> QED
        BY <1>3, <2>1, <3>4, <3>6 DEF View
    <2>6. [c \in Client |-> View(c)]' =
              [[c \in Client |-> View(c)] EXCEPT ![turn] = log'[Server]]
      BY <1>0, <1>4, <2>2, <2>5
    <2>7. [c \in Client |-> View(c)][turn] = log[Server]
      BY <1>0, <2>4
    <2> QED
      BY <1>1, <1>2, <1>3, <2>1, <2>6, <2>7 DEF M!Next, M!Decide, M!Due, TurnOf, View
  <1> QED
    BY <1>5, <1>6

\* A client learns of the next turn.
LEMMA MatchObserve ==
    ASSUME StreamInvariant, StreamInvariant', LogInvariant, StateInvariant,
           StateInvariant', NEW c \in Client, Pull(c), cpc[c] = "actions",
           Apply(c, playing[c], NextMessage(c).actions),
           cpc'[c] # "dead", \A d \in Client \ {c} : UNCHANGED cpc[d]
    PROVE  M!Next
  <1>0. /\ TypeOK /\ TypeOK' /\ c \in Proc /\ Server \in Proc \ {c}
        /\ \A d \in Client : d \in Proc
        /\ log[c] \in Seq(Turn) /\ Len(log[c]) \in Nat /\ Len(log[Server]) \in Nat
    BY LogTypes, ClientFacts DEF StreamInvariant, Proc
  <1>1. /\ Len(log[c]) < Len(log[Server])
        /\ log[Server][Len(log[c]) + 1] = TurnOf(playing[c], NextMessage(c).actions)
        /\ playing[c] \in Player /\ NextMessage(c).actions \in Seq(Action)
    BY StatePullActions
  <1>2. /\ Len(log'[c]) = Len(log[c]) + 1
        /\ log'[c] = Append(log[c], log[Server][Len(log[c]) + 1])
        /\ \A p \in Proc \ {c} : log'[p] = log[p]
    BY <1>0, <1>1, ApplyFacts DEF Apply, TypeOK
  <1>3. Dead' = Dead /\ c \notin Dead
    BY DEF Dead
  <1>4. View(c) = log[c]
    BY <1>0, <1>1, <1>3, KnownFacts DEF View
  <1>5. Known(c)' = log'[c]
    <2>1. log'[c] \in Seq(Turn) /\ log'[Server] \in Seq(Turn)
      BY <1>0 DEF TypeOK
    <2>2. Len(log'[c]) <= Len(log'[Server])
      BY <1>0, <1>1, <1>2
    <2> QED
      BY <2>1, <2>2, PrefixFacts DEF Known
  <1>6. \A d \in Client : d = c => View(d)' = Append(log[c], log[Server][Len(log[c]) + 1])
    BY <1>2, <1>3, <1>5 DEF View
  <1>7. \A d \in Client : d # c => View(d)' = View(d)
    BY <1>0, <1>2, <1>3 DEF View, Known
  <1>8. [d \in Client |-> View(d)]' =
            [[d \in Client |-> View(d)] EXCEPT
                ![c] = Append(log[c], log[Server][Len(log[c]) + 1])]
    BY <1>6, <1>7
  <1>9. [d \in Client |-> View(d)][c] = log[c]
    BY <1>4
  <1>10. log'[Server] = log[Server]
    BY <1>0, <1>2
  <1> QED
    BY <1>1, <1>3, <1>8, <1>9, <1>10 DEF M!Next, M!Observe, View

\* A client that dies has left.
LEMMA MatchLeave ==
    ASSUME StreamInvariant, NEW c \in Client, Die(c)
    PROVE  M!Next
  <1>1. /\ UNCHANGED log /\ cpc[c] # "dead" /\ cpc'[c] = "dead"
        /\ \A d \in Client \ {c} : UNCHANGED cpc[d]
    BY DEF Die, Gone, gameVars, StreamInvariant, TypeOK
  <1>2. c \notin Dead /\ Dead' = Dead \union {c}
    BY <1>1 DEF Dead
  <1>3. \A d \in Client : d # c => View(d)' = View(d)
    BY <1>1, <1>2 DEF View, Known
  <1>4. \A d \in Client : d = c => View(d)' = <<>>
    BY <1>2 DEF View
  <1>5. [d \in Client |-> View(d)]' = [[d \in Client |-> View(d)] EXCEPT ![c] = <<>>]
    BY <1>3, <1>4
  <1> QED
    BY <1>1, <1>2, <1>5 DEF M!Next, M!Leave, View

\* A player that plays tells nobody yet.
LEMMA MatchPlays ==
    ASSUME StreamInvariant, StreamInvariant', LogInvariant, TurnInvariant,
           StateInvariant, NEW c \in Player, Answer(c)
    PROVE  UNCHANGED M!vars
  <1>0. /\ TypeOK /\ TypeOK' /\ c \in Client /\ c \in Proc /\ Server \in Proc \ {c}
        /\ \A d \in Client : d \in Proc
        /\ log[c] \in Seq(Turn) /\ Len(log[c]) \in Nat /\ Len(log[Server]) \in Nat
    BY LogTypes, ClientFacts DEF StreamInvariant, Proc
  <1>1. /\ cpc[c] = "my_turn" /\ cpc'[c] = "ack"
        /\ \A d \in Client \ {c} : UNCHANGED cpc[d]
    BY <1>0 DEF Answer, TypeOK
  <1>2. PICK actions \in ChampionActions(c) : Apply(c, c, actions)
    BY DEF Answer
  <1>3. actions \in Seq(Action)
    BY <1>0, ChampionActionsType
  <1>4. /\ Len(log'[c]) = Len(log[c]) + 1
        /\ \A i \in 1 .. Len(log[c]) : log'[c][i] = log[c][i]
        /\ \A p \in Proc \ {c} : log'[p] = log[p]
    BY <1>0, <1>2, <1>3, ApplyFacts
  <1>5. Len(log[c]) = Len(log[Server])
    BY <1>1, StatePlays
  <1>6. Dead' = Dead /\ c \notin Dead
    BY <1>1 DEF Dead
  <1>7. log[c] = log[Server]
    <2>1. \A i \in 1 .. Len(log[c]) : log[c][i] = log[Server][i]
      BY <1>0, <1>1, <1>5 DEF StateInvariant, SamePrefix, Shorter
    <2>2. log[Server] \in Seq(Turn)
      BY <1>0 DEF TypeOK
    <2> QED
      BY <1>0, <1>5, <2>1, <2>2, SeqEqual
  <1>8. View(c) = log[Server]
    BY <1>0, <1>1, <1>5, <1>6, <1>7, KnownFacts DEF View
  <1>9. Known(c)' = log'[Server]
    <2>1. log'[c] \in Seq(Turn) /\ log'[Server] \in Seq(Turn)
      BY <1>0 DEF TypeOK
    <2>2. /\ Len(log'[c]) > Len(log'[Server])
          /\ \A i \in 1 .. Len(log'[Server]) : log'[c][i] = log'[Server][i]
      BY <1>0, <1>4, <1>5, <1>7
    <2> QED
      BY <2>1, <2>2, PrefixFacts DEF Known
  <1>10. log'[Server] = log[Server]
    BY <1>0, <1>4
  <1>11. ASSUME NEW d \in Client PROVE View(d)' = View(d)
    <2>1. CASE d = c
      BY <1>6, <1>8, <1>9, <1>10, <2>1 DEF View
    <2>2. CASE d # c
      BY <1>0, <1>4, <1>6, <2>2 DEF View, Known
    <2> QED
      BY <2>1, <2>2
  <1> QED
    BY <1>6, <1>10, <1>11, MatchStutter

LEMMA MatchClient ==
    ASSUME StreamInvariant, StreamInvariant', LockStep, LogInvariant,
           TurnInvariant, StateInvariant, StateInvariant', NEW c \in Client,
           ClientStep(c) \/ Die(c)
    PROVE  M!Next \/ UNCHANGED M!vars
  <1>0. /\ TypeOK /\ NoSyncError'
        /\ cpc \in [Client -> {"start", "await", "my_turn", "ack", "own_actions",
                               "actions", "done", "dead", "fatal"}]
    BY DEF StreamInvariant, TypeOK, StateInvariant
  <1>1. CASE PlayerPullActions(c)
    <2>1. Apply(c, playing[c], NextMessage(c).actions) /\ cpc'[c] # "dead"
      BY <1>0, <1>1 DEF PlayerPullActions, PlayerEndTurn, NoSyncError
    <2>2. cpc[c] = "actions" /\ Pull(c) /\ \A d \in Client \ {c} : UNCHANGED cpc[d]
      BY <1>0, <1>1 DEF PlayerPullActions, PlayerEndTurn
    <2> QED
      BY <2>1, <2>2, MatchObserve
  <1>2. CASE SpectatorPullActions(c)
    <2>1. Apply(c, playing[c], NextMessage(c).actions) /\ cpc'[c] # "dead"
      BY <1>0, <1>2 DEF SpectatorPullActions, NoSyncError
    <2>2. cpc[c] = "actions" /\ Pull(c) /\ \A d \in Client \ {c} : UNCHANGED cpc[d]
      BY <1>0, <1>2 DEF SpectatorPullActions
    <2> QED
      BY <2>1, <2>2, MatchObserve
  <1>3. CASE Answer(c) /\ c \in Player
    BY <1>3, MatchPlays
  <1>4. CASE Die(c)
    BY <1>4, MatchLeave
  <1>5. CASE /\ ~PlayerPullActions(c) /\ ~SpectatorPullActions(c) /\ ~Die(c)
             /\ ~(Answer(c) /\ c \in Player)
    <2>1. UNCHANGED log
      BY <1>5 DEF ClientStep, ClientStart, PullOwnTurn, PullSpectatorTurn,
         PullPlayerTurn, Answer, PlayerAck, PullOwnActions, SpectatorAck, gameVars
    <2>2. cpc'[c] # "dead" /\ cpc[c] # "dead" /\ \A d \in Client \ {c} : UNCHANGED cpc[d]
      <3>1. CASE ClientStart(c) \/ PullOwnTurn(c) \/ PullPlayerTurn(c) \/ PlayerAck(c)
        BY <1>0, <3>1 DEF ClientStart, PullOwnTurn, PullPlayerTurn, PlayerAck
      <3>2. CASE PullSpectatorTurn(c) \/ Answer(c)
        BY <1>0, <3>2 DEF PullSpectatorTurn, Answer
      <3>3. CASE PullOwnActions(c)
        BY <1>0, <3>3 DEF PullOwnActions, PlayerEndTurn
      <3>4. CASE SpectatorAck(c)
        BY <1>0, <3>4 DEF SpectatorAck
      <3> QED
        BY <1>5, <3>1, <3>2, <3>3, <3>4 DEF ClientStep
    <2>3. Dead' = Dead
      BY <2>2 DEF Dead
    <2>4. \A d \in Client : View(d)' = View(d)
      BY <2>1, <2>3 DEF View, Known
    <2> QED
      BY <2>1, <2>3, <2>4, MatchStutter
  <1> QED
    BY <1>1, <1>2, <1>3, <1>4, <1>5 DEF ClientStep

LEMMA MatchServer ==
    ASSUME StreamInvariant, StreamInvariant', LogInvariant, AnswerInvariant,
           RoundRobin, StateInvariant, StateInvariant', ServerStep
    PROVE  M!Next \/ UNCHANGED M!vars
  <1>0. TypeOK /\ <<>> \in Seq(Action) /\ Len(<<>>) <= 1
    BY DEF StreamInvariant
  <1>1. CASE BeginTurn /\ Eliminated(turn)
    <2>1. /\ spc = "turn" /\ Apply(Server, turn, <<>>) /\ UNCHANGED cpc
          /\ Len(log[Server]) % NbPlayers = turn
      BY <1>1 DEF BeginTurn, RoundRobin, clientVars
    <2>2. ~Announces(Len(published))
      BY <2>1 DEF StreamInvariant, ServerInStream
    <2>3. \A c \in Client : ~(Len(log[c]) > Len(log[Server]))
      BY <2>2, AheadOfServer
    <2> QED
      BY <1>0, <2>1, <2>3, MatchDecide
  <1>a. ASSUME spc = "poll"
        PROVE  /\ Len(log[Server]) % NbPlayers = turn
               /\ \A c \in Client : Len(log[c]) > Len(log[Server]) =>
                      c = turn /\ Len(log[c]) = Len(log[Server]) + 1
    BY <1>a, AheadOfServer DEF RoundRobin, LogInvariant, ServerLog
  <1>2. CASE ReceiveAnswer
    <2>1. PICK request \in requests :
            /\ received' = received \o request.actions
            /\ IF Accepts(Server, turn, received')
               THEN spc' = "end_turn" /\ Apply(Server, turn, received')
               ELSE spc' = "fatal" /\ UNCHANGED log
      BY <1>2 DEF ReceiveAnswer
    <2>2. /\ spc = "poll" /\ UNCHANGED cpc /\ request.actions \in Seq(Action)
          /\ received = <<>> /\ Len(request.actions) <= 1
      BY <1>0, <1>2, <2>1
      DEF ReceiveAnswer, clientVars, LogInvariant, ServerLog, AnswerInvariant, TypeOK
    <2>3. received' = request.actions
      BY <2>1, <2>2
    <2>4. Apply(Server, turn, received')
      BY <2>1 DEF StateInvariant, NoSyncError
    <2> QED
      BY <1>a, <2>2, <2>3, <2>4, MatchDecide
  <1>3. CASE TimeoutAnswer
    <2>1. spc = "poll" /\ Apply(Server, turn, <<>>) /\ UNCHANGED cpc
      BY <1>3 DEF TimeoutAnswer, clientVars
    <2> QED
      BY <1>0, <1>a, <2>1, MatchDecide
  <1>4. CASE ~(BeginTurn /\ Eliminated(turn)) /\ ~ReceiveAnswer /\ ~TimeoutAnswer
    <2>1. UNCHANGED <<log, cpc>>
      BY <1>4 DEF ServerStep, StartMatch, BeginTurn, EndTurn, BeginWatch,
         ReceiveWatch, EndRound, clientVars, gameVars
    <2>2. UNCHANGED Dead
      BY <2>1 DEF Dead
    <2>3. \A c \in Client : View(c)' = View(c)
      BY <2>1, <2>2 DEF View, Known
    <2> QED
      BY <2>1, <2>2, <2>3, MatchStutter
  <1> QED
    BY <1>1, <1>2, <1>3, <1>4

\* When no player can be late, the server, the players and the spectators
\* implement a Match: one history in round-robin order, that every live client
\* follows from its beginning and without a gap.
THEOREM MatchImplemented ==
    ASSUME MaxConsecutiveTimeout > 0, Slow = {}
    PROVE  Spec => ImplementsMatch
  <1>0. Punctual
    BY DEF Punctual
  <1>1. Init => M!Init
    <2> SUFFICES ASSUME Init PROVE M!Init
      OBVIOUS
    <2>1. log[Server] = <<>> /\ \A c \in Client : log[c] = <<>> /\ cpc[c] = "start"
      BY DEF Init, Proc
    <2>2. Dead = {}
      BY <2>1 DEF Dead
    <2>3. ASSUME NEW c \in Client PROVE Known(c) = <<>>
      <3>1. <<>> \in Seq(Turn) /\ Len(<<>>) <= Len(<<>>)
        OBVIOUS
      <3>2. SubSeq(<<>>, 1, Shorter(<<>>, <<>>)) = <<>>
        BY <3>1, PrefixFacts
      <3> QED
        BY <2>1, <3>2 DEF Known
    <2> QED
      BY <2>1, <2>2, <2>3 DEF M!Init
  <1>2. /\ StreamInvariant /\ StreamInvariant' /\ LockStep /\ LogInvariant
        /\ AnswerInvariant /\ RoundRobin
        /\ Punctual => TurnInvariant
        /\ Punctual => StateInvariant
        /\ (Punctual => StateInvariant)'
        /\ [Next]_vars
        => [M!Next]_(M!vars)
    <2> SUFFICES ASSUME StreamInvariant, StreamInvariant', LockStep, LogInvariant,
                        AnswerInvariant, RoundRobin, TurnInvariant,
                        StateInvariant, StateInvariant', [Next]_vars
                 PROVE  M!Next \/ UNCHANGED M!vars
      <3>1. Punctual'
        BY DEF Punctual
      <3> QED
        BY <1>0, <3>1
    <2>1. CASE ServerStep
      BY <2>1, MatchServer
    <2>2. CASE \E c \in Client : ClientStep(c) \/ Die(c)
      BY <2>2, MatchClient
    <2>3. CASE UNCHANGED vars
      <3>1. UNCHANGED <<log, cpc>>
        BY <2>3 DEF vars, clientVars, gameVars
      <3>2. UNCHANGED Dead
        BY <3>1 DEF Dead
      <3>3. \A c \in Client : View(c)' = View(c)
        BY <3>1, <3>2 DEF View, Known
      <3> QED
        BY <3>1, <3>2, <3>3, MatchStutter
    <2> QED
      BY <2>1, <2>2, <2>3 DEF Next, Terminated
  <1> QED
    BY <1>1, <1>2, StreamSafety, OneRequestAtATime, LogSafety, AnswerSafety,
       TurnsInOrder, TurnSafety, StateSafety, PTL DEF Spec, ImplementsMatch, M!Spec

-----------------------------------------------------------------------------
(* The spectators watch every turn, in order. *)

LastSpectator == NbPlayers + NbSpectators - 1

\* Message i is the one after which spectator w is called.
Precedes(i, w) ==
    IF w = NbPlayers THEN published[i].type = "actions" ELSE Calls(i, w - 1)

\* Message i leaves nobody to call in this turn.
EndsTurn(i) == i = 1 \/ NbSpectators = 0 \/ Calls(i, LastSpectator)

\* Message i calls a spectator, in its place.
CalledInPlace(i) == Precedes(i - 1, published[i].id)

\* After the actions of a player the spectators are called one by one, then
\* the next player.
WatchOrder ==
    /\ published # <<>> => published[1] = IdMessage(LastPlayer)
    /\ \A i \in 2 .. Len(published) : published[i].type = "id" =>
          \/ published[i].id \in Player /\ EndsTurn(i - 1)
          \/ published[i].id \in Spectator /\ CalledInPlace(i)

ServerWatch ==
    /\ spc \in {"turn", "end_round"} => EndsTurn(Len(published))
    /\ spc = "watch" => Precedes(Len(published), watcher)
    /\ spc = "watching" => Calls(Len(published), watcher)

WatchInvariant == WatchOrder /\ ServerWatch

LEMMA SpectatorFacts ==
    /\ \A w \in Spectator : w + 1 \in Spectator \/ w = LastSpectator
    /\ \A w \in Spectator : w \notin Player /\ w >= NbPlayers /\ w \in Nat
    /\ \A w \in Spectator : w <= LastSpectator /\ NbSpectators > 0
    /\ \A p \in Player : p < NbPlayers /\ p \in Nat /\ p <= LastPlayer
    /\ NbPlayers \in Nat \ {0} /\ NbSpectators \in Nat
    /\ NbSpectators > 0 => NbPlayers \in Spectator
  BY PlayersAssumption, SpectatorsAssumption
  DEF Spectator, Player, LastSpectator, LastPlayer

LEMMA WatchPush ==
    ASSUME StreamInvariant, WatchOrder, NEW m \in Message, Push(m),
           published = <<>> => m = IdMessage(LastPlayer),
           published # <<>> /\ m.type = "id" =>
               \/ m.id \in Player /\ EndsTurn(Len(published))
               \/ m.id \in Spectator /\ Precedes(Len(published), m.id)
    PROVE  WatchOrder'
  <1>1. published \in Seq(Message) /\ Len(published) \in Nat
    BY LogTypes DEF StreamInvariant
  <1>2. /\ Len(published') = Len(published) + 1
        /\ published'[Len(published) + 1] = m
        /\ \A i \in 1 .. Len(published) : published'[i] = published[i]
    BY <1>1, PushFacts
  <1>3. published'[1] = IdMessage(LastPlayer)
    <2>1. CASE published = <<>>
      BY <1>2, <2>1
    <2>2. CASE published # <<>>
      <3>1. 1 \in 1 .. Len(published)
        BY <1>1, <2>2
      <3> QED
        BY <1>2, <2>2, <3>1 DEF WatchOrder
    <2> QED
      BY <2>1, <2>2
  <1>4. ASSUME NEW i \in 2 .. Len(published'), published'[i].type = "id",
               NEW w, w = published'[i].id
        PROVE  \/ w \in Player /\ EndsTurn(i - 1)'
               \/ w \in Spectator /\ Precedes(i - 1, w)'
    <2>0. PICK h \in 1 .. Len(published) : h = i - 1
      BY <1>1, <1>2
    <2>1. published'[h] = published[h]
      BY <1>2
    <2>2. \A v : Calls(h, v)' <=> Calls(h, v)
      BY <2>1 DEF Calls
    <2>3. EndsTurn(h)' <=> EndsTurn(h)
      BY <2>2 DEF EndsTurn
    <2>4. Precedes(h, w)' <=> Precedes(h, w)
      BY <2>1, <2>2 DEF Precedes
    <2>5. CASE i \in 2 .. Len(published)
      <3>1. published'[i] = published[i]
        BY <1>2, <2>5
      <3>2. \/ published[i].id \in Player /\ EndsTurn(i - 1)
            \/ published[i].id \in Spectator /\ CalledInPlace(i)
        BY <1>4, <2>5, <3>1 DEF WatchOrder
      <3> QED
        BY <1>4, <2>0, <2>3, <2>4, <3>1, <3>2 DEF CalledInPlace
    <2>6. CASE i \notin 2 .. Len(published)
      <3>1. i = Len(published) + 1 /\ h = Len(published) /\ published # <<>>
        BY <1>1, <1>2, <2>0, <2>6
      <3>2. published'[i] = m
        BY <1>2, <3>1
      <3>3. \/ m.id \in Player /\ EndsTurn(h)
            \/ m.id \in Spectator /\ Precedes(h, m.id)
        BY <1>4, <3>1, <3>2
      <3> QED
        BY <1>4, <2>0, <2>3, <2>4, <3>2, <3>3
    <2> QED
      BY <2>5, <2>6
  <1>5. ASSUME NEW i \in 2 .. Len(published'), published'[i].type = "id"
        PROVE  \/ published'[i].id \in Player /\ EndsTurn(i - 1)'
               \/ published'[i].id \in Spectator /\ CalledInPlace(i)'
    <2>1. PICK w : w = published'[i].id
      OBVIOUS
    <2>2. CASE w \in Player /\ EndsTurn(i - 1)'
      BY <2>1, <2>2
    <2>3. CASE w \in Spectator /\ Precedes(i - 1, w)'
      BY <2>1, <2>3 DEF CalledInPlace, Precedes, Calls
    <2> QED
      BY <1>4, <1>5, <2>1, <2>2, <2>3
  <1> QED
    BY <1>3, <1>5 DEF WatchOrder

LEMMA WatchServer ==
    ASSUME StreamInvariant, WatchInvariant, ServerStep
    PROVE  WatchInvariant'
  <1>0. /\ published \in Seq(Message) /\ Len(published) \in Nat /\ turn \in Player
        /\ received \in Seq(Action) /\ WatchOrder /\ ServerWatch /\ ServerInStream
        /\ spc \notin {"start"} => published # <<>>
        /\ NbSpectators \in Nat
    BY LogTypes, SpectatorFacts
    DEF StreamInvariant, ServerInStream, TypeOK, WatchInvariant
  <1> USE DEF WatchInvariant
  <1>1. CASE StartMatch
    <2>1. published = <<>> /\ Push(IdMessage(LastPlayer)) /\ spc' \in {"done", "turn"}
      BY <1>0, <1>1 DEF StartMatch, ServerInStream
    <2>2. IdMessage(LastPlayer) \in Message
      BY MessageFacts, ClientFacts
    <2>3. WatchOrder'
      BY <1>0, <2>1, <2>2, WatchPush
    <2>4. Len(published') = 1
      BY <1>0, <2>1, <2>2, PushFacts
    <2> QED
      BY <2>1, <2>3, <2>4 DEF ServerWatch, EndsTurn
  <1>2. CASE BeginTurn
    <2>1. Push(IdMessage(turn)) /\ spc = "turn" /\ spc' \in {"end_turn", "poll"}
      BY <1>2 DEF BeginTurn
    <2>2. IdMessage(turn) \in Message /\ IdMessage(turn).id = turn
      BY <1>0, MessageFacts, ClientFacts DEF IdMessage
    <2>3. EndsTurn(Len(published))
      BY <1>0, <2>1 DEF ServerWatch
    <2>4. WatchOrder'
      BY <1>0, <2>1, <2>2, <2>3, WatchPush
    <2> QED
      BY <2>1, <2>4 DEF ServerWatch
  <1>3. CASE ReceiveAnswer
    BY <1>0, <1>3 DEF ReceiveAnswer, WatchOrder, ServerWatch, CalledInPlace, EndsTurn, Precedes, Calls
  <1>4. CASE TimeoutAnswer
    BY <1>0, <1>4
    DEF TimeoutAnswer, WatchOrder, ServerWatch, CalledInPlace, EndsTurn, Precedes, Calls, socketVars
  <1>5. CASE EndTurn
    <2>1. /\ Push(ActionsMessage(received)) /\ spc = "end_turn"
          /\ watcher' = NbPlayers
          /\ spc' = "watch" \/ (NbSpectators = 0 /\ spc' \in {"turn", "end_round"})
      BY <1>0, <1>5 DEF EndTurn, PushActions, NextTurn
    <2>2. /\ ActionsMessage(received) \in Message
          /\ ActionsMessage(received).type = "actions"
      BY <1>0, MessageFacts DEF ActionsMessage
    <2>3. WatchOrder'
      BY <1>0, <2>1, <2>2, WatchPush
    <2>4. published'[Len(published')].type = "actions"
      BY <1>0, <2>1, <2>2, PushFacts
    <2> QED
      BY <2>1, <2>3, <2>4 DEF ServerWatch, EndsTurn, Precedes
  <1>6. CASE BeginWatch
    <2>1. /\ Push(IdMessage(watcher)) /\ spc = "watch" /\ spc' = "watching"
          /\ watcher' = watcher /\ watcher \in Spectator
      BY <1>0, <1>6 DEF BeginWatch, ServerInStream
    <2>2. /\ IdMessage(watcher) \in Message /\ IdMessage(watcher).id = watcher
          /\ IdMessage(watcher).type = "id"
      BY <2>1, MessageFacts, ClientFacts DEF IdMessage
    <2>3. Precedes(Len(published), watcher)
      BY <1>0, <2>1 DEF ServerWatch
    <2>4. WatchOrder'
      BY <1>0, <2>1, <2>2, <2>3, WatchPush
    <2>5. published'[Len(published')] = IdMessage(watcher) /\ Len(published') >= 2
      BY <1>0, <2>1, <2>2, PushFacts
    <2> QED
      BY <2>1, <2>2, <2>4, <2>5 DEF ServerWatch, Calls
  <1>7. CASE ReceiveWatch
    <2>1. /\ published' = published /\ spc = "watching" /\ watcher \in Spectator
          /\ \/ spc' = "watch" /\ watcher' = watcher + 1 /\ watcher' \in Spectator
             \/ spc' \in {"turn", "end_round"} /\ watcher + 1 \notin Spectator
      BY <1>0, <1>7 DEF ReceiveWatch, ServerInStream, NextTurn
    <2>2. Calls(Len(published), watcher)
      BY <1>0, <2>1 DEF ServerWatch
    <2>3. WatchOrder'
      BY <1>0, <2>1 DEF WatchOrder, EndsTurn, CalledInPlace, Precedes, Calls
    <2>4. CASE spc' = "watch"
      <3>1. watcher' # NbPlayers /\ watcher' - 1 = watcher
        BY <2>1, <2>4, SpectatorFacts
      <3>2. Calls(Len(published), watcher)'
            <=> (Len(published) >= 2 /\ published[Len(published)].type = "id"
                 /\ published[Len(published)].id = watcher')
        BY <2>1 DEF Calls
      <3>3. Precedes(Len(published), watcher)'
        BY <2>1, <2>2, <3>1 DEF Precedes, Calls
      <3> QED
        BY <2>3, <2>4, <3>3 DEF ServerWatch
    <2>5. CASE spc' # "watch"
      <3>1. watcher = LastSpectator
        BY <2>1, <2>5, SpectatorFacts
      <3>2. EndsTurn(Len(published))'
        BY <2>1, <2>2, <3>1 DEF EndsTurn, Calls
      <3>3. spc' # "watching"
        BY <2>1, <2>5
      <3> QED
        BY <2>3, <2>5, <3>2, <3>3 DEF ServerWatch
    <2> QED
      BY <2>4, <2>5
  <1>8. CASE EndRound
    BY <1>0, <1>8
    DEF EndRound, WatchOrder, ServerWatch, CalledInPlace, EndsTurn, Precedes, Calls, socketVars
  <1> QED
    BY <1>1, <1>2, <1>3, <1>4, <1>5, <1>6, <1>7, <1>8 DEF ServerStep

LEMMA WatchUnchanged ==
    ASSUME WatchInvariant, UNCHANGED <<published, serverVars>>
    PROVE  WatchInvariant'
  BY DEF WatchInvariant, WatchOrder, ServerWatch, CalledInPlace, EndsTurn, Precedes, Calls, serverVars

LEMMA WatchHolds == Spec => []WatchInvariant
  <1>1. Init => WatchInvariant
    BY DEF Init, SocketsInit, WatchInvariant, WatchOrder, ServerWatch
  <1>2. StreamInvariant /\ WatchInvariant /\ [Next]_vars => WatchInvariant'
    <2> SUFFICES ASSUME StreamInvariant, WatchInvariant, [Next]_vars
                 PROVE  WatchInvariant'
      OBVIOUS
    <2>1. CASE ServerStep
      BY <2>1, WatchServer
    <2>2. CASE \E c \in Client : ClientStep(c) \/ Die(c)
      <3>1. PICK c \in Client : ClientStep(c) \/ Die(c)
        BY <2>2
      <3>2. UNCHANGED <<published, serverVars>>
        BY <3>1 DEF ClientStep, ClientStart, PullOwnTurn, PullSpectatorTurn,
           PullPlayerTurn, Answer, PlayerAck, PullOwnActions, PlayerPullActions,
           SpectatorPullActions, SpectatorAck, Die
      <3> QED
        BY <3>2, WatchUnchanged
    <2>3. CASE UNCHANGED vars
      BY <2>3, WatchUnchanged DEF vars, socketVars
    <2> QED
      BY <2>1, <2>2, <2>3 DEF Next, Terminated
  <1> QED
    BY <1>1, <1>2, StreamSafety, PTL DEF Spec

-----------------------------------------------------------------------------
(* How many rounds there are in the stream, and how many each process has   *)
(* counted.                                                                 *)

\* The members of S up to i.
UpTo(S, i) == Cardinality({j \in 1 .. i : j \in S})

\* The turn of the last player is in message i of a stream.
RoundEnds(stream) ==
    {i \in 2 .. Len(stream) : /\ stream[i].type = "actions"
                              /\ stream[i - 1].id = LastPlayer}

\* How often the hook that ends the game runs in the first i messages.
TicksAt(i) == Hit("start_of_round") + UpTo(RoundEnds(published), i)

\* The server has not yet ended the round of the last player's turn.
Closing == spc \in {"watch", "watching", "end_round"} /\ turn = LastPlayer

\* No turn is begun once the game is over.
ServerTicks ==
    /\ spc = "start" => ticks[Server] = 0
    /\ spc # "start" =>
          ticks[Server] + (IF Closing THEN 1 ELSE 0) = TicksAt(Len(published))
    /\ spc \notin {"start", "done", "fatal"} => ~Finished(Server)
    /\ spc = "end_round" => turn = LastPlayer
    /\ \A i \in 1 .. Len(published) : Announces(i) => TicksAt(i) < Limit

\* Spectator c has applied a turn and has still to be called after it...
Behind(c) ==
    c \in Spectator /\ cpc[c] = "await" /\ cursor[c] >= 2 /\ playing[c] < c

\* ...or it has been called and has not been answered.
Owed(c) == c \in Spectator /\ (Behind(c) \/ cpc[c] \in {"my_turn", "ack"})

ClientPlace(c) ==
    /\ cpc[c] = "await" /\ cursor[c] >= 2 =>
          playing[c] = IF published[cursor[c]].type = "id"
                       THEN published[cursor[c]].id ELSE published[cursor[c] - 1].id
    /\ cpc[c] \in {"my_turn", "ack", "own_actions"} => playing[c] = c
    /\ cpc[c] \in {"my_turn", "ack"} /\ c \in Spectator => Calls(cursor[c], c)
    /\ cpc[c] = "actions" /\ c \in Spectator => previous[c] = playing[c]
    /\ cpc[c] = "start" => ticks[c] = 0 /\ ~lastRound[c]
    /\ cpc[c] \notin {"start", "dead", "fatal"} => cursor[c] >= 1 /\ lastId[c] = LastPlayer

ClientTicks(c) ==
    /\ cpc[c] \notin {"start", "dead", "fatal"} =>
          ticks[c] + (IF Owed(c) /\ previous[c] = LastPlayer THEN 1 ELSE 0)
              = TicksAt(cursor[c])
    /\ cpc[c] \notin {"start", "done", "dead", "fatal"} => (Finished(c) <=> lastRound[c])
    /\ cpc[c] = "done" => Finished(c)
    /\ lastRound[c] /\ ~Gone(c) => c \in Spectator /\ cpc[c] = "await" /\ ~Behind(c)

FinishInvariant ==
    ServerTicks /\ \A c \in Client : ClientPlace(c) /\ ClientTicks(c)

LEMMA UpToFacts ==
    ASSUME NEW S
    PROVE  /\ UpTo(S, 0) = 0
           /\ \A i \in Nat : UpTo(S, i) \in Nat
           /\ \A i \in Nat : UpTo(S, i + 1) = UpTo(S, i) + IF i + 1 \in S THEN 1 ELSE 0
           /\ \A i, j \in Nat : i <= j => UpTo(S, i) <= UpTo(S, j)
  <1> DEFINE T(i) == {j \in 1 .. i : j \in S}
  <1>1. \A i \in Nat : IsFiniteSet(T(i)) /\ Cardinality(T(i)) \in Nat
    <2> TAKE i \in Nat
    <2>1. IsFiniteSet(1 .. i) /\ T(i) \subseteq 1 .. i
      BY FS_Interval
    <2>2. IsFiniteSet(T(i))
      BY <2>1, FS_Subset
    <2> QED
      BY <2>2, FS_CardinalityType
  <1>2. T(0) = {}
    OBVIOUS
  <1>3. ASSUME NEW i \in Nat
        PROVE  Cardinality(T(i + 1)) = Cardinality(T(i)) + IF i + 1 \in S THEN 1 ELSE 0
    <2>1. CASE i + 1 \in S
      <3>1. T(i + 1) = T(i) \union {i + 1} /\ i + 1 \notin T(i)
        BY <2>1
      <3>2. IsFiniteSet(T(i)) /\ Cardinality(T(i)) \in Nat
        BY <1>1
      <3> HIDE DEF T
      <3>3. Cardinality(T(i) \union {i + 1}) = Cardinality(T(i)) + 1
        BY <3>1, <3>2, FS_AddElement
      <3> QED
        BY <2>1, <3>1, <3>3
    <2>2. CASE i + 1 \notin S
      <3>1. T(i + 1) = T(i)
        BY <2>2
      <3>2. Cardinality(T(i)) \in Nat
        BY <1>1
      <3> HIDE DEF T
      <3> QED
        BY <2>2, <3>1, <3>2
    <2> QED
      BY <2>1, <2>2
  <1>4. ASSUME NEW i \in Nat, NEW j \in Nat, i <= j
        PROVE  Cardinality(T(i)) <= Cardinality(T(j))
    <2>1. T(i) \subseteq T(j)
      BY <1>4
    <2> QED
      BY <1>1, <2>1, FS_Subset
  <1>5. Cardinality(T(0)) = 0
    BY <1>2, FS_EmptySet
  <1> QED
    BY <1>1, <1>3, <1>4, <1>5 DEF UpTo

LEMMA UpToSame ==
    ASSUME NEW S, NEW T, NEW n \in Nat, \A i \in 1 .. n : i \in S <=> i \in T
    PROVE  \A i \in 0 .. n : UpTo(S, i) = UpTo(T, i)
  <1> TAKE i \in 0 .. n
  <1>1. {j \in 1 .. i : j \in S} = {j \in 1 .. i : j \in T}
    OBVIOUS
  <1> QED
    BY <1>1 DEF UpTo

LEMMA TicksFacts ==
    /\ TicksAt(0) = Hit("start_of_round") /\ TicksAt(1) = Hit("start_of_round")
    /\ \A i \in Nat : TicksAt(i) \in Nat
    /\ \A i \in Nat : TicksAt(i + 1) =
            TicksAt(i) + IF i + 1 \in RoundEnds(published) THEN 1 ELSE 0
    /\ \A i, j \in Nat : i <= j => TicksAt(i) <= TicksAt(j)
  <1>0. Hit("start_of_round") \in Nat
    BY HitType
  <1> DEFINE R == RoundEnds(published)
  <1>1. 1 \notin R
    BY DEF RoundEnds
  <1> HIDE DEF R
  <1>2. /\ UpTo(R, 0) = 0
        /\ \A i \in Nat : UpTo(R, i) \in Nat
        /\ \A i \in Nat : UpTo(R, i + 1) = UpTo(R, i) + IF i + 1 \in R THEN 1 ELSE 0
        /\ \A i, j \in Nat : i <= j => UpTo(R, i) <= UpTo(R, j)
    BY UpToFacts
  <1>3. UpTo(R, 1) = 0
    <2>1. UpTo(R, 0 + 1) = UpTo(R, 0) + 0
      BY <1>1, <1>2
    <2> QED
      BY <1>2, <2>1
  <1>4. \A i : TicksAt(i) = Hit("start_of_round") + UpTo(R, i)
    BY DEF TicksAt, R
  <1>5. ASSUME NEW i \in Nat
        PROVE  TicksAt(i + 1) = TicksAt(i) + IF i + 1 \in R THEN 1 ELSE 0
    <2>1. UpTo(R, i + 1) = UpTo(R, i) + IF i + 1 \in R THEN 1 ELSE 0
      BY <1>2
    <2>2. UpTo(R, i) \in Nat
      BY <1>2
    <2>3. /\ TicksAt(i) = Hit("start_of_round") + UpTo(R, i)
          /\ TicksAt(i + 1) = Hit("start_of_round") + UpTo(R, i + 1)
      BY <1>4
    <2> QED
      BY <1>0, <2>1, <2>2, <2>3
  <1>6. ASSUME NEW i \in Nat, NEW j \in Nat, i <= j PROVE TicksAt(i) <= TicksAt(j)
    <2>1. UpTo(R, i) <= UpTo(R, j) /\ UpTo(R, i) \in Nat /\ UpTo(R, j) \in Nat
      BY <1>2, <1>6
    <2> QED
      BY <1>0, <1>4, <2>1
  <1> QED
    BY <1>0, <1>2, <1>3, <1>4, <1>5, <1>6, SMTT(30) DEF R

\* The ticks at message i of another stream.
TicksIn(stream, i) == Hit("start_of_round") + UpTo(RoundEnds(stream), i)

\* Pushing a message adds a tick if it is the turn of the last player.
LEMMA TicksPush ==
    ASSUME StreamInvariant, NEW m \in Message, Push(m)
    PROVE  /\ \A i \in 0 .. Len(published) : TicksIn(published', i) = TicksAt(i)
           /\ TicksIn(published', Len(published) + 1) = TicksAt(Len(published)) +
                 IF /\ published # <<>> /\ m.type = "actions"
                    /\ published[Len(published)].id = LastPlayer THEN 1 ELSE 0
  <1>1. published \in Seq(Message)
    BY LogTypes DEF StreamInvariant
  <1>2. PICK n \in Nat : n = Len(published)
    BY <1>1
  <1>3. /\ Len(published') = n + 1 /\ published'[n + 1] = m
        /\ \A i \in 1 .. n : published'[i] = published[i]
    BY <1>1, <1>2, PushFacts
  <1>4. ASSUME NEW i \in 1 .. n
        PROVE  i \in RoundEnds(published') <=> i \in RoundEnds(published)
    <2>1. published'[i] = published[i] /\ (i >= 2 => published'[i - 1] = published[i - 1])
      BY <1>2, <1>3
    <2> QED
      BY <1>2, <1>3, <2>1 DEF RoundEnds
  <1>5. \A i \in 0 .. n : UpTo(RoundEnds(published'), i) = UpTo(RoundEnds(published), i)
    <2> DEFINE S == RoundEnds(published')
               T == RoundEnds(published)
    <2>1. \A i \in 1 .. n : i \in S <=> i \in T
      BY <1>4
    <2> HIDE DEF S, T
    <2>2. \A i \in 0 .. n : UpTo(S, i) = UpTo(T, i)
      BY <2>1, UpToSame
    <2> QED
      BY <2>2 DEF S, T
  <1>6. n + 1 \in RoundEnds(published') <=>
            n >= 1 /\ m.type = "actions" /\ published[n].id = LastPlayer
    <2>1. n >= 1 => published'[n] = published[n]
      BY <1>3
    <2>2. n + 1 - 1 = n /\ (n + 1 \in 2 .. n + 1 <=> n >= 1)
      OBVIOUS
    <2>3. n + 1 \in RoundEnds(published') <=>
              n >= 1 /\ published'[n + 1].type = "actions" /\ published'[n].id = LastPlayer
      BY <1>3, <2>2 DEF RoundEnds
    <2> QED
      BY <1>3, <2>1, <2>3
  <1>7. UpTo(RoundEnds(published'), n + 1) = UpTo(RoundEnds(published'), n) +
            IF n + 1 \in RoundEnds(published') THEN 1 ELSE 0
    BY UpToFacts
  <1>8. UpTo(RoundEnds(published), n) \in Nat /\ Hit("start_of_round") \in Nat
    BY UpToFacts, HitType
  <1>9. UpTo(RoundEnds(published'), n) = UpTo(RoundEnds(published), n)
    BY <1>5
  <1>10. n >= 1 <=> published # <<>>
    BY <1>1, <1>2
  <1> QED
    BY <1>2, <1>5, <1>6, <1>7, <1>8, <1>9, <1>10 DEF TicksIn, TicksAt

\* What end_of_round and start_of_round add while the game is not over.
LEMMA RoundTicksOnce ==
    ASSUME FinishHook # "player_turn"
    PROVE  /\ Hit("player_turn") = 0
           /\ \A t \in Nat : ~Over(t) => RoundTicks(t) = t + 1
           /\ Limit \in Nat \ {0}
  BY HookAssumption, LimitAssumption DEF Hit, Hook, RoundTicks, Over

\* A step of the server leaves each client where it is, in its loop and in the
\* stream.
LEMMA FinishStays ==
    ASSUME StreamInvariant, NEW c \in Client, ClientPlace(c), ClientTicks(c),
           UNCHANGED <<cursor[c], cpc[c], playing[c], previous[c], lastId[c],
                       lastRound[c], ticks[c]>>,
           \A i \in 1 .. Len(published) : published'[i] = published[i],
           \A i \in 0 .. Len(published) : TicksIn(published', i) = TicksAt(i)
    PROVE  ClientPlace(c)' /\ ClientTicks(c)'
  <1>1. PICK k \in Nat : k = cursor[c]
    BY LogTypes DEF StreamInvariant
  <1>2. k <= Len(published) /\ Len(published) \in Nat
    BY <1>1, LogTypes DEF StreamInvariant, ClientInStream
  <1>3. /\ k >= 1 => published'[k] = published[k]
        /\ k >= 2 => published'[k - 1] = published[k - 1]
        /\ TicksIn(published', k) = TicksAt(k)
    BY <1>1, <1>2
  <1>4. TicksAt(cursor[c])' = TicksAt(cursor[c])
    BY <1>1, <1>3 DEF TicksAt, TicksIn
  <1>5. Behind(c)' = Behind(c) /\ Owed(c)' = Owed(c)
    BY DEF Behind, Owed
  <1>6. Finished(c)' = Finished(c)
    BY DEF Finished
  <1>7. ClientPlace(c)'
    BY <1>1, <1>3 DEF ClientPlace, Calls
  <1>8. ClientTicks(c)'
    BY <1>4, <1>5, <1>6 DEF ClientTicks, Gone
  <1> QED
    BY <1>7, <1>8

LEMMA TicksTypes ==
    ASSUME TypeOK
    PROVE  \A p \in Proc : /\ p \in DOMAIN ticks /\ ticks[p] \in Nat
                           /\ \A n : [ticks EXCEPT ![p] = n][p] = n
                           /\ \A n : \A q \in Proc \ {p} : [ticks EXCEPT ![p] = n][q] = ticks[q]
  BY DEF TypeOK

\* What the server counts when it publishes nothing.
LEMMA ServerTicksQuiet ==
    ASSUME ServerTicks, UNCHANGED <<published, turn>>, ticks'[Server] = ticks[Server],
           spc \notin {"start", "done", "fatal", "end_round"}, spc' # "start",
           Closing' <=> Closing, spc' # "end_round" \/ turn = LastPlayer,
           spc' \notin {"done"}
    PROVE  ServerTicks'
  <1>1. TicksAt(Len(published))' = TicksAt(Len(published))
    BY DEF TicksAt
  <1>2. \A i : Announces(i)' <=> Announces(i)
    BY DEF Announces
  <1>3. \A i : TicksAt(i)' = TicksAt(i)
    BY DEF TicksAt
  <1> QED
    BY <1>1, <1>2, <1>3 DEF ServerTicks, Finished

\* What it counts when it publishes message m.
LEMMA ServerTicksPush ==
    ASSUME StreamInvariant, ServerTicks, NEW m \in Message, Push(m),
           spc \notin {"start", "done", "fatal", "end_round"}, ticks'[Server] = ticks[Server],
           spc' \notin {"start", "done"}, spc' # "end_round" \/ turn' = LastPlayer,
           m.type = "actions" =>
               /\ published[Len(published)].id = turn /\ ~Closing
               /\ Closing' <=> turn = LastPlayer,
           m.type = "id" => (Closing' <=> Closing),
           m.type = "id" /\ m.id \in Player => ~Closing
    PROVE  ServerTicks'
  <1>1. published \in Seq(Message) /\ published # <<>>
    BY LogTypes DEF StreamInvariant, ServerInStream
  <1>2. PICK n \in Nat : n = Len(published)
    BY <1>1
  <1>3. /\ Len(published') = n + 1 /\ n >= 1
        /\ \A i \in 0 .. n : Announces(i)' <=> Announces(i)
        /\ Announces(n + 1)' => m.type = "id" /\ m.id \in Player
    <2>1. /\ Len(published') = n + 1 /\ published'[n + 1] = m
          /\ \A i \in 0 .. n : Announces(i)' <=> Announces(i)
      BY <1>1, <1>2, PushFacts
    <2>2. Announces(n + 1)' => m.type = "id" /\ m.id \in Player
      BY <2>1 DEF Announces
    <2>3. n >= 1
      BY <1>1, <1>2
    <2> QED
      BY <2>1, <2>2, <2>3
  <1>4. /\ \A i \in 0 .. n : TicksIn(published', i) = TicksAt(i)
        /\ TicksIn(published', n + 1) = TicksAt(n) +
              IF m.type = "actions" /\ published[n].id = LastPlayer THEN 1 ELSE 0
    BY <1>1, <1>2, TicksPush
  <1>5. ticks[Server] + (IF Closing THEN 1 ELSE 0) = TicksAt(n) /\ ~Finished(Server)
    BY <1>2 DEF ServerTicks
  <1>6. m.type \in {"id", "actions"} /\ ticks[Server] \in Nat /\ TicksAt(n) \in Nat
        /\ Limit \in Nat
    BY MessageFacts, TicksTypes, TicksFacts, LimitAssumption DEF StreamInvariant, Proc
  <1>7. TicksAt(Len(published))' = TicksIn(published', n + 1)
    BY <1>3 DEF TicksAt, TicksIn
  <1>8. ticks'[Server] + (IF Closing' THEN 1 ELSE 0) = TicksIn(published', n + 1)
    BY <1>2, <1>4, <1>5, <1>6
  <1>9. ASSUME NEW i \in 1 .. n + 1, Announces(i)' PROVE TicksIn(published', i) < Limit
    <2>1. CASE i \in 1 .. n
      <3>1. TicksAt(i) < Limit
        BY <1>2, <1>3, <1>9, <2>1 DEF ServerTicks
      <3> QED
        BY <1>4, <2>1, <3>1
    <2>2. CASE i = n + 1
      <3>1. m.type = "id" /\ m.id \in Player /\ ~Closing
        BY <1>3, <1>9, <2>2
      <3>2. TicksIn(published', n + 1) = ticks[Server]
        BY <1>4, <1>5, <1>6, <3>1
      <3>3. ticks[Server] < Limit
        BY <1>5, <1>6 DEF Finished, Over
      <3> QED
        BY <2>2, <3>2, <3>3
    <2> QED
      BY <2>1, <2>2
  <1>10. \A i \in 1 .. Len(published)' : Announces(i)' => TicksAt(i)' < Limit
    BY <1>3, <1>9 DEF TicksAt, TicksIn
  <1>11. ~Finished(Server)'
    BY <1>5 DEF Finished
  <1> QED
    BY <1>7, <1>8, <1>10, <1>11 DEF ServerTicks

LEMMA FinishServer ==
    ASSUME FinishHook # "player_turn",
           StreamInvariant, LogInvariant, FinishInvariant, ServerStep
    PROVE  FinishInvariant'
  <1>0. /\ published \in Seq(Message) /\ Len(published) \in Nat /\ turn \in Player
        /\ received \in Seq(Action) /\ TypeOK /\ ServerTicks
        /\ Server \in Proc /\ Client \subseteq Proc /\ ticks[Server] \in Nat
        /\ \A c \in Client : c \in Proc \ {Server}
    BY LogTypes, TicksTypes, ClientFacts, ZenonT(30)
    DEF StreamInvariant, TypeOK, FinishInvariant, Proc
  <1>h. Hit("player_turn") = 0 /\ Limit \in Nat /\ LastPlayer \in Nat
    BY RoundTicksOnce, PlayersAssumption DEF LastPlayer
  <1>a. /\ UNCHANGED <<cursor, clientVars>>
        /\ \A c \in Client : ticks'[c] = ticks[c]
    <2>1. UNCHANGED <<cursor, clientVars>>
      BY DEF ServerStep, StartMatch, BeginTurn, ReceiveAnswer, TimeoutAnswer, EndTurn,
         BeginWatch, ReceiveWatch, EndRound, RecvAndAck, socketVars
    <2>2. UNCHANGED ticks \/ \E n : ticks' = [ticks EXCEPT ![Server] = n]
      BY DEF ServerStep, StartMatch, BeginTurn, ReceiveAnswer, TimeoutAnswer, EndTurn,
         BeginWatch, ReceiveWatch, EndRound, gameVars
    <2>3. \A c \in Client : ticks'[c] = ticks[c]
      BY <1>0, <2>2, TicksTypes
    <2> QED
      BY <2>1, <2>3
  <1>b. ASSUME UNCHANGED published
        PROVE  \A c \in Client : ClientPlace(c)' /\ ClientTicks(c)'
    <2>1. \A i \in 0 .. Len(published) : TicksIn(published', i) = TicksAt(i)
      BY <1>b DEF TicksIn, TicksAt
    <2>2. \A i \in 1 .. Len(published) : published'[i] = published[i]
      BY <1>b
    <2> QED
      BY <1>a, <2>1, <2>2, FinishStays DEF FinishInvariant, clientVars
  <1>c. ASSUME NEW m \in Message, Push(m)
        PROVE  \A c \in Client : ClientPlace(c)' /\ ClientTicks(c)'
    <2>1. \A i \in 0 .. Len(published) : TicksIn(published', i) = TicksAt(i)
      BY <1>c, TicksPush
    <2>2. \A i \in 1 .. Len(published) : published'[i] = published[i]
      BY <1>0, <1>c, PushFacts
    <2> QED
      BY <1>a, <2>1, <2>2, FinishStays DEF FinishInvariant, clientVars
  <1>1. CASE StartMatch
    <2>1. /\ published = <<>> /\ Push(IdMessage(LastPlayer)) /\ ticks[Server] = 0
          /\ ticks' = [ticks EXCEPT ![Server] = ticks[Server] + Hit("start_of_round")]
          /\ spc' = IF Finished(Server)' THEN "done" ELSE "turn"
      BY <1>0, <1>1 DEF StartMatch, ServerTicks, StreamInvariant, ServerInStream
    <2>2. IdMessage(LastPlayer) \in Message
      BY MessageFacts, ClientFacts
    <2>3. Len(published') = 1 /\ TicksIn(published', 0 + 1) = TicksAt(0) + 0
      BY <2>1, <2>2, TicksPush, PushFacts
    <2>4. /\ TicksAt(0) = Hit("start_of_round") /\ Hit("start_of_round") \in Nat
          /\ TicksAt(0) \in Nat
      BY TicksFacts, HitType
    <2>5. TicksAt(Len(published))' = Hit("start_of_round")
      BY <2>3, <2>4 DEF TicksAt, TicksIn
    <2>6. ticks'[Server] = Hit("start_of_round")
      BY <1>0, <2>1, <2>4, TicksTypes
    <2>7. \A i \in 1 .. Len(published') : ~Announces(i)'
      BY <2>3 DEF Announces
    <2>8. ServerTicks'
      BY <2>1, <2>4, <2>5, <2>6, <2>7 DEF ServerTicks, Closing
    <2> QED
      BY <1>c, <2>1, <2>2, <2>8 DEF FinishInvariant
  <1>2. CASE BeginTurn
    <2>1. /\ spc = "turn" /\ Push(IdMessage(turn)) /\ turn' = turn
          /\ ticks' = [ticks EXCEPT ![Server] = ticks[Server] + Hit("player_turn")]
          /\ spc' \in {"end_turn", "poll"}
      BY <1>2 DEF BeginTurn
    <2>2. /\ IdMessage(turn) \in Message /\ IdMessage(turn).id = turn
          /\ IdMessage(turn).type = "id"
      BY <1>0, MessageFacts, ClientFacts DEF IdMessage
    <2>3. ticks'[Server] = ticks[Server]
      BY <1>0, <1>h, <2>1, TicksTypes
    <2>4. ~Closing /\ ~Closing'
      BY <2>1 DEF Closing
    <2>5. ServerTicks'
      BY <1>0, <2>1, <2>2, <2>3, <2>4, ServerTicksPush
    <2> QED
      BY <1>c, <2>1, <2>2, <2>5 DEF FinishInvariant
  <1>3. CASE ReceiveAnswer \/ TimeoutAnswer
    <2>1. /\ spc = "poll" /\ spc' \in {"end_turn", "fatal"}
          /\ UNCHANGED <<published, turn, ticks>>
      BY <1>3 DEF ReceiveAnswer, TimeoutAnswer, socketVars
    <2>2. ~Closing /\ ~Closing'
      BY <2>1 DEF Closing
    <2>3. ServerTicks'
      BY <1>0, <2>1, <2>2, ServerTicksQuiet
    <2> QED
      BY <1>b, <2>1, <2>3 DEF FinishInvariant
  <1>4. CASE EndTurn
    <2>1. /\ spc = "end_turn" /\ Push(ActionsMessage(received)) /\ UNCHANGED ticks
          /\ \/ spc' = "watch" /\ turn' = turn
             \/ turn < NbPlayers - 1 /\ turn' = turn + 1 /\ spc' = "turn"
             \/ turn >= NbPlayers - 1 /\ turn' = turn /\ spc' = "end_round"
      BY <1>0, <1>4, PlayersAssumption DEF EndTurn, PushActions, NextTurn, gameVars, Player
    <2>2. /\ ActionsMessage(received) \in Message
          /\ ActionsMessage(received).type = "actions"
      BY <1>0, MessageFacts DEF ActionsMessage
    <2>3. published[Len(published)].id = turn
      BY <2>1 DEF LogInvariant, ServerLog
    <2>4. /\ turn >= NbPlayers - 1 <=> turn = LastPlayer
          /\ turn < NbPlayers - 1 => turn # LastPlayer
      BY <1>0, SpectatorFacts DEF LastPlayer
    <2>5. ~Closing /\ (Closing' <=> turn = LastPlayer)
      BY <2>1, <2>4 DEF Closing
    <2>6. ServerTicks'
      <3>1. spc' \notin {"start", "done"} /\ (spc' # "end_round" \/ turn' = LastPlayer)
        BY <2>1, <2>4
      <3> QED
        BY <1>0, <2>1, <2>2, <2>3, <2>5, <3>1, ServerTicksPush
    <2> QED
      BY <1>c, <2>1, <2>2, <2>6 DEF FinishInvariant
  <1>5. CASE BeginWatch
    <2>1. /\ Push(IdMessage(watcher)) /\ spc = "watch" /\ spc' = "watching"
          /\ UNCHANGED <<turn, ticks>> /\ watcher \in Spectator
      BY <1>0, <1>5 DEF BeginWatch, StreamInvariant, ServerInStream, gameVars
    <2>2. /\ IdMessage(watcher) \in Message /\ IdMessage(watcher).id \notin Player
          /\ IdMessage(watcher).type = "id"
      BY <2>1, MessageFacts, ClientFacts DEF IdMessage
    <2>3. Closing' <=> Closing
      BY <2>1 DEF Closing
    <2>4. ServerTicks'
      BY <1>0, <2>1, <2>2, <2>3, ServerTicksPush
    <2> QED
      BY <1>c, <2>1, <2>2, <2>4 DEF FinishInvariant
  <1>6. CASE ReceiveWatch
    <2>1. /\ spc = "watching" /\ UNCHANGED <<published, ticks>>
          /\ \/ spc' = "watch" /\ turn' = turn
             \/ turn < NbPlayers - 1 /\ turn' = turn + 1 /\ spc' = "turn"
             \/ turn >= NbPlayers - 1 /\ turn' = turn /\ spc' = "end_round"
      BY <1>0, <1>6, PlayersAssumption DEF ReceiveWatch, NextTurn, gameVars, Player
    <2>2. turn >= NbPlayers - 1 <=> turn = LastPlayer
      BY <1>0, SpectatorFacts DEF LastPlayer
    <2>3. Closing' <=> Closing
      BY <1>0, <2>1, <2>2, SpectatorFacts DEF Closing
    <2>4. ServerTicks'
      <3>1. CASE turn' = turn
        <4>1. spc' \notin {"start", "done"} /\ (spc' # "end_round" \/ turn = LastPlayer)
          BY <2>1, <2>2
        <4> QED
          BY <1>0, <2>1, <2>3, <3>1, <4>1, ServerTicksQuiet
      <3>2. CASE turn' # turn
        <4>1. spc' = "turn"
          BY <2>1, <3>2
        <4>2. /\ TicksAt(Len(published))' = TicksAt(Len(published))
              /\ \A i : TicksAt(i)' = TicksAt(i)
              /\ \A i : Announces(i)' <=> Announces(i)
              /\ Finished(Server)' <=> Finished(Server)
          BY <2>1 DEF TicksAt, Announces, Finished
        <4> QED
          BY <1>0, <2>1, <2>3, <4>1, <4>2 DEF ServerTicks
      <3> QED
        BY <3>1, <3>2
    <2> QED
      BY <1>b, <2>1, <2>4 DEF FinishInvariant
  <1>7. CASE EndRound
    <2>1. /\ spc = "end_round" /\ published' = published
          /\ ticks' = [ticks EXCEPT ![Server] = RoundTicks(ticks[Server])]
          /\ spc' = IF Finished(Server)' THEN "done" ELSE "turn"
      BY <1>7 DEF EndRound, socketVars
    <2>2. /\ turn = LastPlayer /\ ~Over(ticks[Server])
          /\ ticks[Server] + 1 = TicksAt(Len(published))
      BY <1>0, <2>1 DEF ServerTicks, Closing, Finished
    <2>3. ticks'[Server] = ticks[Server] + 1
      BY <1>0, <2>1, <2>2, TicksTypes, RoundTicksOnce
    <2>4. /\ TicksAt(Len(published))' = TicksAt(Len(published))
          /\ \A i : TicksAt(i)' = TicksAt(i)
          /\ \A i : Announces(i)' <=> Announces(i)
      BY <2>1 DEF TicksAt, Announces
    <2>5. ServerTicks'
      <3>1. ~Closing' /\ spc' \notin {"start", "end_round"}
        BY <2>1 DEF Closing
      <3>2. ticks'[Server] + (IF Closing' THEN 1 ELSE 0) = TicksAt(Len(published))'
        BY <1>0, <2>2, <2>3, <2>4, <3>1
      <3>3. spc' \notin {"start", "done", "fatal"} => ~Finished(Server)'
        BY <2>1
      <3>4. \A i \in 1 .. Len(published)' : Announces(i)' => TicksAt(i)' < Limit
        BY <1>0, <2>1, <2>4 DEF ServerTicks
      <3> QED
        BY <3>1, <3>2, <3>3, <3>4 DEF ServerTicks
    <2> QED
      BY <1>b, <2>1, <2>5 DEF FinishInvariant
  <1> QED
    BY <1>1, <1>2, <1>3, <1>4, <1>5, <1>6, <1>7 DEF ServerStep

\* What a client does to its own variables only.
LEMMA ClientAlone ==
    ASSUME TypeOK, NEW c \in Client, ClientStep(c) \/ Die(c)
    PROVE  /\ UNCHANGED <<published, serverVars>> /\ ticks'[Server] = ticks[Server]
           /\ \A d \in Client \ {c} :
                 UNCHANGED <<cursor[d], cpc[d], playing[d], previous[d], lastId[d],
                             lastRound[d], ticks[d]>>
  <1>1. /\ UNCHANGED <<published, serverVars>>
        /\ UNCHANGED cursor \/ Pull(c)
        /\ UNCHANGED cpc \/ \E v : cpc' = [cpc EXCEPT ![c] = v]
        /\ UNCHANGED playing \/ \E v : playing' = [playing EXCEPT ![c] = v]
        /\ UNCHANGED previous \/ \E v : previous' = [previous EXCEPT ![c] = v]
        /\ UNCHANGED lastId \/ \E v : lastId' = [lastId EXCEPT ![c] = v]
        /\ UNCHANGED lastRound \/ \E v : lastRound' = [lastRound EXCEPT ![c] = v]
        /\ UNCHANGED ticks \/ \E v : ticks' = [ticks EXCEPT ![c] = v]
    BY DEF ClientStep, ClientStart, PullOwnTurn, PullSpectatorTurn,
       PullPlayerTurn, Answer, PlayerAck, PullOwnActions, PlayerPullActions, PlayerEndTurn,
       SpectatorPullActions, SpectatorAck, Die, gameVars
  <1>2. /\ cursor \in [Client -> Nat] /\ DOMAIN cpc = Client /\ DOMAIN playing = Client
        /\ DOMAIN previous = Client /\ DOMAIN lastId = Client /\ DOMAIN lastRound = Client
        /\ DOMAIN ticks = Proc /\ Client \subseteq Proc /\ Server \in Proc /\ Server # c
        /\ cpc = [d \in Client |-> cpc[d]] /\ playing = [d \in Client |-> playing[d]]
        /\ previous = [d \in Client |-> previous[d]]
        /\ lastId = [d \in Client |-> lastId[d]]
        /\ lastRound = [d \in Client |-> lastRound[d]]
        /\ ticks = [d \in Proc |-> ticks[d]]
    BY ClientFacts DEF TypeOK, Proc
  <1>3. ticks'[Server] = ticks[Server]
    BY <1>1, <1>2
  <1>4. ASSUME NEW d \in Client \ {c}
        PROVE  UNCHANGED <<cursor[d], cpc[d], playing[d], previous[d], lastId[d],
                           lastRound[d], ticks[d]>>
    <2>1. cursor'[d] = cursor[d]
      BY <1>1, <1>2 DEF Pull
    <2>2. cpc'[d] = cpc[d] /\ playing'[d] = playing[d]
      BY <1>1, <1>2
    <2>3. previous'[d] = previous[d] /\ lastId'[d] = lastId[d]
      BY <1>1, <1>2
    <2>4. lastRound'[d] = lastRound[d] /\ ticks'[d] = ticks[d]
      BY <1>1, <1>2
    <2> QED
      BY <2>1, <2>2, <2>3, <2>4
  <1> QED
    BY <1>1, <1>3, <1>4

\* What is pulled, and the ticks there.
LEMMA PullTicks ==
    ASSUME StreamInvariant, FinishInvariant, NEW c \in Client, Pull(c), UNCHANGED published,
           NEW k \in Nat, k = cursor[c]
    PROVE  /\ cursor'[c] = k + 1 /\ k + 1 \in 1 .. Len(published)
           /\ NextMessage(c) = published[k + 1] /\ published[k + 1] \in Message
           /\ published[k + 1].type = "actions" <=> Announces(k)
           /\ TicksAt(k) \in Nat
           /\ TicksAt(cursor[c])' = TicksAt(k) +
                 IF Announces(k) /\ published[k].id = LastPlayer THEN 1 ELSE 0
           /\ Announces(k + 1) => TicksAt(k) < Limit
  <1>1. /\ cursor'[c] = k + 1 /\ k + 1 \in 1 .. Len(published)
        /\ NextMessage(c) = published[k + 1] /\ published[k + 1] \in Message
        /\ published[k + 1].type = "actions" <=> Announces(k)
    BY PullFacts DEF NextMessage
  <1>2. TicksAt(k + 1) = TicksAt(k) + IF k + 1 \in RoundEnds(published) THEN 1 ELSE 0
    BY TicksFacts
  <1>3. TicksAt(k) \in Nat /\ TicksAt(k) <= TicksAt(k + 1) /\ TicksAt(k + 1) \in Nat
    BY TicksFacts
  <1>4. k + 1 \in RoundEnds(published) <=> Announces(k) /\ published[k].id = LastPlayer
    <2>1. k + 1 \in RoundEnds(published) <=>
              k + 1 \in 2 .. Len(published) /\ Announces(k) /\ published[k + 1 - 1].id = LastPlayer
      BY <1>1 DEF RoundEnds
    <2>2. k + 1 - 1 = k /\ (Announces(k) => k >= 2)
      BY DEF Announces
    <2> QED
      BY <1>1, <2>1, <2>2
  <1>5. TicksAt(cursor[c])' = TicksAt(k + 1)
    BY <1>1 DEF TicksAt
  <1>6. Announces(k + 1) => TicksAt(k) < Limit
    <2>1. Announces(k + 1) => TicksAt(k + 1) < Limit
      BY <1>1 DEF FinishInvariant, ServerTicks
    <2> QED
      BY <1>3, <2>1, LimitAssumption
  <1> QED
    BY <1>1, <1>2, <1>3, <1>4, <1>5, <1>6

LEMMA FinishStart ==
    ASSUME FinishHook # "player_turn",
           StreamInvariant, LogInvariant, WatchInvariant, FinishInvariant,
           NEW c \in Client, ClientStart(c)
    PROVE  ClientPlace(c)' /\ ClientTicks(c)' /\ ~Behind(c)'
  <1>1. /\ cpc[c] = "start" /\ Pull(c) /\ published' = published
        /\ lastId' = [lastId EXCEPT ![c] = NextMessage(c).id]
        /\ ticks' = [ticks EXCEPT ![c] = ticks[c] + Hit("start_of_round")]
        /\ cpc' = [cpc EXCEPT ![c] = IF Finished(c)' THEN "done" ELSE "await"]
        /\ lastRound' = lastRound
    BY DEF ClientStart
  <1>2. PICK k \in Nat : k = cursor[c]
    BY LogTypes DEF StreamInvariant
  <1>3. k = 0 /\ ticks[c] = 0 /\ ~lastRound[c]
    BY <1>1, <1>2 DEF StreamInvariant, ClientInStream, FinishInvariant, ClientPlace
  <1>a. /\ cursor'[c] = k + 1 /\ k + 1 \in 1 .. Len(published)
        /\ NextMessage(c) = published[k + 1] /\ TicksAt(k) \in Nat
        /\ TicksAt(cursor[c])' = TicksAt(k) +
              IF Announces(k) /\ published[k].id = LastPlayer THEN 1 ELSE 0
    BY <1>1, <1>2, PullTicks
  <1>4. cursor'[c] = 1 /\ 1 \in 1 .. Len(published) /\ NextMessage(c) = published[1]
    BY <1>3, <1>a
  <1>5. published[1] = IdMessage(LastPlayer)
    BY <1>4 DEF WatchInvariant, WatchOrder
  <1>6. TicksAt(cursor[c])' = Hit("start_of_round") /\ Hit("start_of_round") \in Nat
    <2>1. TicksAt(cursor[c])' = TicksAt(0)
      BY <1>3, <1>a DEF Announces
    <2> QED
      BY <2>1, TicksFacts, HitType
  <1>7. /\ lastId'[c] = LastPlayer /\ ticks'[c] = Hit("start_of_round")
        /\ cpc'[c] = IF Finished(c)' THEN "done" ELSE "await"
        /\ ~lastRound'[c]
    BY <1>1, <1>3, <1>4, <1>5, <1>6, TicksTypes
    DEF IdMessage, StreamInvariant, TypeOK, Proc
  <1>8. ~Owed(c)' /\ ~Behind(c)'
    BY <1>4, <1>7 DEF Owed, Behind
  <1>9. ClientPlace(c)'
    BY <1>4, <1>7 DEF ClientPlace
  <1>10. ClientTicks(c)'
    BY <1>6, <1>7, <1>8 DEF ClientTicks
  <1> QED
    BY <1>8, <1>9, <1>10

\* A client that is going to be called, and where it stands.
LEMMA AwaitFacts ==
    ASSUME StreamInvariant, WatchInvariant, FinishInvariant,
           NEW c \in Client, cpc[c] = "await", Pull(c), UNCHANGED published,
           NEW k \in Nat, k = cursor[c], published[k + 1].type = "id"
    PROVE  /\ published[k + 1].id \in Client
           /\ k >= 1
           /\ published[k + 1].id \in Spectator =>
                 /\ k >= 2 /\ (published[k + 1].id = NbPlayers => playing[c] \in Player)
                 /\ published[k + 1].id # NbPlayers => playing[c] = published[k + 1].id - 1
           /\ published[k + 1].id \in Player => ~Behind(c)
  <1>1. /\ k + 1 \in 1 .. Len(published) /\ published[k + 1] \in Message
        /\ published[k + 1].type = "actions" <=> Announces(k)
    BY PullTicks
  <1>2. published[k + 1].id \in Client
    BY <1>1, MessageFacts
  <1>3. k >= 1 /\ k + 1 \in 2 .. Len(published) /\ k + 1 - 1 = k
    BY <1>1 DEF FinishInvariant, ClientPlace
  <1>4. \/ published[k + 1].id \in Player /\ EndsTurn(k)
        \/ published[k + 1].id \in Spectator /\ Precedes(k, published[k + 1].id)
    BY <1>3 DEF WatchInvariant, WatchOrder, CalledInPlace
  <1>5. k >= 2 => playing[c] = IF published[k].type = "id"
                               THEN published[k].id ELSE published[k - 1].id
    BY DEF FinishInvariant, ClientPlace
  <1>6. ASSUME published[k + 1].id \in Spectator
        PROVE  /\ k >= 2 /\ (published[k + 1].id = NbPlayers => playing[c] \in Player)
               /\ published[k + 1].id # NbPlayers => playing[c] = published[k + 1].id - 1
    <2>1. Precedes(k, published[k + 1].id)
      BY <1>4, <1>6, SpectatorFacts
    <2>2. CASE published[k + 1].id = NbPlayers
      <3>1. published[k].type = "actions" /\ k \in DOMAIN published
        BY <1>1, <1>3, <2>1, <2>2 DEF Precedes
      <3>2. Announces(k - 1)
        BY <3>1 DEF StreamInvariant, StreamShape
      <3>3. k >= 2 /\ published[k - 1].id \in Player
        BY <3>2 DEF Announces
      <3> QED
        BY <1>5, <2>2, <3>1, <3>3
    <2>3. CASE published[k + 1].id # NbPlayers
      <3>1. Calls(k, published[k + 1].id - 1)
        BY <2>1, <2>3 DEF Precedes
      <3> QED
        BY <1>5, <2>3, <3>1 DEF Calls
    <2> QED
      BY <2>2, <2>3
  <1>7. ASSUME published[k + 1].id \in Player PROVE ~Behind(c)
    <2>1. EndsTurn(k)
      BY <1>4, <1>7, SpectatorFacts
    <2>2. SUFFICES ASSUME c \in Spectator, k >= 2 PROVE playing[c] = LastSpectator
      BY SpectatorFacts DEF Behind, LastSpectator
    <2>3. NbSpectators > 0 /\ c <= LastSpectator /\ c \in Nat
      BY <2>2, SpectatorFacts
    <2>4. Calls(k, LastSpectator)
      BY <2>1, <2>2, <2>3 DEF EndsTurn
    <2>5. playing[c] = LastSpectator
      BY <1>5, <2>2, <2>4 DEF Calls
    <2> QED
      BY <2>3, <2>5
  <1> QED
    BY <1>2, <1>3, <1>6, <1>7

LEMMA FinishOwnTurn ==
    ASSUME FinishHook # "player_turn",
           StreamInvariant, LogInvariant, WatchInvariant, FinishInvariant,
           NEW c \in Client, PullOwnTurn(c)
    PROVE  ClientPlace(c)' /\ ClientTicks(c)' /\ (c \in Spectator => Behind(c)) /\ ~Behind(c)'
  <1>1. /\ cpc[c] = "await" /\ Pull(c) /\ published' = published /\ NextMessage(c).id = c
        /\ playing' = [playing EXCEPT ![c] = c]
        /\ cpc' = [cpc EXCEPT ![c] = "my_turn"]
        /\ ticks' = [ticks EXCEPT ![c] =
                        ticks[c] + IF c \in Player THEN Hit("player_turn") ELSE 0]
        /\ UNCHANGED <<previous, lastId, lastRound>>
    BY DEF PullOwnTurn, MyTurn
  <1>2. PICK k \in Nat : k = cursor[c]
    BY LogTypes DEF StreamInvariant
  <1>3. /\ cursor'[c] = k + 1 /\ NextMessage(c) = published[k + 1]
        /\ published[k + 1].type = "actions" <=> Announces(k)
        /\ TicksAt(k) \in Nat
        /\ TicksAt(cursor[c])' = TicksAt(k) +
              IF Announces(k) /\ published[k].id = LastPlayer THEN 1 ELSE 0
        /\ Announces(k + 1) => TicksAt(k) < Limit
        /\ published[k + 1] \in Message
    BY <1>1, <1>2, PullTicks
  <1>4. k >= 1 /\ ~Announces(k) /\ published[k + 1].type = "id"
    BY <1>1, <1>2, <1>3, MessageFacts DEF StreamInvariant, ClientInStream
  <1>5. /\ cpc'[c] = "my_turn" /\ playing'[c] = c /\ ticks'[c] = ticks[c]
        /\ ticks[c] \in Nat
    BY <1>1, RoundTicksOnce, TicksTypes DEF StreamInvariant, TypeOK, Proc
  <1>6. TicksAt(cursor[c])' = TicksAt(k)
    BY <1>3, <1>4
  <1>7. c \in Spectator => Behind(c)
    <2>1. ASSUME c \in Spectator PROVE k >= 2 /\ playing[c] < c
      <3>1. /\ k >= 2 /\ (c = NbPlayers => playing[c] \in Player)
            /\ c # NbPlayers => playing[c] = c - 1
        BY <1>1, <1>2, <1>3, <1>4, <2>1, AwaitFacts
      <3> QED
        BY <2>1, <3>1, SpectatorFacts
    <2> QED
      BY <1>1, <1>2, <2>1 DEF Behind
  <1>8. Owed(c)' <=> Owed(c)
    BY <1>1, <1>5, <1>7, ClientFacts DEF Owed, Behind
  <1>9. ClientPlace(c)'
    BY <1>1, <1>2, <1>3, <1>4, <1>5 DEF FinishInvariant, ClientPlace, Calls
  <1>10. /\ ticks[c] + (IF Owed(c) /\ previous[c] = LastPlayer THEN 1 ELSE 0) = TicksAt(k)
         /\ Finished(c) <=> lastRound[c]
         /\ lastRound[c] => c \in Spectator /\ ~Behind(c)
    BY <1>1, <1>2 DEF FinishInvariant, ClientTicks, Gone
  <1>11. ~lastRound[c] /\ ~Finished(c) /\ ~Finished(c)'
    BY <1>5, <1>7, <1>10 DEF Finished
  <1>12. ClientTicks(c)'
    BY <1>1, <1>5, <1>6, <1>8, <1>10, <1>11 DEF ClientTicks
  <1> QED
    BY <1>5, <1>7, <1>9, <1>12 DEF Behind

LEMMA FinishSpectatorTurn ==
    ASSUME StreamInvariant, LogInvariant, WatchInvariant, FinishInvariant,
           NEW c \in Client, PullSpectatorTurn(c)
    PROVE  ClientPlace(c)' /\ ClientTicks(c)' /\ (Behind(c)' <=> Behind(c))
  <1>1. /\ cpc[c] = "await" /\ Pull(c) /\ published' = published
        /\ NextMessage(c).id # c /\ NextMessage(c).id \in Spectator
        /\ playing' = [playing EXCEPT ![c] = NextMessage(c).id]
        /\ UNCHANGED <<cpc, previous, lastId, lastRound, ticks>>
    BY DEF PullSpectatorTurn, MyTurn, gameVars
  <1>2. PICK k \in Nat : k = cursor[c]
    BY LogTypes DEF StreamInvariant
  <1>3. /\ cursor'[c] = k + 1 /\ NextMessage(c) = published[k + 1]
        /\ published[k + 1].type = "actions" <=> Announces(k)
        /\ TicksAt(k) \in Nat
        /\ TicksAt(cursor[c])' = TicksAt(k) +
              IF Announces(k) /\ published[k].id = LastPlayer THEN 1 ELSE 0
        /\ published[k + 1] \in Message
    BY <1>1, <1>2, PullTicks
  <1>4. k >= 1 /\ ~Announces(k) /\ published[k + 1].type = "id"
    BY <1>1, <1>2, <1>3, MessageFacts DEF StreamInvariant, ClientInStream
  <1>5. PICK d \in Spectator : d = published[k + 1].id
    BY <1>1, <1>3
  <1>6. playing'[c] = d /\ d # c
    BY <1>1, <1>3, <1>5 DEF StreamInvariant, TypeOK
  <1>7. TicksAt(cursor[c])' = TicksAt(k)
    BY <1>3, <1>4
  <1>8. /\ k >= 2 /\ (d = NbPlayers => playing[c] \in Player)
        /\ d # NbPlayers => playing[c] = d - 1
    BY <1>1, <1>2, <1>3, <1>4, <1>5, AwaitFacts
  <1>9. c \in Spectator => (playing[c] < c <=> d < c)
    BY <1>6, <1>8, SpectatorFacts
  <1>10. Behind(c)' <=> Behind(c)
    BY <1>1, <1>2, <1>3, <1>6, <1>8, <1>9 DEF Behind
  <1>11. Owed(c)' <=> Owed(c)
    BY <1>1, <1>10 DEF Owed
  <1>12. ClientPlace(c)'
    BY <1>1, <1>2, <1>3, <1>4, <1>5, <1>6 DEF FinishInvariant, ClientPlace
  <1>13. ClientTicks(c)'
    BY <1>1, <1>2, <1>7, <1>10, <1>11 DEF FinishInvariant, ClientTicks, Finished, Gone
  <1> QED
    BY <1>10, <1>12, <1>13

LEMMA FinishPlayerTurn ==
    ASSUME FinishHook # "player_turn",
           StreamInvariant, LogInvariant, WatchInvariant, FinishInvariant,
           NEW c \in Client, PullPlayerTurn(c)
    PROVE  ClientPlace(c)' /\ ClientTicks(c)' /\ ~Behind(c) /\ ~Behind(c)'
  <1>1. /\ cpc[c] = "await" /\ Pull(c) /\ published' = published
        /\ NextMessage(c).id # c /\ NextMessage(c).id \in Player
        /\ playing' = [playing EXCEPT ![c] = NextMessage(c).id]
        /\ previous' = [previous EXCEPT ![c] =
                            IF c \in Spectator THEN NextMessage(c).id ELSE previous[c]]
        /\ cpc' = [cpc EXCEPT ![c] = "actions"]
        /\ ticks' = [ticks EXCEPT ![c] = ticks[c] + Hit("player_turn")]
        /\ UNCHANGED <<lastId, lastRound>>
    BY DEF PullPlayerTurn, MyTurn
  <1>2. PICK k \in Nat : k = cursor[c]
    BY LogTypes DEF StreamInvariant
  <1>3. /\ cursor'[c] = k + 1 /\ NextMessage(c) = published[k + 1]
        /\ published[k + 1].type = "actions" <=> Announces(k)
        /\ TicksAt(k) \in Nat
        /\ TicksAt(cursor[c])' = TicksAt(k) +
              IF Announces(k) /\ published[k].id = LastPlayer THEN 1 ELSE 0
        /\ Announces(k + 1) => TicksAt(k) < Limit
        /\ published[k + 1] \in Message
    BY <1>1, <1>2, PullTicks
  <1>4. k >= 1 /\ ~Announces(k) /\ published[k + 1].type = "id"
    BY <1>1, <1>2, <1>3, MessageFacts DEF StreamInvariant, ClientInStream
  <1>5. /\ cpc'[c] = "actions" /\ ticks'[c] = ticks[c] /\ ticks[c] \in Nat
        /\ c \in Spectator => previous'[c] = playing'[c]
    BY <1>1, RoundTicksOnce, TicksTypes DEF StreamInvariant, TypeOK, Proc
  <1>6. TicksAt(cursor[c])' = TicksAt(k) /\ TicksAt(k) < Limit
    BY <1>1, <1>3, <1>4 DEF Announces
  <1>7. ~Behind(c)
    BY <1>1, <1>2, <1>3, <1>4, AwaitFacts
  <1>8. ~Owed(c) /\ ~Owed(c)'
    BY <1>1, <1>5, <1>7 DEF Owed, Behind
  <1>9. ClientPlace(c)'
    BY <1>1, <1>2, <1>3, <1>4, <1>5 DEF FinishInvariant, ClientPlace
  <1>10. ticks[c] = TicksAt(k) /\ (Finished(c) <=> lastRound[c])
    BY <1>1, <1>2, <1>5, <1>8 DEF FinishInvariant, ClientTicks
  <1>11. ~lastRound[c] /\ ~Finished(c)'
    BY <1>5, <1>6, <1>10, LimitAssumption DEF Finished, Over
  <1>12. ClientTicks(c)'
    BY <1>1, <1>5, <1>6, <1>8, <1>10, <1>11 DEF ClientTicks
  <1> QED
    BY <1>5, <1>7, <1>9, <1>12 DEF Behind

LEMMA FinishAnswers ==
    ASSUME FinishInvariant, NEW c \in Client, TypeOK, Answer(c) \/ PlayerAck(c)
    PROVE  ClientPlace(c)' /\ ClientTicks(c)'
  <1>1. /\ UNCHANGED <<cursor, playing, previous, lastId, lastRound, ticks, published>>
        /\ \/ cpc[c] = "my_turn" /\ cpc'[c] = "ack"
           \/ cpc[c] = "ack" /\ cpc'[c] = "own_actions" /\ c \in Player
    BY DEF Answer, PlayerAck, TypeOK, gameVars
  <1>2. Owed(c)' <=> Owed(c)
    BY <1>1, ClientFacts DEF Owed, Behind
  <1>3. TicksAt(cursor[c])' = TicksAt(cursor[c]) /\ (Finished(c)' <=> Finished(c))
    BY <1>1 DEF TicksAt, Finished
  <1>4. ClientPlace(c)'
    BY <1>1 DEF FinishInvariant, ClientPlace, Calls
  <1>5. ClientTicks(c)'
    BY <1>1, <1>2, <1>3 DEF FinishInvariant, ClientTicks, Gone
  <1> QED
    BY <1>4, <1>5

LEMMA FinishDies ==
    ASSUME FinishInvariant, NEW c \in Client, TypeOK, Die(c)
    PROVE  ClientPlace(c)' /\ ClientTicks(c)'
  <1>1. cpc'[c] = "dead"
    BY DEF Die, TypeOK
  <1> QED
    BY <1>1 DEF ClientPlace, ClientTicks, Gone

\* The end of a player's turn for player c, and of the round after that of the
\* last one.
LEMMA FinishPlayer ==
    ASSUME FinishHook # "player_turn",
           StreamInvariant, LogInvariant, WatchInvariant, FinishInvariant,
           NEW c \in Client, c \in Player, Pull(c), PlayerEndTurn(c),
           UNCHANGED <<published, playing, previous, lastId, lastRound>>,
           cpc[c] \in {"own_actions", "actions"},
           playing[c] = published[cursor[c]].id
    PROVE  ClientPlace(c)' /\ ClientTicks(c)'
  <1>2. PICK k \in Nat : k = cursor[c]
    BY LogTypes DEF StreamInvariant
  <1>3. /\ cursor'[c] = k + 1
        /\ published[k + 1].type = "actions" <=> Announces(k)
        /\ TicksAt(k) \in Nat
        /\ TicksAt(cursor[c])' = TicksAt(k) +
              IF Announces(k) /\ published[k].id = LastPlayer THEN 1 ELSE 0
    BY <1>2, PullTicks
  <1>4. Announces(k) /\ published[k + 1].type = "actions" /\ k >= 2
    BY <1>2, <1>3 DEF StreamInvariant, ClientInStream, Announces
  <1>5. /\ lastId[c] = LastPlayer /\ ticks[c] = TicksAt(k)
        /\ ~lastRound[c] /\ ~Finished(c)
    <2>1. ~Owed(c) /\ ticks[c] \in Nat
      BY SpectatorFacts, TicksTypes DEF Owed, StreamInvariant, Proc
    <2> QED
      BY <1>2, <2>1, SpectatorFacts DEF FinishInvariant, ClientPlace, ClientTicks, Gone
  <1>6. ticks' = [ticks EXCEPT ![c] =
                    IF playing[c] = lastId[c] THEN RoundTicks(ticks[c]) ELSE ticks[c]]
    BY DEF PlayerEndTurn
  <1>7. RoundTicks(ticks[c]) = ticks[c] + 1 /\ ticks[c] \in Nat
    BY <1>3, <1>5, RoundTicksOnce DEF Finished
  <1>8. ticks'[c] = TicksAt(cursor[c])'
    BY <1>2, <1>3, <1>4, <1>5, <1>6, <1>7, TicksTypes DEF StreamInvariant, TypeOK, Proc
  <1>9. cpc'[c] = IF Finished(c)' THEN "done" ELSE "await"
    BY DEF PlayerEndTurn, StreamInvariant, TypeOK
  <1>10. ~Owed(c)'
    BY SpectatorFacts DEF Owed
  <1>11. published[k + 1 - 1].id = playing[c]
    BY <1>2
  <1>12. ClientPlace(c)'
    BY <1>2, <1>3, <1>4, <1>5, <1>9, <1>11 DEF ClientPlace
  <1>13. ClientTicks(c)'
    <2>1. ticks'[c] \in Nat
      BY <1>3, <1>8
    <2> QED
      BY <1>5, <1>8, <1>9, <1>10, <2>1 DEF ClientTicks, Gone
  <1> QED
    BY <1>12, <1>13

LEMMA FinishPlayerActions ==
    ASSUME FinishHook # "player_turn",
           StreamInvariant, LogInvariant, WatchInvariant, FinishInvariant,
           NEW c \in Client, PullOwnActions(c) \/ PlayerPullActions(c)
    PROVE  ClientPlace(c)' /\ ClientTicks(c)'
  <1>1. CASE PullOwnActions(c)
    <2>1. /\ cpc[c] = "own_actions" /\ Pull(c) /\ PlayerEndTurn(c)
          /\ UNCHANGED <<published, playing, previous, lastId, lastRound>>
      BY <1>1 DEF PullOwnActions
    <2>2. Ahead(c)
      BY <2>1 DEF LogInvariant, ClientLog
    <2>3. Announces(cursor[c]) /\ published[cursor[c]].id = c
      BY <2>2 DEF LogInvariant, ClientLog
    <2>4. c \in Player /\ playing[c] = c
      BY <2>1, <2>3 DEF Announces, FinishInvariant, ClientPlace
    <2> QED
      BY <2>1, <2>3, <2>4, FinishPlayer
  <1>2. CASE PlayerPullActions(c)
    <2>1. /\ cpc[c] = "actions" /\ Pull(c) /\ c \in Player
          /\ PlayerEndTurn(c) \/ cpc' = [cpc EXCEPT ![c] = "fatal"]
          /\ UNCHANGED <<published, playing, previous, lastId, lastRound>>
      BY <1>2 DEF PlayerPullActions
    <2>2. playing[c] = published[cursor[c]].id
      BY <2>1 DEF LogInvariant, ClientLog
    <2>3. CASE PlayerEndTurn(c)
      BY <2>1, <2>2, <2>3, FinishPlayer
    <2>4. CASE cpc' = [cpc EXCEPT ![c] = "fatal"]
      <3>1. cpc'[c] = "fatal"
        BY <2>4 DEF StreamInvariant, TypeOK
      <3> QED
        BY <3>1 DEF ClientPlace, ClientTicks, Gone
    <2> QED
      BY <2>1, <2>3, <2>4
  <1> QED
    BY <1>1, <1>2

LEMMA FinishSpectatorActions ==
    ASSUME FinishHook # "player_turn",
           StreamInvariant, LogInvariant, WatchInvariant, FinishInvariant,
           NEW c \in Client, SpectatorPullActions(c)
    PROVE  ClientPlace(c)' /\ ClientTicks(c)' /\ ~Behind(c) /\ (cpc'[c] = "fatal" \/ Behind(c)')
  <1>1. /\ cpc[c] = "actions" /\ Pull(c) /\ c \in Spectator
        /\ \/ cpc' = [cpc EXCEPT ![c] = IF lastRound[c] \/ Finished(c)
                                         THEN "done" ELSE "await"]
           \/ cpc' = [cpc EXCEPT ![c] = "fatal"]
        /\ UNCHANGED <<published, playing, previous, lastId, lastRound, ticks>>
    BY DEF SpectatorPullActions
  <1>2. PICK k \in Nat : k = cursor[c]
    BY LogTypes DEF StreamInvariant
  <1>3. /\ cursor'[c] = k + 1
        /\ published[k + 1].type = "actions" <=> Announces(k)
        /\ TicksAt(k) \in Nat
        /\ TicksAt(cursor[c])' = TicksAt(k) +
              IF Announces(k) /\ published[k].id = LastPlayer THEN 1 ELSE 0
    BY <1>1, <1>2, PullTicks
  <1>4. Announces(k) /\ published[k + 1].type = "actions" /\ k >= 2
    BY <1>1, <1>2, <1>3 DEF StreamInvariant, ClientInStream, Announces
  <1>5. /\ lastId[c] = LastPlayer /\ ticks[c] = TicksAt(k)
        /\ ~lastRound[c] /\ ~Finished(c) /\ previous[c] = playing[c]
    <2>1. ~Owed(c) /\ ticks[c] \in Nat
      BY <1>1, TicksTypes DEF Owed, Behind, StreamInvariant, Proc
    <2> QED
      BY <1>1, <1>2, <2>1 DEF FinishInvariant, ClientPlace, ClientTicks, Gone
  <1>6. playing[c] = published[k].id /\ playing[c] \in Player /\ playing[c] < c
    <2>1. playing[c] = published[k].id /\ playing[c] \in Player
      BY <1>1, <1>2, <1>4 DEF LogInvariant, ClientLog, Announces
    <2> QED
      BY <1>1, <2>1, SpectatorFacts
  <1>7. CASE cpc' = [cpc EXCEPT ![c] = "fatal"]
    <2>1. cpc'[c] = "fatal"
      BY <1>7 DEF StreamInvariant, TypeOK
    <2> QED
      BY <1>1, <2>1 DEF ClientPlace, ClientTicks, Gone, Behind
  <1>8. CASE cpc' = [cpc EXCEPT ![c] = IF lastRound[c] \/ Finished(c) THEN "done" ELSE "await"]
    <2>1. cpc'[c] = "await"
      BY <1>5, <1>8 DEF StreamInvariant, TypeOK
    <2>2. Owed(c)' /\ Behind(c)'
      BY <1>1, <1>3, <1>4, <1>6, <2>1 DEF Owed, Behind
    <2>3. published[k + 1 - 1].id = playing[c]
      BY <1>6
    <2>4. ClientPlace(c)'
      BY <1>1, <1>3, <1>4, <1>5, <2>1, <2>3 DEF ClientPlace
    <2>5. ticks'[c] + (IF previous'[c] = LastPlayer THEN 1 ELSE 0) = TicksAt(cursor[c])'
      BY <1>1, <1>3, <1>4, <1>5, <1>6
    <2>6. Finished(c)' <=> Finished(c)
      BY <1>1 DEF Finished
    <2>7. ClientTicks(c)'
      BY <1>1, <1>5, <2>1, <2>2, <2>5, <2>6 DEF ClientTicks
    <2> QED
      BY <1>1, <2>2, <2>4, <2>7 DEF Behind
  <1> QED
    BY <1>1, <1>7, <1>8 DEF Behind

LEMMA FinishSpectatorAck ==
    ASSUME FinishHook # "player_turn",
           StreamInvariant, LogInvariant, WatchInvariant, FinishInvariant,
           NEW c \in Client, SpectatorAck(c)
    PROVE  ClientPlace(c)' /\ ClientTicks(c)' /\ ~Behind(c) /\ ~Behind(c)'
  <1> DEFINE endsRound == ~lastRound[c] /\ lastId[c] = previous[c]
             over == Over(ticks[c] + Hit("end_of_round"))
  <1>1. /\ cpc[c] = "ack" /\ c \in Spectator
        /\ ticks' = [ticks EXCEPT ![c] = IF endsRound THEN RoundTicks(ticks[c]) ELSE ticks[c]]
        /\ lastRound' = [lastRound EXCEPT ![c] = lastRound[c] \/ (endsRound /\ over)]
        /\ cpc' = [cpc EXCEPT ![c] =
                      IF lastRound[c] \/ (~lastRound'[c] /\ Finished(c)')
                      THEN "done" ELSE "await"]
        /\ UNCHANGED <<published, cursor, playing, previous, lastId>>
    BY DEF SpectatorAck
  <1>2. /\ Owed(c) /\ ~lastRound[c] /\ ~Finished(c) /\ playing[c] = c /\ cursor[c] >= 1
        /\ lastId[c] = LastPlayer
        /\ ticks[c] + (IF previous[c] = LastPlayer THEN 1 ELSE 0) = TicksAt(cursor[c])
    BY <1>1 DEF FinishInvariant, ClientPlace, ClientTicks, Owed, Gone
  <1>3. endsRound <=> previous[c] = LastPlayer
    BY <1>2
  <1>4. ticks[c] \in Nat /\ RoundTicks(ticks[c]) = ticks[c] + 1 /\ Limit \in Nat
    BY <1>2, RoundTicksOnce, TicksTypes, LimitAssumption
    DEF Finished, StreamInvariant, TypeOK, Proc
  <1>5. ticks'[c] = TicksAt(cursor[c])
    BY <1>1, <1>2, <1>3, <1>4, TicksTypes DEF StreamInvariant, TypeOK, Proc
  <1>6. TicksAt(cursor[c])' = TicksAt(cursor[c])
    BY <1>1 DEF TicksAt
  <1>7. Hit("end_of_round") \in {0, 1}
    BY DEF Hit
  <1>8. lastRound'[c] <=> endsRound /\ over
    BY <1>1, <1>2, Zenon DEF StreamInvariant, TypeOK
  <1>9. lastRound'[c] => Finished(c)'
    <2>1. over => Over(ticks[c] + 1)
      BY <1>4, <1>7 DEF Over
    <2>2. endsRound => ticks'[c] = ticks[c] + 1
      BY <1>2, <1>3, <1>5
    <2> QED
      BY <1>8, <2>1, <2>2 DEF Finished
  <1>10. cpc'[c] = IF ~lastRound'[c] /\ Finished(c)' THEN "done" ELSE "await"
    BY <1>1, <1>2 DEF StreamInvariant, TypeOK
  <1>11. /\ playing'[c] = c /\ previous'[c] = previous[c] /\ lastId'[c] = LastPlayer
         /\ c \in Nat /\ cursor'[c] = cursor[c]
    BY <1>1, <1>2, SpectatorFacts
  <1>12. ~Behind(c)' /\ ~Owed(c)'
    BY <1>10, <1>11 DEF Behind, Owed
  <1>13. ~Gone(c)' => cpc'[c] = "await"
    BY <1>10 DEF Gone
  <1>14. ClientPlace(c)'
    <2>1. published[cursor[c]].type = "id" /\ published[cursor[c]].id = c
      BY <1>1 DEF FinishInvariant, ClientPlace, Calls
    <2> QED
      BY <1>1, <1>2, <1>10, <1>11, <2>1 DEF ClientPlace
  <1>15. ClientTicks(c)'
    <2>1. ticks'[c] + (IF Owed(c)' /\ previous'[c] = LastPlayer THEN 1 ELSE 0)
              = TicksAt(cursor[c])'
      <3>1. TicksAt(cursor[c]) \in Nat
        BY TicksFacts, LogTypes DEF StreamInvariant
      <3> QED
        BY <1>5, <1>6, <1>12, <3>1
    <2> QED
      BY <1>1, <1>9, <1>10, <1>12, <1>13, <2>1 DEF ClientTicks
  <1> QED
    BY <1>1, <1>12, <1>14, <1>15 DEF Behind

LEMMA FinishClient ==
    ASSUME FinishHook # "player_turn",
           StreamInvariant, LogInvariant, WatchInvariant, FinishInvariant,
           NEW c \in Client, ClientStep(c) \/ Die(c)
    PROVE  FinishInvariant'
  <1>0. TypeOK
    BY DEF StreamInvariant
  <1>1. /\ UNCHANGED <<published, serverVars>> /\ ticks'[Server] = ticks[Server]
        /\ \A d \in Client \ {c} :
              UNCHANGED <<cursor[d], cpc[d], playing[d], previous[d], lastId[d],
                          lastRound[d], ticks[d]>>
    BY <1>0, ClientAlone
  <1>2. ServerTicks'
    <2>1. /\ TicksAt(Len(published))' = TicksAt(Len(published))
          /\ \A i : TicksAt(i)' = TicksAt(i)
          /\ \A i : Announces(i)' <=> Announces(i)
          /\ Finished(Server)' <=> Finished(Server)
          /\ Closing' <=> Closing
          /\ UNCHANGED <<spc, turn>>
      BY <1>1 DEF TicksAt, Announces, Finished, Closing, serverVars
    <2> QED
      BY <1>1, <2>1 DEF FinishInvariant, ServerTicks
  <1>3. ASSUME NEW d \in Client \ {c} PROVE ClientPlace(d)' /\ ClientTicks(d)'
    <2>1. /\ \A i \in 1 .. Len(published) : published'[i] = published[i]
          /\ \A i \in 0 .. Len(published) : TicksIn(published', i) = TicksAt(i)
      BY <1>1 DEF TicksIn, TicksAt
    <2> QED
      BY <1>1, <2>1, FinishStays DEF FinishInvariant
  <1>4. ClientPlace(c)' /\ ClientTicks(c)'
    BY <1>0, FinishStart, FinishOwnTurn, FinishSpectatorTurn, FinishPlayerTurn,
       FinishAnswers, FinishPlayerActions, FinishSpectatorActions,
       FinishSpectatorAck, FinishDies
    DEF ClientStep
  <1> QED
    BY <1>2, <1>3, <1>4 DEF FinishInvariant

LEMMA FinishUnchanged ==
    ASSUME FinishInvariant, UNCHANGED vars
    PROVE  FinishInvariant'
  <1>1. /\ TicksAt(Len(published))' = TicksAt(Len(published))
        /\ \A i : TicksAt(i)' = TicksAt(i)
        /\ \A i : Announces(i)' <=> Announces(i)
        /\ \A p : Finished(p)' <=> Finished(p)
        /\ Closing' <=> Closing
        /\ UNCHANGED <<published, cursor, spc, turn, cpc, playing, previous, lastId,
                       lastRound, log, ticks>>
    BY DEF vars, socketVars, serverVars, clientVars, gameVars, TicksAt, Announces,
       Finished, Closing
  <1>2. ServerTicks'
    BY <1>1 DEF FinishInvariant, ServerTicks
  <1>3. \A c \in Client : ClientPlace(c)'
    BY <1>1 DEF FinishInvariant, ClientPlace, Calls
  <1>4. \A c \in Client : ClientTicks(c)'
    <2> SUFFICES ASSUME NEW c \in Client PROVE ClientTicks(c)'
      OBVIOUS
    <2>1. /\ Owed(c)' <=> Owed(c)
          /\ Behind(c)' <=> Behind(c)
          /\ TicksAt(cursor[c])' = TicksAt(cursor[c])
      BY <1>1 DEF Owed, Behind, TicksAt
    <2> QED
      BY <1>1, <2>1 DEF FinishInvariant, ClientTicks, Gone
  <1> QED
    BY <1>2, <1>3, <1>4 DEF FinishInvariant

LEMMA FinishHolds ==
    ASSUME FinishHook # "player_turn"
    PROVE  Spec => []FinishInvariant
  <1>1. Init => FinishInvariant
    BY DEF Init, SocketsInit, FinishInvariant, ServerTicks, ClientPlace, ClientTicks, Proc
  <1>2. StreamInvariant /\ LogInvariant /\ WatchInvariant /\ FinishInvariant /\ [Next]_vars
            => FinishInvariant'
    BY FinishServer, FinishClient, FinishUnchanged DEF Next, Terminated
  <1> QED
    BY <1>1, <1>2, StreamSafety, LogSafety, WatchHolds, PTL DEF Spec

\* A client that has found the game over has pulled the whole stream but for
\* calls of spectators, and the server is past the last turn.
LEMMA OverFacts ==
    ASSUME StreamInvariant, FinishInvariant, NEW c \in Client, cpc[c] = "done"
    PROVE  /\ Turns(cursor[c]) = Turns(Len(published))
           /\ spc \notin {"start", "turn", "poll", "end_turn"}
  <1>1. PICK k \in Nat, n \in Nat : k = cursor[c] /\ n = Len(published)
    BY LogTypes DEF StreamInvariant
  <1>2. k <= n /\ k >= 1
    BY <1>1 DEF StreamInvariant, ClientInStream, FinishInvariant, ClientPlace
  <1>3. TicksAt(k) >= Limit
    <2>1. ticks[c] = TicksAt(k) /\ ticks[c] >= Limit
      <3>1. ~Owed(c) /\ ticks[c] \in Nat
        BY TicksTypes DEF Owed, Behind, StreamInvariant, Proc
      <3> QED
        BY <1>1, <3>1 DEF FinishInvariant, ClientTicks, Finished, Over
    <2> QED
      BY <2>1
  <1>4. \A i \in Nat : k <= i => TicksAt(i) >= Limit /\ TicksAt(i) \in Nat
    <2>1. ASSUME NEW i \in Nat, k <= i
          PROVE  TicksAt(i) >= Limit /\ TicksAt(i) \in Nat
      <3>1. /\ TicksAt(k) \in Nat /\ TicksAt(i) \in Nat
            /\ TicksAt(k) <= TicksAt(i)
        BY <2>1, TicksFacts
      <3>2. Limit \in Nat
        BY LimitAssumption
      <3> QED
        BY <1>3, <3>1, <3>2
    <2> QED
      BY <2>1
  <1>5. \A i \in k .. n : ~Announces(i)
    <2>1. \A i \in k .. n : i \in 1 .. n /\ i \in Nat /\ k <= i
      BY <1>2
    <2> QED
      BY <1>1, <1>4, <2>1, LimitAssumption DEF FinishInvariant, ServerTicks
  <1>6. {j \in 1 .. k : published[j].type = "actions"} =
            {j \in 1 .. n : published[j].type = "actions"}
    <2>1. ASSUME NEW j \in 1 .. n, published[j].type = "actions" PROVE j <= k
      <3>1. Announces(j - 1)
        BY <1>1, <2>1 DEF StreamInvariant, StreamShape
      <3> QED
        BY <1>2, <1>5, <3>1
    <2> QED
      BY <1>2, <2>1
  <1>7. Turns(k) = Turns(n)
    BY <1>6 DEF Turns, TurnsOf
  <1>8. spc \notin {"poll", "end_turn"}
    BY <1>1, <1>2, <1>5 DEF StreamInvariant, ServerInStream
  <1>9. spc # "start"
    BY <1>1, <1>2 DEF StreamInvariant, ServerInStream
  <1>10. spc # "turn"
    <2>1. SUFFICES ASSUME spc = "turn" PROVE FALSE
      OBVIOUS
    <2>2. ticks[Server] = TicksAt(n) /\ ~Finished(Server) /\ ticks[Server] \in Nat
      BY <1>1, <2>1, TicksTypes DEF FinishInvariant, ServerTicks, Closing, StreamInvariant, Proc
    <2> QED
      BY <1>2, <1>4, <2>2, LimitAssumption DEF Finished, Over
  <1> QED
    BY <1>1, <1>7, <1>8, <1>9, <1>10

\* The end of the game is found by every process for itself: whoever has left
\* its loop has the whole game state of the server, which will have no other
\* turn, when the game ends at the start or at the end of a round.  In a turn
\* it does not, since the server finishes the round on its own.
THEOREM FinalStateIsShared ==
    ASSUME MaxConsecutiveTimeout > 0, FinishHook # "player_turn"
    PROVE  Spec => []SharedFinalState
  <1>1. /\ StreamInvariant /\ LogInvariant /\ FinishInvariant
        /\ Punctual => StateInvariant
        => SharedFinalState
    <2> SUFFICES ASSUME StreamInvariant, LogInvariant, FinishInvariant, StateInvariant,
                        NEW c \in Client, cpc[c] = "done"
                 PROVE  /\ log[c] = log[Server]
                        /\ spc \in {"watch", "watching", "end_round", "done"}
      BY DEF SharedFinalState
    <2>1. /\ Turns(cursor[c]) = Turns(Len(published))
          /\ spc \notin {"start", "turn", "poll", "end_turn"}
      BY OverFacts
    <2>2. spc \in {"watch", "watching", "end_round", "done"}
      BY <2>1 DEF StateInvariant, NoSyncError, StreamInvariant, TypeOK
    <2>3. /\ log[c] \in Seq(Turn) /\ log[Server] \in Seq(Turn)
          /\ Len(log[c]) \in Nat /\ Len(log[Server]) \in Nat
          /\ cursor[c] \in Nat /\ Len(published) \in Nat
      BY LogTypes DEF StreamInvariant
    <2>4. Turns(cursor[c]) \in Nat
      BY <2>3, TurnsFacts
    <2>5. Len(log[Server]) = Turns(Len(published))
      BY <2>1, <2>3, TurnsFacts DEF LogInvariant, ServerLog
    <2>6. Len(log[c]) = Turns(cursor[c])
      BY <2>3, <2>4 DEF LogInvariant, ClientLog, Ahead
    <2>7. \A i \in 1 .. Len(log[c]) : log[c][i] = log[Server][i]
      BY <2>1, <2>3, <2>5, <2>6 DEF StateInvariant, SamePrefix, Shorter
    <2>8. log[c] = log[Server]
      BY <2>1, <2>3, <2>5, <2>6, <2>7
    <2> QED
      BY <2>2, <2>8
  <1> QED
    BY <1>1, StreamSafety, LogSafety, FinishHolds, StateSafety, PTL

-----------------------------------------------------------------------------
(* What a spectator has watched.                                            *)

\* The calls of spectator c in a stream, how many there are in the first i
\* messages, and how many of its turns the server has saved.
CallsIn(stream, c) ==
    {i \in 2 .. Len(stream) : stream[i].type = "id" /\ stream[i].id = c}

CallsOf(c, i) == UpTo(CallsIn(published, c), i)

SavedFor(file, c) == Cardinality({i \in DOMAIN file : file[i].client = c})

\* The server has saved a turn of a spectator for each of its calls but the
\* one it has not been answered for; a spectator that follows the match has
\* been called after each turn it has applied, or will be.
SeenInvariant ==
    \A c \in Spectator :
       /\ SavedFor(replay, c) + (IF spc = "watching" /\ watcher = c THEN 1 ELSE 0)
             = CallsOf(c, Len(published))
       /\ spc = "watching" /\ watcher = c /\ cursor[c] = Len(published) =>
             cpc[c] \notin {"await", "done"} /\ c \notin replies
       /\ cpc[c] \notin {"dead", "fatal"} =>
             Turns(cursor[c]) = CallsOf(c, cursor[c]) + IF Behind(c) THEN 1 ELSE 0

LEMMA SavedOne ==
    ASSUME NEW S, NEW file \in Seq(S), NEW e \in S, NEW c
    PROVE  /\ SavedFor(file, c) \in Nat
           /\ SavedFor(Append(file, e), c) =
                 SavedFor(file, c) + IF e.client = c THEN 1 ELSE 0
  <1>1. PICK n \in Nat : n = Len(file)
    OBVIOUS
  <1>2. PICK longer : longer = Append(file, e)
    OBVIOUS
  <1>3. /\ DOMAIN file = 1 .. n /\ DOMAIN longer = 1 .. n + 1 /\ longer[n + 1] = e
        /\ \A i \in 1 .. n : longer[i] = file[i]
    BY <1>1, <1>2
  <1> DEFINE own == {i \in 1 .. n : file[i].client = c}
  <1>4. IsFiniteSet(own) /\ Cardinality(own) \in Nat /\ n + 1 \notin own
    <2>1. IsFiniteSet(1 .. n) /\ own \subseteq 1 .. n
      BY FS_Interval
    <2>2. IsFiniteSet(own)
      BY <2>1, FS_Subset
    <2> QED
      BY <2>1, <2>2, FS_CardinalityType
  <1>5. {i \in 1 .. n + 1 : longer[i].client = c} =
            IF e.client = c THEN own \union {n + 1} ELSE own
    BY <1>3
  <1>6. SavedFor(file, c) = Cardinality(own)
    BY <1>3 DEF SavedFor
  <1>7. SavedFor(longer, c) = Cardinality(IF e.client = c THEN own \union {n + 1} ELSE own)
    BY <1>3, <1>5 DEF SavedFor
  <1> HIDE DEF own
  <1>8. Cardinality(own \union {n + 1}) = Cardinality(own) + 1
    BY <1>4, FS_AddElement
  <1> QED
    BY <1>2, <1>4, <1>6, <1>7, <1>8

LEMMA CallsFacts ==
    ASSUME NEW c
    PROVE  /\ CallsOf(c, 0) = 0 /\ CallsOf(c, 1) = 0
           /\ \A i \in Nat : CallsOf(c, i) \in Nat
           /\ \A i \in Nat : CallsOf(c, i + 1) =
                 CallsOf(c, i) + IF i + 1 \in CallsIn(published, c) THEN 1 ELSE 0
           /\ \A i, j \in Nat : i <= j => CallsOf(c, i) <= CallsOf(c, j)
  <1> DEFINE S == CallsIn(published, c)
  <1>1. 1 \notin S
    BY DEF CallsIn
  <1> HIDE DEF S
  <1>2. /\ UpTo(S, 0) = 0
        /\ \A i \in Nat : UpTo(S, i) \in Nat
        /\ \A i \in Nat : UpTo(S, i + 1) = UpTo(S, i) + IF i + 1 \in S THEN 1 ELSE 0
        /\ \A i, j \in Nat : i <= j => UpTo(S, i) <= UpTo(S, j)
    BY UpToFacts
  <1>3. UpTo(S, 1) = 0
    <2>1. UpTo(S, 0 + 1) = UpTo(S, 0) + 0
      BY <1>1, <1>2
    <2> QED
      BY <1>2, <2>1
  <1>4. \A i : CallsOf(c, i) = UpTo(S, i)
    BY DEF CallsOf, S
  <1> QED
    BY <1>2, <1>3, <1>4 DEF S

\* Pushing a message adds a call if it is one.
LEMMA CallsPush ==
    ASSUME StreamInvariant, NEW c, NEW m \in Message, Push(m)
    PROVE  /\ \A i \in 0 .. Len(published) :
                 UpTo(CallsIn(published', c), i) = CallsOf(c, i)
           /\ UpTo(CallsIn(published', c), Len(published) + 1) =
                 CallsOf(c, Len(published)) +
                 IF published # <<>> /\ m.type = "id" /\ m.id = c THEN 1 ELSE 0
  <1>1. published \in Seq(Message)
    BY LogTypes DEF StreamInvariant
  <1>2. PICK n \in Nat : n = Len(published)
    BY <1>1
  <1>3. /\ Len(published') = n + 1 /\ published'[n + 1] = m
        /\ \A i \in 1 .. n : published'[i] = published[i]
    BY <1>1, <1>2, PushFacts
  <1>4. \A i \in 0 .. n : UpTo(CallsIn(published', c), i) = UpTo(CallsIn(published, c), i)
    <2> DEFINE S == CallsIn(published', c)
               T == CallsIn(published, c)
    <2>1. \A i \in 1 .. n : i \in S <=> i \in T
      BY <1>2, <1>3 DEF CallsIn
    <2> HIDE DEF S, T
    <2>2. \A i \in 0 .. n : UpTo(S, i) = UpTo(T, i)
      BY <2>1, UpToSame
    <2> QED
      BY <2>2 DEF S, T
  <1>5. n + 1 \in CallsIn(published', c) <=> n >= 1 /\ m.type = "id" /\ m.id = c
    <2>1. n + 1 \in 2 .. n + 1 <=> n >= 1
      OBVIOUS
    <2> QED
      BY <1>3, <2>1 DEF CallsIn
  <1>6. UpTo(CallsIn(published', c), n + 1) = UpTo(CallsIn(published', c), n) +
            IF n + 1 \in CallsIn(published', c) THEN 1 ELSE 0
    BY UpToFacts
  <1>7. UpTo(CallsIn(published', c), n) = CallsOf(c, n) /\ CallsOf(c, n) \in Nat
    BY <1>4, CallsFacts DEF CallsOf
  <1>8. n >= 1 <=> published # <<>>
    BY <1>1, <1>2
  <1> QED
    BY <1>2, <1>4, <1>5, <1>6, <1>7, <1>8 DEF CallsOf

\* A server step leaves what a spectator has seen as it was.
LEMMA SeenStays ==
    ASSUME StreamInvariant, NEW c \in Client, NEW n \in Nat, n = Len(published),
           UNCHANGED <<cursor, clientVars>>,
           \A i \in 1 .. n : published'[i] = published[i],
           \A i \in 0 .. n : UpTo(CallsIn(published', c), i) = CallsOf(c, i)
    PROVE  /\ Turns(cursor[c])' = Turns(cursor[c])
           /\ CallsOf(c, cursor[c])' = CallsOf(c, cursor[c])
           /\ Behind(c)' <=> Behind(c)
  <1>1. PICK k \in Nat : k = cursor[c] /\ k <= n
    BY LogTypes DEF StreamInvariant, ClientInStream
  <1>2. Turns(cursor[c])' = Turns(cursor[c])
    <2>1. {j \in 1 .. k : published'[j].type = "actions"} =
              {j \in 1 .. k : published[j].type = "actions"}
      BY <1>1
    <2> QED
      BY <1>1, <2>1 DEF Turns, TurnsOf
  <1>3. CallsOf(c, cursor[c])' = CallsOf(c, cursor[c])
    <2>1. UpTo(CallsIn(published', c), k) = CallsOf(c, k)
      BY <1>1
    <2> QED
      BY <1>1, <2>1 DEF CallsOf
  <1>4. Behind(c)' <=> Behind(c)
    BY DEF Behind, clientVars
  <1> QED
    BY <1>2, <1>3, <1>4

SavedTurn == [client : Client, actions : Seq(Action)]

LEMMA SeenServer ==
    ASSUME StreamInvariant, StreamInvariant', WatchInvariant, SeenInvariant, ServerStep
    PROVE  SeenInvariant'
  <1> SUFFICES ASSUME NEW c \in Spectator
               PROVE  /\ SavedFor(replay', c) +
                            (IF spc' = "watching" /\ watcher' = c THEN 1 ELSE 0)
                            = CallsOf(c, Len(published))'
                      /\ spc' = "watching" /\ watcher' = c /\ cursor'[c] = Len(published') =>
                            cpc'[c] \notin {"await", "done"} /\ c \notin replies'
                      /\ cpc'[c] \notin {"dead", "fatal"} =>
                            Turns(cursor[c])' = CallsOf(c, cursor[c])' +
                                IF Behind(c)' THEN 1 ELSE 0
    BY DEF SeenInvariant
  <1>0. /\ published \in Seq(Message) /\ turn \in Player /\ received \in Seq(Action)
        /\ replay \in Seq(SavedTurn) /\ c \in Client /\ received' \in Seq(Action)
        /\ c \notin Player /\ Player \subseteq Client
    BY LogTypes, ClientFacts, SpectatorFacts DEF StreamInvariant, TypeOK, SavedTurn
  <1>1. PICK n \in Nat : n = Len(published)
    BY <1>0
  <1>2. /\ SavedFor(replay, c) + (IF spc = "watching" /\ watcher = c THEN 1 ELSE 0)
              = CallsOf(c, n)
        /\ SavedFor(replay, c) \in Nat /\ CallsOf(c, n) \in Nat
        /\ cpc[c] \notin {"dead", "fatal"} =>
              Turns(cursor[c]) = CallsOf(c, cursor[c]) + IF Behind(c) THEN 1 ELSE 0
        /\ cursor[c] <= n
    <2>1. PICK e \in SavedTurn : e.client = c
      <3>1. [client |-> c, actions |-> received] \in SavedTurn
        BY <1>0 DEF SavedTurn
      <3> QED
        BY <3>1
    <2>2. SavedFor(replay, c) \in Nat
      BY <1>0, <2>1, SavedOne
    <2>3. CallsOf(c, n) \in Nat
      BY CallsFacts
    <2>4. cursor[c] <= n
      BY <1>0, <1>1 DEF StreamInvariant, ClientInStream
    <2>5. /\ SavedFor(replay, c) + (IF spc = "watching" /\ watcher = c THEN 1 ELSE 0)
                = CallsOf(c, n)
          /\ cpc[c] \notin {"dead", "fatal"} =>
                Turns(cursor[c]) = CallsOf(c, cursor[c]) + IF Behind(c) THEN 1 ELSE 0
      BY <1>1 DEF SeenInvariant
    <2> QED
      BY <2>2, <2>3, <2>4, <2>5
  <1>3. UNCHANGED <<cursor, clientVars>>
    BY DEF ServerStep, StartMatch, BeginTurn, ReceiveAnswer, TimeoutAnswer, EndTurn,
       BeginWatch, ReceiveWatch, EndRound, RecvAndAck, socketVars
  <1>a. ASSUME UNCHANGED published
        PROVE  /\ CallsOf(c, Len(published))' = CallsOf(c, n)
               /\ cpc'[c] \notin {"dead", "fatal"} =>
                     Turns(cursor[c])' = CallsOf(c, cursor[c])' + IF Behind(c)' THEN 1 ELSE 0
    <2>1. CallsOf(c, Len(published))' = CallsOf(c, n)
      BY <1>1, <1>a DEF CallsOf
    <2>2. /\ \A i \in 1 .. n : published'[i] = published[i]
          /\ \A i \in 0 .. n : UpTo(CallsIn(published', c), i) = CallsOf(c, i)
      BY <1>a DEF CallsOf
    <2>3. /\ Turns(cursor[c])' = Turns(cursor[c])
          /\ CallsOf(c, cursor[c])' = CallsOf(c, cursor[c])
          /\ Behind(c)' <=> Behind(c)
          /\ cpc' = cpc
      BY <1>0, <1>1, <1>3, <2>2, SeenStays DEF clientVars
    <2> QED
      BY <1>2, <2>1, <2>3
  <1>b. ASSUME NEW m \in Message, Push(m)
        PROVE  /\ CallsOf(c, Len(published))' = CallsOf(c, n) +
                     IF n >= 1 /\ m.type = "id" /\ m.id = c THEN 1 ELSE 0
               /\ Len(published') = n + 1
               /\ cpc'[c] \notin {"dead", "fatal"} =>
                     Turns(cursor[c])' = CallsOf(c, cursor[c])' + IF Behind(c)' THEN 1 ELSE 0
    <2>0. published # <<>> <=> n >= 1
      BY <1>0, <1>1
    <2>1. /\ Len(published') = n + 1 /\ (published # <<>> <=> n >= 1)
          /\ \A i \in 1 .. n : published'[i] = published[i]
      BY <1>0, <1>1, <1>b, <2>0, PushFacts
    <2>2. /\ \A i \in 0 .. n : UpTo(CallsIn(published', c), i) = CallsOf(c, i)
          /\ UpTo(CallsIn(published', c), n + 1) = CallsOf(c, n) +
                IF n >= 1 /\ m.type = "id" /\ m.id = c THEN 1 ELSE 0
      BY <1>1, <1>b, <2>1, CallsPush
    <2>3. CallsOf(c, Len(published))' = UpTo(CallsIn(published', c), n + 1)
      BY <2>1 DEF CallsOf
    <2>4. /\ Turns(cursor[c])' = Turns(cursor[c])
          /\ CallsOf(c, cursor[c])' = CallsOf(c, cursor[c])
          /\ Behind(c)' <=> Behind(c)
          /\ cpc' = cpc
      BY <1>0, <1>1, <1>3, <2>1, <2>2, SeenStays DEF clientVars
    <2> QED
      BY <1>2, <2>1, <2>2, <2>3, <2>4
  <1>4. CASE StartMatch
    <2>1. /\ Push(IdMessage(LastPlayer)) /\ UNCHANGED replay /\ spc = "start"
          /\ spc' # "watching"
      BY <1>4 DEF StartMatch
    <2>2. /\ IdMessage(LastPlayer) \in Message /\ IdMessage(LastPlayer).id # c
      BY <1>0, MessageFacts, ClientFacts DEF IdMessage
    <2> QED
      BY <1>2, <1>b, <2>1, <2>2
  <1>5. CASE BeginTurn
    <2>1. /\ Push(IdMessage(turn)) /\ UNCHANGED replay /\ spc = "turn" /\ spc' # "watching"
      BY <1>5 DEF BeginTurn
    <2>2. /\ IdMessage(turn) \in Message /\ IdMessage(turn).id # c
      BY <1>0, MessageFacts, ClientFacts DEF IdMessage
    <2> QED
      BY <1>2, <1>b, <2>1, <2>2
  <1>6. CASE ReceiveAnswer \/ TimeoutAnswer \/ EndRound
    <2>1. /\ UNCHANGED <<published, replay>> /\ spc # "watching" /\ spc' # "watching"
      BY <1>6 DEF ReceiveAnswer, TimeoutAnswer, EndRound, socketVars
    <2> QED
      BY <1>2, <1>a, <2>1
  <1>7. CASE EndTurn
    <2>1. /\ Push(ActionsMessage(received)) /\ spc = "end_turn" /\ spc' # "watching"
          /\ replay' = Append(replay, [client |-> turn, actions |-> received])
      BY <1>7 DEF EndTurn, PushActions, NextTurn, Saved
    <2>2. /\ ActionsMessage(received) \in Message
          /\ ActionsMessage(received).type # "id"
      BY <1>0, MessageFacts DEF ActionsMessage
    <2>3. PICK e \in SavedTurn : e = [client |-> turn, actions |-> received]
      BY <1>0 DEF SavedTurn
    <2>4. SavedFor(Append(replay, e), c) = SavedFor(replay, c)
      BY <1>0, <1>2, <2>3, SavedOne
    <2> QED
      BY <1>2, <1>b, <2>1, <2>2, <2>3, <2>4
  <1>8. CASE BeginWatch
    <2>1. /\ Push(IdMessage(watcher)) /\ spc = "watch" /\ spc' = "watching"
          /\ UNCHANGED <<replay, watcher>> /\ watcher \in Spectator /\ n >= 1
      BY <1>0, <1>1, <1>8 DEF BeginWatch, StreamInvariant, ServerInStream
    <2>2. /\ IdMessage(watcher) \in Message /\ IdMessage(watcher).id = watcher
          /\ IdMessage(watcher).type = "id"
      BY <2>1, MessageFacts, ClientFacts DEF IdMessage
    <2>3. Len(published') = n + 1 /\ cursor'[c] # n + 1
      BY <1>2, <1>3, <1>b, <2>1, <2>2, LogTypes DEF StreamInvariant
    <2> QED
      BY <1>2, <1>b, <2>1, <2>2, <2>3
  <1>9. CASE ReceiveWatch
    <2>1. /\ published' = published /\ spc = "watching" /\ spc' # "watching"
          /\ replay' = Append(replay, [client |-> watcher, actions |-> received'])
          /\ watcher \in Spectator
      BY <1>9 DEF ReceiveWatch, NextTurn, Saved, StreamInvariant, ServerInStream
    <2>2. PICK e \in SavedTurn : e = [client |-> watcher, actions |-> received']
      BY <1>0, <2>1, ClientFacts DEF SavedTurn
    <2>3. SavedFor(Append(replay, e), c) = SavedFor(replay, c) + IF watcher = c THEN 1 ELSE 0
      BY <1>0, <2>2, SavedOne
    <2> QED
      BY <1>2, <1>a, <2>1, <2>2, <2>3
  <1> QED
    BY <1>4, <1>5, <1>6, <1>7, <1>8, <1>9 DEF ServerStep

\* What a spectator has counted, after a step of its own.
LEMMA SeenOwn ==
    ASSUME FinishHook # "player_turn",
           StreamInvariant, LogInvariant, WatchInvariant, FinishInvariant, SeenInvariant,
           NEW c \in Spectator, ClientStep(c), cpc'[c] \notin {"dead", "fatal"}
    PROVE  Turns(cursor[c])' = CallsOf(c, cursor[c])' + IF Behind(c)' THEN 1 ELSE 0
  <1>0. c \in Client /\ c \notin Player /\ cpc \in [Client -> {"start", "await", "my_turn",
            "ack", "own_actions", "actions", "done", "dead", "fatal"}]
        /\ published' = published
    BY ClientFacts, SpectatorFacts, ClientAlone DEF StreamInvariant, TypeOK
  <1>1. PICK k \in Nat : k = cursor[c]
    BY <1>0, LogTypes DEF StreamInvariant
  <1>2. cpc[c] \notin {"dead", "fatal"} =>
            Turns(k) = CallsOf(c, k) + IF Behind(c) THEN 1 ELSE 0
    BY <1>1 DEF SeenInvariant
  <1>3. Turns(k) \in Nat /\ CallsOf(c, k) \in Nat
    BY TurnsFacts, CallsFacts
  <1>4. ASSUME cursor'[c] = k
        PROVE  Turns(cursor[c])' = Turns(k) /\ CallsOf(c, cursor[c])' = CallsOf(c, k)
    BY <1>0, <1>4 DEF Turns, CallsOf
  <1>5. ASSUME Pull(c)
        PROVE  /\ Turns(cursor[c])' = Turns(k) +
                     IF published[k + 1].type = "actions" THEN 1 ELSE 0
               /\ k >= 1 => CallsOf(c, cursor[c])' = CallsOf(c, k) +
                     IF published[k + 1].type = "id" /\ published[k + 1].id = c THEN 1 ELSE 0
               /\ k = 0 => CallsOf(c, cursor[c])' = 0
               /\ published[k + 1].type \in {"id", "actions"}
               /\ published[k + 1].type = "actions" <=> Announces(k)
               /\ NextMessage(c) = published[k + 1]
    <2>1. /\ cursor'[c] = k + 1 /\ k + 1 \in 1 .. Len(published)
          /\ published[k + 1] \in Message /\ NextMessage(c) = published[k + 1]
          /\ published[k + 1].type = "actions" <=> Announces(k)
      BY <1>0, <1>1, <1>5, PullTicks
    <2>2. /\ Turns(cursor[c])' = Turns(k + 1)
          /\ CallsOf(c, cursor[c])' = CallsOf(c, k + 1)
      BY <1>0, <2>1 DEF Turns, CallsOf
    <2>3. /\ Turns(k + 1) = Turns(k) + IF published[k + 1].type = "actions" THEN 1 ELSE 0
          /\ CallsOf(c, k + 1) =
                CallsOf(c, k) + IF k + 1 \in CallsIn(published, c) THEN 1 ELSE 0
          /\ CallsOf(c, 1) = 0
      BY TurnsFacts, CallsFacts
    <2>4. k >= 1 => (k + 1 \in CallsIn(published, c) <=>
                        published[k + 1].type = "id" /\ published[k + 1].id = c)
      BY <2>1 DEF CallsIn
    <2>5. k = 0 => CallsOf(c, k + 1) = 0
      BY <2>3
    <2> QED
      BY <2>1, <2>2, <2>3, <2>4, <2>5, MessageFacts
  <1>6. cpc[c] \in {"await", "actions"} => k >= 1 /\ (cpc[c] = "await" <=> ~Announces(k))
    BY <1>0, <1>1 DEF StreamInvariant, ClientInStream, Announces
  <1>7. CASE ClientStart(c)
    <2>1. cpc[c] = "start" /\ Pull(c)
      BY <1>7 DEF ClientStart
    <2>2. k = 0 /\ ~Announces(k)
      BY <1>0, <1>1, <2>1 DEF StreamInvariant, ClientInStream, Announces
    <2>3. Turns(k) = 0
      BY <2>2, TurnsFacts
    <2>4. ~Behind(c)'
      BY <1>0, <1>7, FinishStart
    <2> QED
      BY <1>5, <2>1, <2>2, <2>3, <2>4
  <1>8. CASE PullOwnTurn(c)
    <2>1. cpc[c] = "await" /\ Pull(c) /\ NextMessage(c).id = c
      BY <1>8 DEF PullOwnTurn, MyTurn
    <2>2. Behind(c) /\ ~Behind(c)'
      BY <1>0, <1>8, FinishOwnTurn
    <2> QED
      BY <1>2, <1>3, <1>5, <1>6, <2>1, <2>2
  <1>9. CASE PullSpectatorTurn(c)
    <2>1. cpc[c] = "await" /\ Pull(c) /\ NextMessage(c).id # c
      BY <1>9 DEF PullSpectatorTurn, MyTurn
    <2>2. Behind(c)' <=> Behind(c)
      BY <1>0, <1>9, FinishSpectatorTurn
    <2> QED
      BY <1>2, <1>3, <1>5, <1>6, <2>1, <2>2
  <1>10. CASE PullPlayerTurn(c)
    <2>1. cpc[c] = "await" /\ Pull(c) /\ NextMessage(c).id # c
      BY <1>10 DEF PullPlayerTurn, MyTurn
    <2>2. ~Behind(c) /\ ~Behind(c)'
      BY <1>0, <1>10, FinishPlayerTurn
    <2> QED
      BY <1>2, <1>3, <1>5, <1>6, <2>1, <2>2
  <1>11. CASE Answer(c)
    <2>1. cpc[c] = "my_turn" /\ cpc'[c] = "ack" /\ cursor' = cursor
      BY <1>0, <1>11 DEF Answer
    <2>2. ~Behind(c) /\ ~Behind(c)'
      BY <2>1 DEF Behind
    <2> QED
      BY <1>1, <1>2, <1>4, <2>1, <2>2
  <1>12. CASE SpectatorPullActions(c)
    <2>1. cpc[c] = "actions" /\ Pull(c)
      BY <1>12 DEF SpectatorPullActions
    <2>2. ~Behind(c) /\ Behind(c)'
      BY <1>0, <1>12, FinishSpectatorActions
    <2> QED
      BY <1>2, <1>3, <1>5, <1>6, <2>1, <2>2
  <1>13. CASE SpectatorAck(c)
    <2>1. cpc[c] = "ack" /\ cursor' = cursor
      BY <1>13 DEF SpectatorAck
    <2>2. ~Behind(c) /\ ~Behind(c)'
      BY <1>0, <1>13, FinishSpectatorAck
    <2> QED
      BY <1>1, <1>2, <1>4, <2>1, <2>2
  <1>14. ~PlayerAck(c) /\ ~PlayerPullActions(c)
    BY <1>0 DEF PlayerAck, PlayerPullActions
  <1>15. ~PullOwnActions(c)
    <2>1. cpc[c] = "own_actions" => Announces(k) /\ published[k].id = c
      BY <1>0, <1>1 DEF LogInvariant, ClientLog
    <2> QED
      BY <1>0, <2>1 DEF PullOwnActions, Announces
  <1> QED
    BY <1>7, <1>8, <1>9, <1>10, <1>11, <1>12, <1>13, <1>14, <1>15 DEF ClientStep

\* The spectator the server waits for is on its way to the request it owes.
LEMMA SeenAwaited ==
    ASSUME StreamInvariant, LockStep, WatchInvariant, SeenInvariant,
           NEW c \in Spectator, ClientStep(c) \/ Die(c),
           spc = "watching", watcher = c, cursor'[c] = Len(published)
    PROVE  cpc'[c] \notin {"await", "done"} /\ c \notin replies'
  <1>0. /\ c \in Client /\ c \notin Player
        /\ cpc \in [Client -> {"start", "await", "my_turn", "ack", "own_actions",
                               "actions", "done", "dead", "fatal"}]
        /\ replies' \subseteq replies
    BY SpectatorFacts, ClientFacts, ClientEffects DEF StreamInvariant, TypeOK
  <1>1. PICK k \in Nat, n \in Nat : k = cursor[c] /\ n = Len(published)
    BY <1>0, LogTypes DEF StreamInvariant
  <1>2. n >= 2 /\ published[n].type = "id" /\ published[n].id = c
    BY <1>1 DEF WatchInvariant, ServerWatch, Calls
  <1>3. CASE Pull(c)
    <2>1. /\ k + 1 = n /\ NextMessage(c) = published[n]
          /\ NextMessage(c).type = "actions" <=> Announces(k)
      BY <1>0, <1>1, <1>3, PullFacts DEF NextMessage
    <2>2. k >= 1 /\ ~Announces(k)
      BY <1>2, <2>1
    <2>3. cpc[c] \notin {"start", "actions", "own_actions"}
      BY <1>0, <1>1, <2>2 DEF StreamInvariant, ClientInStream
    <2>4. k # n
      BY <2>1
    <2>5. ~Answer(c) /\ ~PlayerAck(c) /\ ~SpectatorAck(c) /\ ~Die(c)
      BY <1>0, <1>1, <1>3, <2>4, PullFacts DEF Answer, PlayerAck, SpectatorAck, Die
    <2>6. PullOwnTurn(c)
      <3>1. MyTurn(c)
        BY <1>2, <2>1 DEF MyTurn
      <3>2. ~ClientStart(c) /\ ~PullOwnActions(c) /\ ~PlayerPullActions(c)
            /\ ~SpectatorPullActions(c)
        BY <2>3 DEF ClientStart, PullOwnActions, PlayerPullActions, SpectatorPullActions
      <3>3. ~PullSpectatorTurn(c) /\ ~PullPlayerTurn(c)
        BY <3>1 DEF PullSpectatorTurn, PullPlayerTurn
      <3> QED
        BY <2>5, <3>2, <3>3 DEF ClientStep
    <2>7. cpc[c] = "await" /\ cpc'[c] = "my_turn"
      BY <1>0, <2>6 DEF PullOwnTurn
    <2>8. c \notin replies
      BY <1>0, <2>7 DEF LockStep
    <2> QED
      BY <1>0, <2>7, <2>8
  <1>4. CASE ~Pull(c)
    <2>1. cursor'[c] = cursor[c]
      BY <1>0, <1>4, ClientEffects
    <2>2. cpc[c] \notin {"await", "done"} /\ c \notin replies
      BY <1>1, <2>1 DEF SeenInvariant
    <2>3. Answer(c) \/ PlayerAck(c) \/ SpectatorAck(c) \/ Die(c)
      BY <1>4 DEF ClientStep, ClientStart, PullOwnTurn, PullSpectatorTurn,
         PullPlayerTurn, PullOwnActions, PlayerPullActions, SpectatorPullActions
    <2>4. ~PlayerAck(c) /\ ~SpectatorAck(c)
      BY <2>2 DEF PlayerAck, SpectatorAck, WaitForAck
    <2>5. cpc'[c] \in {"ack", "dead"}
      BY <1>0, <2>3, <2>4 DEF Answer, Die
    <2> QED
      BY <1>0, <2>2, <2>5
  <1> QED
    BY <1>3, <1>4

LEMMA SeenClient ==
    ASSUME FinishHook # "player_turn",
           StreamInvariant, LockStep, LogInvariant, WatchInvariant, FinishInvariant,
           SeenInvariant, NEW d \in Client, ClientStep(d) \/ Die(d)
    PROVE  SeenInvariant'
  <1>0. /\ UNCHANGED <<published, serverVars>>
        /\ \A c \in Client \ {d} : UNCHANGED <<cursor[c], cpc[c], playing[c]>>
        /\ replies' \subseteq replies
        /\ spc' = spc /\ watcher' = watcher /\ replay' = replay /\ published' = published
    BY ClientAlone, ClientEffects DEF StreamInvariant, serverVars
  <1> SUFFICES ASSUME NEW c \in Spectator
               PROVE  /\ SavedFor(replay', c) +
                            (IF spc' = "watching" /\ watcher' = c THEN 1 ELSE 0)
                            = CallsOf(c, Len(published))'
                      /\ spc' = "watching" /\ watcher' = c /\ cursor'[c] = Len(published') =>
                            cpc'[c] \notin {"await", "done"} /\ c \notin replies'
                      /\ cpc'[c] \notin {"dead", "fatal"} =>
                            Turns(cursor[c])' = CallsOf(c, cursor[c])' +
                                IF Behind(c)' THEN 1 ELSE 0
    BY DEF SeenInvariant
  <1>1. SavedFor(replay', c) + (IF spc' = "watching" /\ watcher' = c THEN 1 ELSE 0)
            = CallsOf(c, Len(published))'
    BY <1>0 DEF SeenInvariant, CallsOf
  <1>2. CASE c # d
    <2>1. UNCHANGED <<cursor[c], cpc[c], playing[c]>>
      BY <1>0, <1>2, ClientFacts
    <2>2. /\ Turns(cursor[c])' = Turns(cursor[c])
          /\ CallsOf(c, cursor[c])' = CallsOf(c, cursor[c])
      BY <1>0, <2>1 DEF Turns, CallsOf
    <2>3. Behind(c)' <=> Behind(c)
      BY <2>1 DEF Behind
    <2> QED
      BY <1>0, <1>1, <2>1, <2>2, <2>3 DEF SeenInvariant
  <1>3. CASE c = d
    <2>1. spc = "watching" /\ watcher = c /\ cursor'[c] = Len(published) =>
              cpc'[c] \notin {"await", "done"} /\ c \notin replies'
      BY <1>3, SeenAwaited
    <2>2. Die(c) => cpc'[c] = "dead"
      BY <1>3 DEF Die, StreamInvariant, TypeOK
    <2>3. ClientStep(c) /\ cpc'[c] \notin {"dead", "fatal"} =>
              Turns(cursor[c])' = CallsOf(c, cursor[c])' + IF Behind(c)' THEN 1 ELSE 0
      BY SeenOwn
    <2> QED
      BY <1>0, <1>1, <1>3, <2>1, <2>2, <2>3
  <1> QED
    BY <1>2, <1>3

LEMMA SeenUnchanged ==
    ASSUME SeenInvariant, UNCHANGED vars
    PROVE  SeenInvariant'
  <1>1. UNCHANGED <<published, cursor, replies, spc, watcher, replay, cpc, playing>>
    BY DEF vars, socketVars, serverVars, clientVars
  <1> SUFFICES ASSUME NEW c \in Spectator
               PROVE  /\ SavedFor(replay', c) +
                            (IF spc' = "watching" /\ watcher' = c THEN 1 ELSE 0)
                            = CallsOf(c, Len(published))'
                      /\ spc' = "watching" /\ watcher' = c /\ cursor'[c] = Len(published') =>
                            cpc'[c] \notin {"await", "done"} /\ c \notin replies'
                      /\ cpc'[c] \notin {"dead", "fatal"} =>
                            Turns(cursor[c])' = CallsOf(c, cursor[c])' +
                                IF Behind(c)' THEN 1 ELSE 0
    BY DEF SeenInvariant
  <1>2. /\ Turns(cursor[c])' = Turns(cursor[c])
        /\ CallsOf(c, cursor[c])' = CallsOf(c, cursor[c])
        /\ CallsOf(c, Len(published))' = CallsOf(c, Len(published))
        /\ Behind(c)' <=> Behind(c)
    BY <1>1 DEF Turns, CallsOf, Behind
  <1> QED
    BY <1>1, <1>2 DEF SeenInvariant

LEMMA SeenHolds ==
    ASSUME FinishHook # "player_turn"
    PROVE  Spec => []SeenInvariant
  <1>1. Init => SeenInvariant
    <2> SUFFICES ASSUME Init, NEW c \in Spectator
                 PROVE  /\ SavedFor(replay, c) +
                              (IF spc = "watching" /\ watcher = c THEN 1 ELSE 0)
                              = CallsOf(c, Len(published))
                        /\ spc # "watching"
                        /\ Turns(cursor[c]) = CallsOf(c, cursor[c]) + IF Behind(c) THEN 1 ELSE 0
      BY DEF SeenInvariant
    <2>1. /\ published = <<>> /\ Len(published) = 0 /\ cursor[c] = 0 /\ cpc[c] = "start"
          /\ replay = <<>> /\ spc = "start"
      BY ClientFacts DEF Init, SocketsInit
    <2>2. SavedFor(<<>>, c) = 0
      <3>1. SavedFor(<<>>, c) = Cardinality({})
        BY DEF SavedFor
      <3> QED
        BY <3>1, FS_EmptySet
    <2>3. CallsOf(c, 0) = 0 /\ Turns(0) = 0
      BY CallsFacts, TurnsFacts
    <2>4. ~Behind(c)
      BY <2>1 DEF Behind
    <2> QED
      BY <2>1, <2>2, <2>3, <2>4
  <1>2. StreamInvariant /\ StreamInvariant' /\ LockStep /\ LogInvariant /\ WatchInvariant
            /\ FinishInvariant /\ SeenInvariant /\ [Next]_vars => SeenInvariant'
    BY SeenServer, SeenClient, SeenUnchanged DEF Next, Terminated
  <1> QED
    BY <1>1, <1>2, StreamSafety, OneRequestAtATime, LogSafety, WatchHolds, FinishHolds,
       PTL DEF Spec

\* A spectator that has left its loop has watched every turn: the server has
\* saved a turn of its own after each of the turns it has applied.  When the
\* game ends in a turn it has not.
THEOREM EveryTurnIsSeen ==
    ASSUME FinishHook # "player_turn"
    PROVE  Spec => []SpectatorsSeeEveryTurn
  <1>1. StreamInvariant /\ LogInvariant /\ WatchInvariant /\ SeenInvariant
            => SpectatorsSeeEveryTurn
    <2> SUFFICES ASSUME StreamInvariant, LogInvariant, WatchInvariant, SeenInvariant,
                        NEW c \in Spectator, cpc[c] = "done"
                 PROVE  SavedFor(replay, c) >= Len(log[c])
      BY DEF SpectatorsSeeEveryTurn, SavedFor
    <2>1. PICK k \in Nat, n \in Nat : k = cursor[c] /\ n = Len(published)
      BY ClientFacts, LogTypes DEF StreamInvariant
    <2>2. k <= n /\ c \in Client
      BY <2>1, ClientFacts DEF StreamInvariant, ClientInStream
    <2>3. Turns(k) \in Nat /\ \A i \in Nat : CallsOf(c, i) \in Nat
      BY TurnsFacts, CallsFacts
    <2>4. Len(log[c]) = Turns(k)
      <3>1. Len(log[c]) \in Nat
        BY <2>2, LogTypes DEF StreamInvariant
      <3>2. ~Ahead(c) /\ Len(log[c]) >= Turns(k)
        BY <2>1, <2>2 DEF LogInvariant, ClientLog
      <3>3. ~(Len(log[c]) > Turns(k))
        BY <2>1, <3>2 DEF Ahead
      <3>4. PICK a \in Nat, b \in Nat : a = Len(log[c]) /\ b = Turns(k)
        BY <2>3, <3>1
      <3> QED
        BY <3>2, <3>3, <3>4
    <2>5. Turns(k) = CallsOf(c, k)
      <3>1. ~Behind(c)
        BY DEF Behind
      <3>2. Turns(k) = CallsOf(c, k) + 0
        BY <2>1, <3>1 DEF SeenInvariant
      <3> QED
        BY <2>3, <3>2
    <2>6. SavedFor(replay, c) + (IF spc = "watching" /\ watcher = c THEN 1 ELSE 0)
              = CallsOf(c, n)
      BY <2>1 DEF SeenInvariant
    <2>7. CallsOf(c, k) + (IF spc = "watching" /\ watcher = c THEN 1 ELSE 0) <= CallsOf(c, n)
      <3>1. CASE ~(spc = "watching" /\ watcher = c)
        <4>1. CallsOf(c, k) <= CallsOf(c, n)
          BY <2>2, CallsFacts
        <4> QED
          BY <2>3, <3>1, <4>1
      <3>2. CASE spc = "watching" /\ watcher = c
        <4>1. k # n
          BY <2>1, <3>2 DEF SeenInvariant
        <4>2. PICK m \in Nat : n = m + 1 /\ k <= m
          <5>1. n - 1 \in Nat /\ k <= n - 1
            BY <2>2, <4>1
          <5> QED
            BY <5>1
        <4>3. n \in CallsIn(published, c)
          BY <2>1, <3>2 DEF WatchInvariant, ServerWatch, Calls, CallsIn
        <4>4. CallsOf(c, m + 1) = CallsOf(c, m) + 1
          BY <4>2, <4>3, CallsFacts
        <4>5. CallsOf(c, k) <= CallsOf(c, m)
          BY <4>2, CallsFacts
        <4> QED
          BY <2>3, <3>2, <4>2, <4>4, <4>5
      <3> QED
        BY <3>1, <3>2
    <2>8. SavedFor(replay, c) \in Nat
      <3>1. [client |-> c, actions |-> received] \in SavedTurn /\ replay \in Seq(SavedTurn)
        BY <2>2 DEF StreamInvariant, TypeOK, SavedTurn
      <3> QED
        BY <3>1, SavedOne
    <2> QED
      BY <2>3, <2>4, <2>5, <2>6, <2>7, <2>8
  <1> QED
    BY <1>1, StreamSafety, LogSafety, WatchHolds, SeenHolds, PTL

-----------------------------------------------------------------------------
(* The replay of a match: where each turn of the server is, in its round    *)
(* and in the file it saves.                                                *)

LEMMA Multiples ==
    ASSUME NEW n \in Nat
    PROVE  /\ 0 * n = 0
           /\ \A k \in Nat : k * n \in Nat /\ (k + 1) * n = k * n + n
           /\ \A k, m \in Nat : k <= m => k * n <= m * n
           /\ \A k, m \in Nat : k < m => k * n + n <= m * n
  <1>1. \A k \in Nat : k * n \in Nat /\ (k + 1) * n = k * n + n
    OBVIOUS
  <1>2. ASSUME NEW k \in Nat, NEW m \in Nat, k <= m PROVE k * n <= m * n
    <2>1. PICK d \in Nat : m = k + d
      <3>1. m - k \in Nat /\ m = k + (m - k)
        BY <1>2
      <3> QED
        BY <3>1
    <2>2. m * n = k * n + d * n /\ d * n \in Nat /\ k * n \in Nat
      BY <2>1
    <2> QED
      BY <2>2
  <1>3. ASSUME NEW k \in Nat, NEW m \in Nat, k < m PROVE k * n + n <= m * n
    <2>1. k + 1 \in Nat /\ k + 1 <= m
      BY <1>3
    <2>2. (k + 1) * n <= m * n
      BY <1>2, <2>1
    <2> QED
      BY <1>1, <2>2
  <1>4. 0 * n = 0
    OBVIOUS
  <1> QED
    BY <1>1, <1>2, <1>3, <1>4

\* A place in groups of n is in one group only.
LEMMA OneGroup ==
    ASSUME NEW n \in Nat, NEW k \in Nat, NEW m \in Nat,
           NEW p \in 0 .. n - 1, NEW q \in 0 .. n - 1, k * n + p = m * n + q
    PROVE  k = m /\ p = q
  <1>1. k * n \in Nat /\ m * n \in Nat
    BY Multiples
  <1>2. ~(k < m)
    <2>1. k < m => k * n + n <= m * n
      BY Multiples
    <2> QED
      BY <1>1, <2>1
  <1>3. ~(m < k)
    <2>1. m < k => m * n + n <= k * n
      BY Multiples
    <2> QED
      BY <1>1, <2>1
  <1>4. k = m
    BY <1>2, <1>3
  <1> QED
    BY <1>1, <1>4

\* The turns of the first k rounds, and the lists saved for the first t turns.
TurnsBefore(k) == k * NbPlayers
ListsBefore(t) == t * (NbSpectators + 1)

\* How often the hook that ends the game runs in k rounds.
RoundHooks(k) == IF FinishHook = "player_turn" THEN TurnsBefore(k) ELSE k

LEMMA CountFacts ==
    /\ NbPlayers \in Nat \ {0} /\ NbSpectators \in Nat /\ Limit \in Nat \ {0}
    /\ TurnsBefore(0) = 0 /\ ListsBefore(0) = 0 /\ RoundHooks(0) = 0
    /\ \A k \in Nat : /\ TurnsBefore(k) \in Nat /\ ListsBefore(k) \in Nat
                      /\ RoundHooks(k) \in Nat
                      /\ TurnsBefore(k + 1) = TurnsBefore(k) + NbPlayers
                      /\ ListsBefore(k + 1) = ListsBefore(k) + NbSpectators + 1
                      /\ RoundHooks(k + 1) = RoundHooks(k) +
                            IF FinishHook = "player_turn" THEN NbPlayers ELSE 1
    /\ \A k, m \in Nat : k <= m => /\ TurnsBefore(k) <= TurnsBefore(m)
                                   /\ ListsBefore(k) <= ListsBefore(m)
                                   /\ RoundHooks(k) <= RoundHooks(m)
  <1>1. NbPlayers \in Nat \ {0} /\ NbSpectators \in Nat /\ Limit \in Nat \ {0}
    BY PlayersAssumption, SpectatorsAssumption, LimitAssumption
  <1>2. /\ TurnsBefore(0) = 0
        /\ \A k \in Nat : TurnsBefore(k) \in Nat /\ TurnsBefore(k + 1) = TurnsBefore(k) + NbPlayers
        /\ \A k, m \in Nat : k <= m => TurnsBefore(k) <= TurnsBefore(m)
    BY <1>1, Multiples DEF TurnsBefore
  <1>3. /\ ListsBefore(0) = 0
        /\ \A k \in Nat : /\ ListsBefore(k) \in Nat
                          /\ ListsBefore(k + 1) = ListsBefore(k) + NbSpectators + 1
        /\ \A k, m \in Nat : k <= m => ListsBefore(k) <= ListsBefore(m)
    <2>1. PICK w \in Nat : w = NbSpectators + 1
      BY <1>1
    <2>2. /\ 0 * w = 0
          /\ \A k \in Nat : k * w \in Nat /\ (k + 1) * w = k * w + w
          /\ \A k, m \in Nat : k <= m => k * w <= m * w
      BY Multiples
    <2> QED
      BY <1>1, <2>1, <2>2 DEF ListsBefore
  <1> QED
    BY <1>1, <1>2, <1>3 DEF RoundHooks

\* The round of the server, how many turns it has had in it, and how often the
\* hook has run: the game was not over after the round before.
RoundPlace(k) ==
    LET n == Len(log[Server]) IN
    /\ spc = "start" => k = 0 /\ n = 0 /\ turn = 0
    /\ spc \in {"turn", "poll"} => n = TurnsBefore(k) + turn
    /\ spc \in {"end_turn", "watch", "watching"} => n = TurnsBefore(k) + turn + 1
    /\ spc = "end_round" => n = TurnsBefore(k + 1)
    /\ spc = "done" => /\ n = TurnsBefore(k)
                       /\ k >= 1 /\ RoundHooks(k - 1) < Limit /\ RoundHooks(k) >= Limit
    /\ spc # "done" => RoundHooks(k) < Limit
    /\ ticks[Server] = IF FinishHook = "player_turn"
                       THEN n + IF spc = "poll" THEN 1 ELSE 0 ELSE k

\* The players play in turn, each turn of a strict game is legal.
TurnPlaces ==
    \A k \in Nat : \A p \in Player :
        TurnsBefore(k) + p + 1 <= Len(log[Server]) =>
            log[Server][TurnsBefore(k) + p + 1].player = p

RoundInvariant ==
    /\ spc # "fatal" => \E k \in Nat : RoundPlace(k)
    /\ TurnPlaces
    /\ Strict => LegalTurns(log[Server])

\* What the server does to its game state.
LEMMA ServerApplyCases ==
    ASSUME TypeOK, received' \in Seq(Action), ServerStep
    PROVE  \/ log' = log
           \/ /\ spc \in {"turn", "poll"} /\ spc' = "end_turn" /\ turn' = turn
              /\ UNCHANGED replay
              /\ \E actions \in Seq(Action) :
                    /\ Apply(Server, turn, actions)
                    /\ Accepts(Server, turn, actions)
  <1>0. <<>> \in Seq(Action)
    OBVIOUS
  <1>1. Accepts(Server, turn, <<>>)
    BY DEF Accepts, Legal
  <1>2. CASE StartMatch
    BY <1>2 DEF StartMatch
  <1>3. CASE BeginTurn
    BY <1>0, <1>1, <1>3 DEF BeginTurn
  <1>4. CASE ReceiveAnswer
    BY <1>4 DEF ReceiveAnswer
  <1>5. CASE TimeoutAnswer
    BY <1>0, <1>1, <1>5 DEF TimeoutAnswer
  <1>6. CASE EndTurn \/ BeginWatch \/ ReceiveWatch \/ EndRound
    BY <1>6 DEF EndTurn, BeginWatch, ReceiveWatch, EndRound, gameVars
  <1> QED
    BY <1>2, <1>3, <1>4, <1>5, <1>6 DEF ServerStep

LEMMA RoundServer ==
    ASSUME FinishHook # "start_of_round", TypeOK, TypeOK', RoundInvariant, ServerStep
    PROVE  RoundInvariant'
  <1>0. /\ turn \in Player /\ received' \in Seq(Action) /\ Server \in Proc
        /\ Len(log[Server]) \in Nat /\ ticks[Server] \in Nat
        /\ NbPlayers \in Nat \ {0} /\ Limit \in Nat \ {0}
        /\ log[Server] \in Seq(Turn) /\ spc # "fatal"
    <2>1. spc # "fatal"
      BY DEF ServerStep, StartMatch, BeginTurn, ReceiveAnswer, TimeoutAnswer, EndTurn,
         BeginWatch, ReceiveWatch, EndRound
    <2> QED
      BY <2>1, LogTypes, TicksTypes, CountFacts DEF TypeOK, Proc
  <1>1. PICK k \in Nat : RoundPlace(k)
    BY <1>0 DEF RoundInvariant
  <1>2. PICK n \in Nat : n = Len(log[Server])
    BY <1>0
  <1>3. PICK t \in Player : t = turn
    BY <1>0
  <1>4. /\ TurnsBefore(k) \in Nat /\ RoundHooks(k) \in Nat
        /\ TurnsBefore(k + 1) = TurnsBefore(k) + NbPlayers
        /\ RoundHooks(k + 1) =
              RoundHooks(k) + IF FinishHook = "player_turn" THEN NbPlayers ELSE 1
        /\ FinishHook = "player_turn" => RoundHooks(k) = TurnsBefore(k)
        /\ FinishHook # "player_turn" => RoundHooks(k) = k
    BY CountFacts DEF RoundHooks
  <1>5. t \in Nat /\ t < NbPlayers /\ (t < NbPlayers - 1 => t + 1 \in Player)
    BY <1>0 DEF Player
  <1>6. /\ Hit("start_of_round") = 0
        /\ Hit("player_turn") = IF FinishHook = "player_turn" THEN 1 ELSE 0
        /\ Hit("end_of_round") = IF FinishHook = "player_turn" THEN 0 ELSE 1
    BY HookAssumption DEF Hit, Hook
  <1>7. ASSUME log' = log PROVE TurnPlaces' /\ (Strict => LegalTurns(log[Server]))'
    BY <1>7 DEF RoundInvariant, TurnPlaces
  <1>8. ASSUME NEW actions \in Seq(Action), Apply(Server, turn, actions)
        PROVE  /\ Len(log'[Server]) = n + 1
               /\ \A i \in 1 .. n : log'[Server][i] = log[Server][i]
               /\ log'[Server][n + 1].player = t
    BY <1>0, <1>2, <1>3, <1>8, ApplyFacts, TurnOfFields
  <1>9. TurnPlaces' /\ (Strict => LegalTurns(log[Server]))'
    <2>1. CASE log' = log
      BY <1>7, <2>1
    <2>2. CASE log' # log
      <3>1. PICK actions \in Seq(Action) :
               /\ spc \in {"turn", "poll"}
               /\ Apply(Server, turn, actions) /\ Accepts(Server, turn, actions)
        BY <1>0, <2>2, ServerApplyCases
      <3>2. Strict => LegalTurns(log'[Server])
        BY <1>0, <3>1, LegalAppend DEF RoundInvariant, Accepts
      <3>3. n = TurnsBefore(k) + t
        BY <1>1, <1>2, <1>3, <3>1 DEF RoundPlace
      <3>4. ASSUME NEW m \in Nat, NEW p \in Player, TurnsBefore(m) + p + 1 <= n + 1
            PROVE  log'[Server][TurnsBefore(m) + p + 1].player = p
        <4>0. TurnsBefore(m) \in Nat /\ p \in Nat
          <5>1. TurnsBefore(m) \in Nat
            BY CountFacts
          <5> QED
            BY <1>0, <5>1 DEF Player
        <4>1. PICK i \in 1 .. n + 1 : i = TurnsBefore(m) + p + 1
          BY <3>4, <4>0
        <4>2. CASE i <= n
          <5>1. i \in 1 .. n /\ log[Server][i].player = p
            BY <1>2, <4>1, <4>2 DEF RoundInvariant, TurnPlaces
          <5> QED
            BY <1>8, <3>1, <4>1, <5>1
        <4>3. CASE i = n + 1
          <5>1. m * NbPlayers + p = k * NbPlayers + t
            BY <1>4, <1>5, <3>3, <4>0, <4>1, <4>3, SMTT(30) DEF TurnsBefore
          <5>2. p \in 0 .. NbPlayers - 1 /\ t \in 0 .. NbPlayers - 1
            BY DEF Player
          <5>3. p = t
            BY <1>0, <5>1, <5>2, OneGroup
          <5> QED
            BY <1>8, <3>1, <4>1, <4>3, <5>3
        <4> QED
          BY <4>1, <4>2, <4>3
      <3>5. Len(log'[Server]) = n + 1
        BY <1>8, <3>1
      <3> QED
        BY <3>2, <3>4, <3>5 DEF TurnPlaces
    <2> QED
      BY <2>1, <2>2
  <1>10. ASSUME spc' # "fatal" PROVE \E m \in Nat : RoundPlace(m)'
    <2>0. Server \in Proc /\ ticks \in [Proc -> Nat] /\ n \in Nat
      BY <1>0, <1>2 DEF TypeOK
    <2>a. ASSUME spc \in {"turn", "poll"}, spc' = "end_turn", turn' = turn,
                 Len(log'[Server]) = n + 1,
                 ticks'[Server] = ticks[Server] + IF spc = "turn" THEN Hit("player_turn") ELSE 0
          PROVE  RoundPlace(k)'
      <3>1. n = TurnsBefore(k) + t /\ RoundHooks(k) < Limit
        BY <1>1, <1>2, <1>3, <2>a DEF RoundPlace
      <3>2. ticks[Server] = IF FinishHook = "player_turn"
                            THEN n + IF spc = "poll" THEN 1 ELSE 0 ELSE k
        BY <1>1, <1>2, <2>a DEF RoundPlace
      <3>3. ticks'[Server] = IF FinishHook = "player_turn" THEN n + 1 ELSE k
        <4>1. CASE spc = "turn"
          BY <1>6, <2>0, <2>a, <3>2, <4>1
        <4>2. CASE spc = "poll"
          BY <1>6, <2>0, <2>a, <3>2, <4>2
        <4> QED
          BY <2>a, <4>1, <4>2
      <3> QED
        BY <1>3, <1>4, <1>5, <2>0, <2>a, <3>1, <3>3 DEF RoundPlace
    <2>b. ASSUME spc \in {"end_turn", "watching"}, NextTurn, log' = log, ticks' = ticks
          PROVE  RoundPlace(k)'
      <3>1. /\ n = TurnsBefore(k) + t + 1 /\ RoundHooks(k) < Limit
            /\ ticks[Server] = IF FinishHook = "player_turn" THEN n ELSE k
        <4>1. n = TurnsBefore(k) + t + 1 /\ RoundHooks(k) < Limit
          BY <1>1, <1>2, <1>3, <2>b DEF RoundPlace
        <4>2. ticks[Server] = IF FinishHook = "player_turn" THEN n + 0 ELSE k
          <5>1. spc # "poll"
            BY <2>b
          <5> QED
            BY <1>1, <1>2, <2>b, <5>1 DEF RoundPlace
        <4> QED
          BY <2>0, <4>1, <4>2
      <3>2. \/ spc' = "turn" /\ turn' = t + 1
            \/ spc' = "end_round" /\ t = NbPlayers - 1
        BY <1>0, <1>3, <1>5, <2>b DEF NextTurn
      <3> QED
        <4>1. /\ Len(log'[Server]) = n
              /\ ticks'[Server] = IF FinishHook = "player_turn" THEN n + 0 ELSE k
          BY <1>2, <2>0, <2>b, <3>1
        <4>2. CASE spc' = "turn" /\ turn' = t + 1
          <5>1. n = TurnsBefore(k) + turn'
            BY <1>4, <1>5, <2>0, <3>1, <4>2
          <5> QED
            BY <3>1, <4>1, <4>2, <5>1 DEF RoundPlace
        <4>3. CASE spc' = "end_round" /\ t = NbPlayers - 1
          <5>1. n = TurnsBefore(k + 1)
            BY <1>0, <1>4, <2>0, <3>1, <4>3
          <5> QED
            BY <3>1, <4>1, <4>3, <5>1 DEF RoundPlace
        <4> QED
          BY <3>2, <4>2, <4>3
    <2>1. CASE StartMatch
      <3>1. /\ spc = "start" /\ spc' = IF Finished(Server)' THEN "done" ELSE "turn"
            /\ log' = log /\ turn' = turn /\ ticks'[Server] = ticks[Server]
        BY <1>6, <2>0, <2>1 DEF StartMatch
      <3>2. k = 0 /\ n = 0 /\ ticks[Server] = 0 /\ turn = 0
        BY <1>1, <1>2, <3>1 DEF RoundPlace
      <3>3. spc' = "turn"
        BY <1>0, <3>1, <3>2 DEF Finished, Over
      <3>4. RoundHooks(0) < Limit /\ TurnsBefore(0) = 0
        BY <1>0, CountFacts
      <3> QED
        BY <1>0, <1>2, <1>4, <2>0, <3>1, <3>2, <3>3, <3>4 DEF RoundPlace
    <2>2. CASE BeginTurn
      <3>1. /\ spc = "turn" /\ turn' = turn
            /\ ticks'[Server] = ticks[Server] + Hit("player_turn")
        BY <2>0, <2>2 DEF BeginTurn
      <3>2. CASE spc' = "end_turn" /\ Apply(Server, turn, <<>>)
        <4>1. <<>> \in Seq(Action)
          OBVIOUS
        <4>2. Len(log'[Server]) = n + 1
          BY <1>8, <3>2, <4>1
        <4> QED
          BY <2>a, <3>1, <3>2, <4>2
      <3>3. CASE spc' = "poll" /\ UNCHANGED log
        BY <1>0, <1>1, <1>2, <1>3, <1>4, <1>5, <1>6, <2>0, <3>1, <3>3 DEF RoundPlace
      <3> QED
        BY <2>2, <3>2, <3>3 DEF BeginTurn
    <2>3. CASE ReceiveAnswer \/ TimeoutAnswer
      <3>1. /\ spc = "poll" /\ spc' = "end_turn" /\ turn' = turn /\ ticks' = ticks
            /\ Apply(Server, turn, received') \/ Apply(Server, turn, <<>>)
        BY <1>10, <2>3 DEF ReceiveAnswer, TimeoutAnswer
      <3>2. <<>> \in Seq(Action)
        OBVIOUS
      <3>3. Len(log'[Server]) = n + 1
        BY <1>0, <1>8, <3>1, <3>2
      <3>4. ticks'[Server] = ticks[Server] + 0
        BY <2>0, <3>1
      <3> QED
        BY <2>a, <3>1, <3>3, <3>4
    <2>4. CASE EndTurn
      <3>1. /\ spc = "end_turn" /\ log' = log /\ ticks' = ticks
            /\ (spc' = "watch" /\ turn' = turn) \/ NextTurn
        BY <2>4 DEF EndTurn, gameVars
      <3>2. CASE spc' = "watch" /\ turn' = turn
        BY <1>0, <1>1, <1>2, <1>3, <1>4, <1>5, <2>0, <3>1, <3>2 DEF RoundPlace
      <3> QED
        BY <2>b, <3>1, <3>2
    <2>5. CASE BeginWatch
      <3>1. /\ spc = "watch" /\ spc' = "watching" /\ log' = log /\ ticks' = ticks
            /\ turn' = turn
        BY <2>5 DEF BeginWatch, gameVars
      <3> QED
        BY <1>0, <1>1, <1>2, <1>3, <1>4, <1>5, <2>0, <3>1 DEF RoundPlace
    <2>6. CASE ReceiveWatch
      <3>1. /\ spc = "watching" /\ log' = log /\ ticks' = ticks
            /\ (spc' = "watch" /\ turn' = turn) \/ NextTurn
        BY <2>6 DEF ReceiveWatch, gameVars
      <3>2. CASE spc' = "watch" /\ turn' = turn
        BY <1>0, <1>1, <1>2, <1>3, <1>4, <1>5, <2>0, <3>1, <3>2 DEF RoundPlace
      <3> QED
        BY <2>b, <3>1, <3>2
    <2>7. CASE EndRound
      <3>1. /\ spc = "end_round" /\ turn' = 0 /\ log' = log
            /\ ticks'[Server] = RoundTicks(ticks[Server])
            /\ spc' = IF Over(ticks'[Server]) THEN "done" ELSE "turn"
        BY <2>0, <2>7 DEF EndRound, Finished
      <3>2. /\ n = TurnsBefore(k + 1) /\ RoundHooks(k) < Limit
            /\ ticks[Server] = IF FinishHook = "player_turn" THEN n ELSE k
        BY <1>0, <1>1, <1>2, <2>0, <3>1 DEF RoundPlace
      <3>3. /\ ticks'[Server] = IF FinishHook = "player_turn" THEN n ELSE k + 1
            /\ ticks'[Server] = RoundHooks(k + 1)
        <4>1. ticks'[Server] = ticks[Server] + Hit("end_of_round")
          BY <1>6, <2>0, <3>1, <3>2 DEF RoundTicks
        <4> QED
          BY <1>4, <1>6, <2>0, <3>2, <4>1
      <3>4. PICK m \in Nat : m = k + 1 /\ m >= 1 /\ m - 1 = k
        OBVIOUS
      <3>5. RoundPlace(m)'
        <4>1. n = TurnsBefore(m) /\ RoundHooks(m - 1) < Limit /\ n = TurnsBefore(m) + 0
              /\ ticks'[Server] = RoundHooks(m) /\ RoundHooks(m) \in Nat
          BY <2>0, <3>2, <3>3, <3>4, CountFacts
        <4>2. Len(log'[Server]) = n
          BY <1>2, <3>1
        <4> QED
          BY <1>0, <2>0, <3>1, <3>3, <3>4, <4>1, <4>2 DEF RoundPlace, Over
      <3> QED
        BY <3>5
    <2> QED
      BY <2>1, <2>2, <2>3, <2>4, <2>5, <2>6, <2>7 DEF ServerStep
  <1> QED
    BY <1>9, <1>10 DEF RoundInvariant

LEMMA RoundHolds ==
    ASSUME FinishHook # "start_of_round"
    PROVE  Spec => []RoundInvariant
  <1>1. Init => RoundInvariant
    <2> SUFFICES ASSUME Init PROVE RoundInvariant
      OBVIOUS
    <2>1. /\ spc = "start" /\ turn = 0 /\ log[Server] = <<>> /\ ticks[Server] = 0
          /\ Len(log[Server]) = 0
      BY DEF Init, Proc
    <2>2. RoundHooks(0) < Limit
      BY CountFacts
    <2>3. RoundPlace(0)
      BY <2>1, <2>2 DEF RoundPlace
    <2>4. TurnPlaces
      <3> SUFFICES ASSUME NEW k \in Nat, NEW p \in Player, TurnsBefore(k) + p + 1 <= 0
                   PROVE  FALSE
        BY <2>1 DEF TurnPlaces
      <3>1. TurnsBefore(k) \in Nat /\ NbPlayers \in Nat
        BY CountFacts
      <3> QED
        BY <3>1 DEF Player
    <2>5. LegalTurns(log[Server])
      BY <2>1 DEF LegalTurns
    <2> QED
      BY <2>3, <2>4, <2>5 DEF RoundInvariant
  <1>2. StreamInvariant /\ StreamInvariant' /\ RoundInvariant /\ [Next]_vars => RoundInvariant'
    <2> SUFFICES ASSUME StreamInvariant, StreamInvariant', RoundInvariant, [Next]_vars
                 PROVE  RoundInvariant'
      OBVIOUS
    <2>0. TypeOK /\ TypeOK'
      BY DEF StreamInvariant
    <2>1. CASE ServerStep
      BY <2>0, <2>1, RoundServer
    <2>2. ASSUME log'[Server] = log[Server], UNCHANGED <<spc, turn>>,
                 ticks'[Server] = ticks[Server]
          PROVE  RoundInvariant'
      BY <2>2 DEF RoundInvariant, RoundPlace, TurnPlaces
    <2>3. CASE \E c \in Client : ClientStep(c) \/ Die(c)
      BY <2>0, <2>2, <2>3, LogServerAlone, ClientAlone DEF serverVars
    <2>4. CASE UNCHANGED vars
      BY <2>2, <2>4 DEF vars, serverVars, gameVars
    <2> QED
      BY <2>1, <2>3, <2>4 DEF Next, Terminated
  <1> QED
    BY <1>1, <1>2, StreamSafety, PTL DEF Spec

-----------------------------------------------------------------------------
(* What the server has saved. *)

\* The turns the server has saved the actions of.
SavedTurns ==
    IF spc \in {"end_turn", "watch", "watching"}
    THEN Len(log[Server]) - 1 ELSE Len(log[Server])

\* Of the lists saved for the turn that comes after j others, list s is where
\* the replay looks for it: the actions of the turn, then one per spectator.
ListAt(j, s) ==
    LET list == replay[ListsBefore(j) + s + 1] IN
    IF s = 0
    THEN j + 1 <= Len(log[Server]) /\ list.actions = log[Server][j + 1].actions
    ELSE list.client = NbPlayers + s - 1

FileLists ==
    \A j \in Nat : \A s \in 0 .. NbSpectators :
        ListsBefore(j) + s + 1 <= Len(replay) => ListAt(j, s)

FileInvariant ==
    /\ FileLists
    /\ spc # "fatal" => Len(replay) =
          ListsBefore(SavedTurns) +
             IF spc \in {"watch", "watching"} THEN watcher - NbPlayers + 1 ELSE 0

\* The server saves nothing.
LEMMA FileStays ==
    ASSUME FileLists, UNCHANGED replay, Len(log[Server]) \in Nat,
           Len(log'[Server]) \in Nat, Len(log[Server]) <= Len(log'[Server]),
           \A i \in 1 .. Len(log[Server]) : log'[Server][i] = log[Server][i]
    PROVE  FileLists'
  <1> SUFFICES ASSUME NEW j \in Nat, NEW s \in 0 .. NbSpectators,
                      ListsBefore(j) + s + 1 <= Len(replay)
               PROVE  ListAt(j, s)'
    BY DEF FileLists
  <1>1. ListAt(j, s)
    BY DEF FileLists
  <1> QED
    BY <1>1 DEF ListAt

\* A place in the file is for one list only.
LEMMA OneList ==
    ASSUME NEW j \in Nat, NEW k \in Nat, NEW s \in 0 .. NbSpectators,
           NEW r \in 0 .. NbSpectators, ListsBefore(j) + s = ListsBefore(k) + r
    PROVE  j = k /\ s = r
  <1>1. ASSUME NEW a \in Nat, NEW b \in Nat, a < b
        PROVE  ListsBefore(a) + NbSpectators + 1 <= ListsBefore(b)
    <2>1. a + 1 \in Nat /\ a + 1 <= b
      BY <1>1
    <2>2. ListsBefore(a + 1) <= ListsBefore(b)
      BY <2>1, CountFacts
    <2> QED
      BY <2>2, CountFacts
  <1>2. ListsBefore(j) \in Nat /\ ListsBefore(k) \in Nat /\ NbSpectators \in Nat
    BY CountFacts
  <1>3. ~(j < k) /\ ~(k < j)
    BY <1>1, <1>2
  <1> QED
    BY <1>2, <1>3

\* A position that does not pass n is one of the n positions.
LEMMA WithinBounds ==
    ASSUME NEW a \in Nat, NEW b \in Nat, NEW n \in Nat, a + b + 1 <= n
    PROVE  a + b + 1 \in 1 .. n
  OBVIOUS

\* The server saves one list more.
LEMMA FileAppend ==
    ASSUME TypeOK, FileLists, log' = log, NEW e \in SavedTurn,
           replay' = Append(replay, e), NEW k \in Nat, NEW r \in 0 .. NbSpectators,
           Len(replay) = ListsBefore(k) + r,
           IF r = 0 THEN k + 1 <= Len(log[Server]) /\ e.actions = log[Server][k + 1].actions
                    ELSE e.client = NbPlayers + r - 1
    PROVE  FileLists'
  <1>1. PICK n \in Nat : n = Len(replay)
    BY DEF TypeOK
  <1>2. /\ Len(replay') = n + 1 /\ replay'[n + 1] = e
        /\ \A i \in 1 .. n : replay'[i] = replay[i]
    BY <1>1, SMTT(30) DEF TypeOK, SavedTurn
  <1> SUFFICES ASSUME NEW j \in Nat, NEW s \in 0 .. NbSpectators,
                      ListsBefore(j) + s + 1 <= n + 1
               PROVE  ListAt(j, s)'
    BY <1>2 DEF FileLists
  <1>3. ListsBefore(j) \in Nat /\ ListsBefore(k) \in Nat /\ NbSpectators \in Nat
    BY CountFacts
  <1>4. CASE ListsBefore(j) + s + 1 <= n
    <2>1. ListAt(j, s)
      BY <1>1, <1>4 DEF FileLists
    <2>2. ListsBefore(j) + s + 1 \in 1 .. n
      <3>1. s \in Nat
        BY <1>3
      <3> QED
        BY <1>3, <1>4, <3>1, WithinBounds, Zenon
    <2> QED
      BY <1>2, <2>1, <2>2 DEF ListAt
  <1>5. CASE ListsBefore(j) + s + 1 = n + 1
    <2>1. ListsBefore(j) + s = ListsBefore(k) + r
      BY <1>1, <1>3, <1>5
    <2>2. j = k /\ s = r
      BY <2>1, OneList
    <2> QED
      BY <1>2, <1>5, <2>2 DEF ListAt
  <1> QED
    BY <1>3, <1>4, <1>5

LEMMA FileServer ==
    ASSUME StreamInvariant, TypeOK', LogInvariant, RoundInvariant, FileInvariant, ServerStep
    PROVE  FileInvariant'
  <1>0. /\ TypeOK /\ turn \in Player /\ received \in Seq(Action) /\ received' \in Seq(Action)
        /\ Len(log[Server]) \in Nat /\ replay \in Seq(SavedTurn) /\ Len(replay) \in Nat
        /\ NbPlayers \in Nat \ {0} /\ NbSpectators \in Nat
        /\ <<>> \in Seq(Action) /\ Player \subseteq Client /\ Server \in Proc
    <2>1. TypeOK /\ Player \subseteq Client /\ Server \in Proc
      BY ClientFacts DEF StreamInvariant, Proc
    <2>2. /\ turn \in Player /\ received \in Seq(Action) /\ received' \in Seq(Action)
          /\ replay \in Seq(SavedTurn)
      BY <2>1 DEF TypeOK, SavedTurn
    <2>3. Len(log[Server]) \in Nat /\ NbPlayers \in Nat \ {0} /\ NbSpectators \in Nat
      BY <2>1, LogTypes, PlayersAssumption, SpectatorsAssumption
    <2> QED
      BY <2>1, <2>2, <2>3
  <1>1. spc # "fatal"
    BY DEF ServerStep, StartMatch, BeginTurn, ReceiveAnswer, TimeoutAnswer, EndTurn,
       BeginWatch, ReceiveWatch, EndRound
  <1>2. PICK n \in Nat : n = Len(log[Server])
    BY <1>0
  <1>3. /\ FileLists
        /\ Len(replay) = ListsBefore(SavedTurns) +
             IF spc \in {"watch", "watching"} THEN watcher - NbPlayers + 1 ELSE 0
    BY <1>1 DEF FileInvariant
  <1>4. CASE StartMatch \/ EndRound
    <2>1. /\ log' = log /\ UNCHANGED replay
          /\ spc \notin {"end_turn", "watch", "watching"}
          /\ spc' \notin {"end_turn", "watch", "watching"}
      BY <1>4 DEF StartMatch, EndRound
    <2>2. FileLists'
      BY <1>0, <1>3, <2>1, FileStays
    <2> QED
      BY <1>3, <2>1, <2>2 DEF FileInvariant, SavedTurns
  <1>5. CASE BeginTurn \/ ReceiveAnswer \/ TimeoutAnswer
    <2>1. /\ UNCHANGED replay /\ spc \in {"turn", "poll"}
          /\ spc' \in {"poll", "end_turn", "fatal"}
      BY <1>5 DEF BeginTurn, ReceiveAnswer, TimeoutAnswer
    <2>2. \/ log' = log /\ spc' # "end_turn"
          \/ /\ spc' = "end_turn"
             /\ Apply(Server, turn, received') \/ Apply(Server, turn, <<>>)
      BY <1>5 DEF BeginTurn, ReceiveAnswer, TimeoutAnswer
    <2>3. CASE log' = log /\ spc' # "end_turn"
      <3>1. FileLists'
        BY <1>0, <1>3, <2>1, <2>3, FileStays
      <3> QED
        BY <1>3, <2>1, <2>3, <3>1 DEF FileInvariant, SavedTurns
    <2>4. CASE /\ spc' = "end_turn"
               /\ Apply(Server, turn, received') \/ Apply(Server, turn, <<>>)
      <3>1. /\ Len(log'[Server]) = n + 1
            /\ \A i \in 1 .. n : log'[Server][i] = log[Server][i]
        BY <1>0, <1>2, <2>4, ApplyFacts
      <3>2. FileLists'
        BY <1>0, <1>2, <1>3, <2>1, <3>1, FileStays
      <3>3. SavedTurns = n /\ SavedTurns' = n
        BY <1>2, <2>1, <2>4, <3>1 DEF SavedTurns
      <3> QED
        BY <1>3, <2>1, <2>4, <3>2, <3>3 DEF FileInvariant
    <2> QED
      BY <2>2, <2>3, <2>4
  <1>6. CASE BeginWatch
    <2>1. /\ log' = log /\ UNCHANGED <<replay, watcher>>
          /\ spc = "watch" /\ spc' = "watching"
      BY <1>6 DEF BeginWatch, gameVars
    <2>2. FileLists'
      BY <1>0, <1>3, <2>1, FileStays
    <2> QED
      BY <1>3, <2>1, <2>2 DEF FileInvariant, SavedTurns
  <1>7. CASE EndTurn
    <2>1. /\ log' = log /\ spc = "end_turn"
          /\ replay' = Append(replay, [client |-> turn, actions |-> received])
          /\ IF NbSpectators > 0 THEN spc' = "watch" ELSE spc' \in {"turn", "end_round"}
          /\ watcher' = NbPlayers
      BY <1>7 DEF EndTurn, NextTurn, Saved, gameVars
    <2>2. log[Server][n] = TurnOf(turn, received) /\ n >= 1
      BY <1>0, <1>2, <2>1, TurnsFacts, SMTT(30) DEF LogInvariant, ServerLog
    <2>3. PICK k \in Nat : n = k + 1
      <3>1. n - 1 \in Nat /\ n = (n - 1) + 1
        BY <2>2
      <3> QED
        BY <3>1
    <2>4. PICK e \in SavedTurn : e = [client |-> turn, actions |-> received]
      BY <1>0 DEF SavedTurn
    <2>5. SavedTurns = k /\ Len(replay) = ListsBefore(k) + 0 /\ 0 \in 0 .. NbSpectators
      BY <1>0, <1>2, <1>3, <2>1, <2>3 DEF SavedTurns
    <2>6. e.actions = log[Server][k + 1].actions /\ k + 1 <= Len(log[Server])
      BY <1>2, <2>2, <2>3, <2>4, TurnOfFields
    <2>7. FileLists'
      BY <1>0, <1>3, <2>1, <2>4, <2>5, <2>6, FileAppend
    <2>8. Len(replay') = ListsBefore(k) + 1 /\ ListsBefore(k) \in Nat
      <3>1. Len(replay') = Len(replay) + 1
        BY <1>0, <2>1, <2>4
      <3>2. ListsBefore(k) \in Nat
        BY CountFacts
      <3> QED
        BY <2>5, <3>1, <3>2
    <2>9. ListsBefore(k + 1) = ListsBefore(k) + NbSpectators + 1
      BY CountFacts
    <2>10. CASE NbSpectators > 0
      <3>1. SavedTurns' = k /\ spc' = "watch" /\ watcher' - NbPlayers + 1 = 1
        BY <1>0, <1>2, <2>1, <2>3, <2>10 DEF SavedTurns
      <3> QED
        BY <2>7, <2>8, <3>1 DEF FileInvariant
    <2>11. CASE NbSpectators = 0
      <3>1. SavedTurns' = k + 1 /\ spc' \in {"turn", "end_round"}
        BY <1>0, <1>2, <2>1, <2>3, <2>11 DEF SavedTurns
      <3>2. Len(replay') = ListsBefore(k + 1) + 0
        BY <1>0, <2>8, <2>9, <2>11
      <3> QED
        BY <2>7, <3>1, <3>2 DEF FileInvariant
    <2> QED
      BY <1>0, <2>10, <2>11
  <1>8. CASE ReceiveWatch
    <2>1. /\ log' = log /\ spc = "watching" /\ watcher \in Spectator
          /\ replay' = Append(replay, [client |-> watcher, actions |-> received'])
          /\ IF watcher + 1 \in Spectator
             THEN watcher' = watcher + 1 /\ spc' = "watch"
             ELSE spc' \in {"turn", "end_round"}
      BY <1>8 DEF ReceiveWatch, NextTurn, Saved, gameVars, StreamInvariant, ServerInStream
    <2>2. PICK w \in Nat : /\ w = watcher /\ w \in Client
                          /\ w >= NbPlayers /\ w <= NbPlayers + NbSpectators - 1
      BY <1>0, <2>1, ClientFacts DEF Spectator
    <2>3. PICK r \in 1 .. NbSpectators : w = NbPlayers + r - 1
      <3>1. w - NbPlayers + 1 \in 1 .. NbSpectators
        BY <1>0, <2>2
      <3> QED
        BY <1>0, <2>2, <3>1
    <2>4. PICK k \in Nat : n = k + 1
      <3>1. PICK m \in Nat : RoundPlace(m)
        BY <1>1 DEF RoundInvariant
      <3>2. n = TurnsBefore(m) + turn + 1
        BY <1>2, <2>1, <3>1 DEF RoundPlace
      <3>3. TurnsBefore(m) \in Nat /\ turn \in Nat
        <4>1. TurnsBefore(m) \in Nat
          BY CountFacts
        <4> QED
          BY <1>0, <4>1 DEF Player
      <3>4. n - 1 \in Nat /\ n = (n - 1) + 1
        BY <3>2, <3>3
      <3> QED
        BY <3>4
    <2>5. PICK e \in SavedTurn : e = [client |-> watcher, actions |-> received']
      BY <1>0, <2>2 DEF SavedTurn
    <2>6. SavedTurns = k /\ Len(replay) = ListsBefore(k) + r /\ r \in 0 .. NbSpectators
      BY <1>0, <1>2, <1>3, <2>1, <2>2, <2>3, <2>4 DEF SavedTurns
    <2>7. FileLists'
      <3>1. r # 0 /\ e.client = NbPlayers + r - 1 /\ replay' = Append(replay, e)
        <4>1. e.client = w /\ replay' = Append(replay, e)
          BY <2>1, <2>2, <2>5
        <4> QED
          BY <2>3, <4>1
      <3> QED
        BY <1>0, <1>3, <2>1, <2>6, <3>1, FileAppend
    <2>8. Len(replay') = ListsBefore(k) + r + 1 /\ ListsBefore(k) \in Nat
      <3>1. Len(replay') = Len(replay) + 1
        BY <1>0, <2>1, <2>5
      <3>2. ListsBefore(k) \in Nat
        BY CountFacts
      <3> QED
        BY <2>6, <3>1, <3>2
    <2>9. ListsBefore(k + 1) = ListsBefore(k) + NbSpectators + 1
      BY CountFacts
    <2>10. CASE r < NbSpectators
      <3>1. SavedTurns' = k /\ spc' = "watch" /\ watcher' - NbPlayers + 1 = r + 1
        BY <1>0, <1>2, <2>1, <2>2, <2>3, <2>4, <2>10 DEF SavedTurns, Spectator
      <3> QED
        BY <2>7, <2>8, <3>1 DEF FileInvariant
    <2>11. CASE r = NbSpectators
      <3>1. SavedTurns' = k + 1 /\ spc' \in {"turn", "end_round"}
        BY <1>0, <1>2, <2>1, <2>2, <2>3, <2>4, <2>11 DEF SavedTurns, Spectator
      <3>2. Len(replay') = ListsBefore(k + 1) + 0
        BY <1>0, <2>8, <2>9, <2>11
      <3> QED
        BY <2>7, <3>1, <3>2 DEF FileInvariant
    <2> QED
      BY <1>0, <2>3, <2>10, <2>11
  <1> QED
    BY <1>4, <1>5, <1>6, <1>7, <1>8 DEF ServerStep

\* The file has the actions of every turn the server has applied but the one it
\* is about to save, and a list of each spectator after each of them.
LEMMA FileHolds ==
    ASSUME FinishHook # "start_of_round"
    PROVE  Spec => []FileInvariant
  <1>1. Init => FileInvariant
    <2> SUFFICES ASSUME Init PROVE FileInvariant
      OBVIOUS
    <2>1. spc = "start" /\ log[Server] = <<>> /\ replay = <<>> /\ Len(replay) = 0
      BY DEF Init, Proc
    <2>2. SavedTurns = 0 /\ ListsBefore(0) = 0
      BY <2>1, CountFacts DEF SavedTurns
    <2>3. \A j \in Nat : \A s \in 0 .. NbSpectators : ~(ListsBefore(j) + s + 1 <= 0)
      <3> SUFFICES ASSUME NEW j \in Nat, NEW s \in 0 .. NbSpectators
                   PROVE  ~(ListsBefore(j) + s + 1 <= 0)
        OBVIOUS
      <3>1. ListsBefore(j) \in Nat /\ NbSpectators \in Nat
        BY CountFacts
      <3> QED
        BY <3>1
    <2> QED
      BY <2>1, <2>2, <2>3 DEF FileInvariant, FileLists
  <1>2. /\ StreamInvariant /\ StreamInvariant' /\ LogInvariant /\ RoundInvariant
        /\ FileInvariant /\ [Next]_vars
        => FileInvariant'
    <2> SUFFICES ASSUME StreamInvariant, StreamInvariant', LogInvariant, RoundInvariant,
                        FileInvariant, [Next]_vars
                 PROVE  FileInvariant'
      OBVIOUS
    <2>0. TypeOK /\ TypeOK'
      BY DEF StreamInvariant
    <2>1. CASE ServerStep
      BY <2>0, <2>1, FileServer
    <2>2. ASSUME log'[Server] = log[Server], UNCHANGED <<spc, watcher, replay>>
          PROVE  FileInvariant'
      BY <2>2 DEF FileInvariant, FileLists, ListAt, SavedTurns
    <2>3. CASE \E c \in Client : ClientStep(c) \/ Die(c)
      BY <2>0, <2>2, <2>3, LogServerAlone DEF serverVars
    <2>4. CASE UNCHANGED vars
      BY <2>2, <2>4 DEF vars, serverVars, gameVars
    <2> QED
      BY <2>1, <2>3, <2>4 DEF Next, Terminated
  <1> QED
    BY <1>1, <1>2, StreamSafety, LogSafety, RoundHolds, PTL DEF Spec

-----------------------------------------------------------------------------
(* The lists of the spectators. *)

\* No spectator has been saved an action.
Quiet ==
    \A i \in DOMAIN replay : replay[i].client \in Spectator => replay[i].actions = <<>>

\* A spectator sends no action; a spectator is saved one when its turn is
\* closed by what a player has sent too late.
QuietRequests ==
    /\ \A r \in requests : r.from \in Spectator => r.actions = <<>>
    /\ spc = "watching" => received = <<>>

LEMMA QuietHolds == Spec => []QuietRequests
  <1>1. Init => QuietRequests
    BY DEF Init, SocketsInit, QuietRequests
  <1>2. StreamInvariant /\ LockStep /\ QuietRequests /\ [Next]_vars => QuietRequests'
    <2> SUFFICES ASSUME StreamInvariant, LockStep, QuietRequests, [Next]_vars
                 PROVE  QuietRequests'
      OBVIOUS
    <2>1. CASE ServerStep
      <3>1. requests' \subseteq requests
        BY <2>1 DEF ServerStep, StartMatch, BeginTurn, ReceiveAnswer, TimeoutAnswer,
           EndTurn, BeginWatch, ReceiveWatch, EndRound, RecvAndAck, socketVars
      <3>2. spc' = "watching" => received' = <<>>
        BY <2>1 DEF ServerStep, StartMatch, BeginTurn, ReceiveAnswer, TimeoutAnswer,
           EndTurn, NextTurn, BeginWatch, ReceiveWatch, EndRound, ClearActions
      <3> QED
        BY <3>1, <3>2 DEF QuietRequests
    <2>2. ASSUME NEW c \in Client, ClientStep(c) \/ Die(c) PROVE QuietRequests'
      <3>1. UNCHANGED serverVars
        BY <2>2, ClientEffects
      <3>2. \/ requests' \subseteq requests
            \/ c \in Player /\ \E actions : SendActions(c, actions)
            \/ SendActions(c, <<>>)
        BY <2>2 DEF ClientStep, ClientStart, PullOwnTurn, PullSpectatorTurn,
           PullPlayerTurn, Answer, PlayerAck, PullOwnActions, PlayerPullActions,
           SpectatorPullActions, SpectatorAck, Die
      <3>3. c \in Player => c \notin Spectator
        BY ClientFacts, SpectatorFacts
      <3>4. \A r \in requests' : r.from \in Spectator => r.actions = <<>>
        <4>1. CASE requests' \subseteq requests
          BY <4>1 DEF QuietRequests
        <4>2. CASE c \in Player /\ \E actions : SendActions(c, actions)
          BY <3>3, <4>2 DEF QuietRequests, SendActions
        <4>3. CASE SendActions(c, <<>>)
          BY <4>3 DEF QuietRequests, SendActions
        <4> QED
          BY <3>2, <4>1, <4>2, <4>3
      <3> QED
        BY <3>1, <3>4 DEF QuietRequests, serverVars
    <2>3. CASE UNCHANGED vars
      BY <2>3 DEF vars, socketVars, serverVars, QuietRequests
    <2> QED
      BY <2>1, <2>2, <2>3 DEF Next, Terminated
  <1> QED
    BY <1>1, <1>2, StreamSafety, OneRequestAtATime, PTL DEF Spec

LEMMA PunctualIsQuiet ==
    ASSUME MaxConsecutiveTimeout > 0
    PROVE  Spec => [](Punctual => Quiet)
  <1>1. Init => Quiet
    BY DEF Init, Quiet
  <1>2. /\ StreamInvariant /\ StreamInvariant' /\ QuietRequests
        /\ (Punctual => TurnInvariant) /\ (Punctual => Quiet) /\ [Next]_vars
        => (Punctual => Quiet)'
    <2> SUFFICES ASSUME StreamInvariant, StreamInvariant', QuietRequests,
                        Punctual => TurnInvariant, Punctual => Quiet, [Next]_vars, Punctual'
                 PROVE  Quiet'
      OBVIOUS
    <2>0. /\ TurnInvariant /\ Quiet /\ replay \in Seq(SavedTurn)
          /\ turn \in Player /\ received \in Seq(Action) /\ received' \in Seq(Action)
      <3>1. Punctual
        BY PunctualBefore
      <3> QED
        BY <3>1 DEF StreamInvariant, TypeOK, SavedTurn
    <2>1. CASE UNCHANGED replay
      BY <2>0, <2>1 DEF Quiet
    <2>2. ASSUME NEW e \in SavedTurn, replay' = Append(replay, e),
                 e.client \in Spectator => e.actions = <<>>
          PROVE  Quiet'
      <3>1. PICK n \in Nat : n = Len(replay)
        BY <2>0
      <3>2. /\ DOMAIN replay = 1 .. n /\ DOMAIN replay' = 1 .. n + 1
            /\ replay'[n + 1] = e /\ \A i \in 1 .. n : replay'[i] = replay[i]
        BY <2>0, <2>2, <3>1
      <3>3. \A i \in 1 .. n + 1 : i \in 1 .. n \/ i = n + 1
        OBVIOUS
      <3> QED
        BY <2>0, <2>2, <3>2, <3>3 DEF Quiet
    <2>3. CASE EndTurn
      <3>1. /\ replay' = Append(replay, [client |-> turn, actions |-> received])
            /\ turn \in Client /\ turn \notin Spectator
        BY <2>0, <2>3, ClientFacts, SpectatorFacts DEF EndTurn, Saved
      <3>2. PICK e \in SavedTurn : e = [client |-> turn, actions |-> received]
        BY <2>0, <3>1 DEF SavedTurn
      <3> QED
        BY <2>2, <3>1, <3>2
    <2>4. CASE ReceiveWatch
      <3>1. PICK r \in requests :
               /\ spc = "watching" /\ received' = received \o r.actions
               /\ replay' = Append(replay, [client |-> watcher, actions |-> received'])
        BY <2>4 DEF ReceiveWatch, Saved
      <3>2. watcher \in Spectator /\ watcher \in Client
        BY <3>1, ClientFacts, SpectatorFacts DEF StreamInvariant, ServerInStream
      <3>3. r.from = watcher
        BY <2>0, <3>1 DEF TurnInvariant, Awaited
      <3>4. received = <<>> /\ r.actions = <<>>
        BY <3>1, <3>2, <3>3 DEF QuietRequests
      <3>5. received' = <<>>
        BY <3>1, <3>4
      <3>6. PICK e \in SavedTurn : e = [client |-> watcher, actions |-> received']
        BY <2>0, <3>2 DEF SavedTurn
      <3> QED
        BY <2>2, <3>1, <3>5, <3>6
    <2>5. CASE \E c \in Client : ClientStep(c) \/ Die(c)
      <3>1. TypeOK
        BY DEF StreamInvariant
      <3> QED
        BY <2>1, <2>5, <3>1, LogServerAlone DEF serverVars
    <2> QED
      BY <2>1, <2>3, <2>4, <2>5 DEF Next, ServerStep, StartMatch, BeginTurn, ReceiveAnswer,
         TimeoutAnswer, BeginWatch, EndRound, Terminated, vars, serverVars
  <1> QED
    BY <1>1, <1>2, StreamSafety, TurnSafety, QuietHolds, PTL DEF Spec

-----------------------------------------------------------------------------
(* The replay of the file. *)

\* What follows the same steps from the same start ends the same.
LEMMA SameSteps ==
    ASSUME NEW n \in Nat, NEW f, NEW g, f[0] = g[0],
           \A i \in 1 .. n : f[i - 1] = g[i - 1] => f[i] = g[i]
    PROVE  f[n] = g[n]
  <1> DEFINE T == {i \in Nat : i <= n => f[i] = g[i]}
  <1>1. 0 \in T
    OBVIOUS
  <1>2. ASSUME NEW i \in Nat, i \in T PROVE i + 1 \in T
    <2>1. CASE i + 1 <= n
      <3>1. i + 1 \in 1 .. n /\ (i + 1) - 1 = i /\ f[i] = g[i]
        BY <1>2, <2>1
      <3>2. f[i + 1] = g[i + 1]
        BY <3>1
      <3> QED
        BY <3>2
    <2>2. CASE ~(i + 1 <= n)
      BY <2>2
    <2> QED
      BY <2>1, <2>2
  <1>3. Nat \subseteq T
    <2> HIDE DEF T
    <2> QED
      BY <1>1, <1>2, SetInduction
  <1> QED
    BY <1>3

\* A list read from the front, and one that grows up to it.
LEMMA ReadFront ==
    ASSUME NEW S, NEW list \in Seq(S), NEW i \in 0 .. Len(list) - 1
    PROVE  /\ SubSeq(list, i + 1, Len(list)) # <<>>
           /\ Head(SubSeq(list, i + 1, Len(list))) = list[i + 1]
           /\ Tail(SubSeq(list, i + 1, Len(list))) = SubSeq(list, i + 1 + 1, Len(list))
           /\ Append(SubSeq(list, 1, i), list[i + 1]) = SubSeq(list, 1, i + 1)
  <1>1. /\ i + 1 \in 1 .. Len(list) /\ Len(list) \in i + 1 .. Len(list)
        /\ Len(list) \in Nat /\ i \in Nat
    OBVIOUS
  <1>2. /\ Head(SubSeq(list, i + 1, Len(list))) = list[i + 1]
        /\ Tail(SubSeq(list, i + 1, Len(list))) = SubSeq(list, i + 1 + 1, Len(list))
    BY <1>1, HeadTailOfSubSeq
  <1>3. SubSeq(list, i + 1, Len(list)) # <<>>
    <2>1. \A h \in i + 1 .. Len(list) : list[h] \in S
      BY <1>1
    <2>2. PICK rest : rest = SubSeq(list, i + 1, Len(list))
      OBVIOUS
    <2>3. Len(rest) = Len(list) - (i + 1) + 1
      BY <1>1, <2>1, <2>2, SubSeqProperties
    <2>4. Len(rest) # 0
      BY <1>1, <2>3
    <2> QED
      BY <2>2, <2>4
  <1>4. Append(SubSeq(list, 1, i), list[i + 1]) = SubSeq(list, 1, i + 1)
    <2>1. PICK a : a = SubSeq(list, 1, i)
      OBVIOUS
    <2>2. PICK b : b = SubSeq(list, 1, i + 1)
      OBVIOUS
    <2>3. /\ a \in Seq(S) /\ Len(a) = i /\ \A h \in 1 .. i : a[h] = list[h]
      <3>1. \A h \in 1 .. i : list[h] \in S
        BY <1>1
      <3>2. /\ a \in Seq(S) /\ Len(a) = IF 1 <= i THEN i - 1 + 1 ELSE 0
            /\ \A h \in 1 .. i - 1 + 1 : a[h] = list[1 + h - 1]
        BY <1>1, <2>1, <3>1, SubSeqProperties
      <3> QED
        BY <1>1, <3>2
    <2>4. /\ b \in Seq(S) /\ Len(b) = i + 1 /\ \A h \in 1 .. i + 1 : b[h] = list[h]
      <3>1. \A h \in 1 .. i + 1 : list[h] \in S
        BY <1>1
      <3>2. /\ b \in Seq(S) /\ Len(b) = IF 1 <= i + 1 THEN i + 1 - 1 + 1 ELSE 0
            /\ \A h \in 1 .. i + 1 - 1 + 1 : b[h] = list[1 + h - 1]
        BY <1>1, <2>2, <3>1, SubSeqProperties
      <3> QED
        BY <1>1, <3>2
    <2>5. PICK c : c = Append(a, list[i + 1])
      OBVIOUS
    <2>6. /\ c \in Seq(S) /\ Len(c) = i + 1
          /\ \A h \in 1 .. i + 1 : c[h] = list[h]
      BY <1>1, <2>3, <2>5
    <2>7. c = b
      BY <2>4, <2>6, SeqEqual
    <2> QED
      BY <2>1, <2>2, <2>5, <2>7
  <1> QED
    BY <1>2, <1>3, <1>4

\* Where the replay is: i lists have been read, and the first j turns of the
\* server applied.
ReplayAt(i, j, x) ==
    [file |-> SubSeq(replay, i + 1, Len(replay)), turns |-> SubSeq(log[Server], 1, j),
     ticks |-> x, error |-> FALSE]

\* A turn of the server is accepted in the replay, after those before it.
LEMMA ReplayAcceptsTurn ==
    ASSUME TypeOK, Strict => LegalTurns(log[Server]), NEW j \in 0 .. Len(log[Server]) - 1
    PROVE  ReplayAccepts(SubSeq(log[Server], 1, j), log[Server][j + 1].player,
                         log[Server][j + 1].actions)
  <1>1. PICK turns \in Seq(Turn) : turns = log[Server]
    BY LogTypes
  <1>2. PICK before : before = SubSeq(turns, 1, j)
    OBVIOUS
  <1>3. j \in Nat /\ Len(turns) \in Nat /\ j + 1 \in DOMAIN turns
    BY <1>1
  <1>4. before \in Seq(Turn) /\ DOMAIN before = 1 .. j /\ \A h \in 1 .. j : before[h] = turns[h]
    <2>1. \A h \in 1 .. j : turns[h] \in Turn
      BY <1>1, <1>3
    <2>2. /\ before \in Seq(Turn) /\ Len(before) = IF 1 <= j THEN j - 1 + 1 ELSE 0
          /\ \A h \in 1 .. j - 1 + 1 : before[h] = turns[1 + h - 1]
      BY <1>2, <1>3, <2>1, SubSeqProperties
    <2> QED
      BY <1>3, <2>2
  <1> DEFINE taken == UNION {{a.cell : a \in ToSet(t.actions)} : t \in ToSet(before)}
  <1>5. ASSUME Strict, NEW a \in ToSet(turns[j + 1].actions)
        PROVE  a.player = turns[j + 1].player /\ a.cell \notin taken
    <2>1. PICK i \in DOMAIN turns[j + 1].actions : a = turns[j + 1].actions[i]
      BY <1>5 DEF ToSet
    <2>2. /\ a.player = turns[j + 1].player
          /\ \A h \in 1 .. j : \A k \in DOMAIN turns[h].actions :
                turns[h].actions[k].cell # a.cell
      <3>1. LegalTurns(turns) /\ (j + 1) - 1 = j
        BY <1>1, <1>3, <1>5
      <3> QED
        BY <1>3, <2>1, <3>1 DEF LegalTurns
    <2>3. ASSUME a.cell \in taken PROVE FALSE
      <3>1. PICK t \in ToSet(before) : a.cell \in {b.cell : b \in ToSet(t.actions)}
        BY <2>3
      <3>2. PICK h \in 1 .. j : t = turns[h]
        BY <1>4, <3>1 DEF ToSet
      <3>3. PICK b \in ToSet(t.actions) : a.cell = b.cell
        BY <3>1
      <3>4. PICK k \in DOMAIN t.actions : b = t.actions[k]
        BY <3>3 DEF ToSet
      <3> QED
        BY <2>2, <3>2, <3>3, <3>4
    <2> QED
      BY <2>2, <2>3
  <1>6. ReplayAccepts(before, turns[j + 1].player, turns[j + 1].actions)
    BY <1>5 DEF ReplayAccepts
  <1> QED
    BY <1>1, <1>2, <1>6

LEMMA ReplayTurnOf ==
    ASSUME TypeOK, Strict => LegalTurns(log[Server]), NEW x,
           NEW i \in 0 .. Len(replay) - 1, NEW j \in 0 .. Len(log[Server]) - 1,
           NEW p \in Player, log[Server][j + 1].player = p,
           replay[i + 1].actions = log[Server][j + 1].actions
    PROVE  ReplayTurn(ReplayAt(i, j, x), p) = ReplayAt(i + 1, j + 1, x + Hit("player_turn"))
  <1>1. replay \in Seq(SavedTurn) /\ log[Server] \in Seq(Turn)
    BY LogTypes DEF TypeOK, SavedTurn
  <1>2. PICK r : r = ReplayAt(i, j, x)
    OBVIOUS
  <1>3. /\ r.file # <<>> /\ Head(r.file) = replay[i + 1]
        /\ Tail(r.file) = SubSeq(replay, i + 1 + 1, Len(replay))
        /\ r.turns = SubSeq(log[Server], 1, j) /\ r.ticks = x /\ r.error = FALSE
    BY <1>1, <1>2, ReadFront DEF ReplayAt
  <1>4. log[Server][j + 1] = TurnOf(p, replay[i + 1].actions)
    <2>1. log[Server][j + 1] \in Turn
      BY <1>1
    <2> QED
      BY <2>1 DEF Turn, TurnOf
  <1>5. Append(r.turns, TurnOf(p, replay[i + 1].actions)) = SubSeq(log[Server], 1, j + 1)
    BY <1>1, <1>3, <1>4, ReadFront
  <1>6. ReplayAccepts(r.turns, p, Head(r.file).actions)
    BY <1>3, ReplayAcceptsTurn
  <1>7. ReplayTurn(r, p) =
            [r EXCEPT !.file = Tail(@), !.ticks = @ + Hit("player_turn"),
                      !.turns = Append(@, TurnOf(p, Head(r.file).actions))]
    BY <1>3, <1>6 DEF ReplayTurn
  <1>8. ReplayTurn(r, p) =
            [file |-> Tail(r.file), turns |-> Append(r.turns, TurnOf(p, Head(r.file).actions)),
             ticks |-> x + Hit("player_turn"), error |-> FALSE]
    BY <1>2, <1>7 DEF ReplayAt
  <1> QED
    BY <1>2, <1>3, <1>5, <1>8 DEF ReplayAt

LEMMA ReplayTurnWatched ==
    ASSUME TypeOK, NEW x \in Nat, NEW i \in 0 .. Len(replay) - 1, NEW j,
           NEW w \in Spectator, replay[i + 1].actions = <<>>
    PROVE  ReplayTurn(ReplayAt(i, j, x), w) = ReplayAt(i + 1, j, x)
  <1>1. replay \in Seq(SavedTurn)
    BY DEF TypeOK, SavedTurn
  <1>2. PICK r : r = ReplayAt(i, j, x)
    OBVIOUS
  <1>3. /\ r.file # <<>> /\ Head(r.file) = replay[i + 1]
        /\ Tail(r.file) = SubSeq(replay, i + 1 + 1, Len(replay))
        /\ r.turns = SubSeq(log[Server], 1, j) /\ r.ticks = x /\ r.error = FALSE
    BY <1>1, <1>2, ReadFront DEF ReplayAt
  <1>4. w \notin Player
    BY SpectatorFacts
  <1>5. ReplayAccepts(r.turns, w, <<>>)
    BY DEF ReplayAccepts, ToSet
  <1>6. ReplayTurn(r, w) =
            [r EXCEPT !.file = Tail(@), !.ticks = @ + 0, !.turns = @]
    BY <1>3, <1>4, <1>5 DEF ReplayTurn
  <1>7. x + 0 = x
    OBVIOUS
  <1> QED
    BY <1>2, <1>3, <1>6, <1>7 DEF ReplayAt

\* f gives where the replay is after each spectator of the turn of a player.
IsPlayerReplay(f, r, p) ==
    f = [s \in 0 .. NbSpectators |->
            IF s = 0 THEN ReplayTurn(r, p) ELSE ReplayTurn(f[s - 1], NbPlayers + s - 1)]

\* What the server has saved of a match that is over.
FullFile ==
    /\ FileLists
    /\ Quiet
    /\ Len(replay) = ListsBefore(Len(log[Server]))
    /\ TurnPlaces
    /\ Strict => LegalTurns(log[Server])

LEMMA ReplayPlayerOf ==
    ASSUME TypeOK, FullFile, NEW x \in Nat, NEW j \in 0 .. Len(log[Server]) - 1,
           NEW p \in Player, log[Server][j + 1].player = p
    PROVE  ReplayPlayer(ReplayAt(ListsBefore(j), j, x), p) =
               ReplayAt(ListsBefore(j + 1), j + 1, x + Hit("player_turn"))
  <1>0. /\ j \in Nat /\ j + 1 <= Len(log[Server]) /\ Len(log[Server]) \in Nat
        /\ x + Hit("player_turn") \in Nat /\ NbSpectators \in Nat /\ NbPlayers \in Nat
        /\ replay \in Seq(SavedTurn)
    <2>1. Len(log[Server]) \in Nat /\ NbSpectators \in Nat /\ NbPlayers \in Nat
      BY LogTypes, CountFacts
    <2>2. replay \in Seq(SavedTurn)
      BY DEF TypeOK, SavedTurn
    <2> QED
      BY <2>1, <2>2 DEF Hit
  <1>1. PICK y \in Nat, i \in Nat :
           y = x + Hit("player_turn") /\ i = ListsBefore(j)
    BY <1>0, CountFacts
  <1>2. PICK r : r = ReplayAt(i, j, x)
    OBVIOUS
  <1>3. i + NbSpectators + 1 = ListsBefore(j + 1) /\ i + NbSpectators + 1 <= Len(replay)
    <2>1. ListsBefore(j + 1) = ListsBefore(j) + NbSpectators + 1
      BY <1>0, CountFacts
    <2>2. ListsBefore(j + 1) <= ListsBefore(Len(log[Server]))
      <3>1. j + 1 \in Nat
        BY <1>0
      <3> QED
        BY <1>0, <3>1, CountFacts
    <2> QED
      BY <1>1, <2>1, <2>2 DEF FullFile
  <1>4. ASSUME NEW s \in 0 .. NbSpectators
        PROVE  /\ i + s \in 0 .. Len(replay) - 1
               /\ s = 0 => replay[i + 1].actions = log[Server][j + 1].actions
               /\ s > 0 => replay[i + s + 1].actions = <<>> /\ NbPlayers + s - 1 \in Spectator
    <2>1. i + s \in 0 .. Len(replay) - 1 /\ i + s + 1 \in DOMAIN replay
      BY <1>0, <1>1, <1>3, SMTT(30)
    <2>2. ListAt(j, s)
      BY <1>0, <1>1, <2>1 DEF FullFile, FileLists
    <2>3. CASE s = 0
      BY <1>0, <1>1, <2>1, <2>2, <2>3 DEF ListAt
    <2>4. CASE s > 0
      <3>1. NbPlayers + s - 1 \in Spectator
        BY <1>0, <2>4 DEF Spectator
      <3>2. replay[i + s + 1].client = NbPlayers + s - 1
        BY <1>1, <2>2, <2>4 DEF ListAt
      <3> QED
        BY <2>1, <2>4, <3>1, <3>2 DEF FullFile, Quiet
    <2> QED
      BY <1>0, <2>1, <2>3, <2>4
  <1> DEFINE g == [s \in 0 .. NbSpectators |-> ReplayAt(i + s + 1, j + 1, y)]
  <1>5. ReplayTurn(r, p) = ReplayAt(i + 1, j + 1, y)
    <2>1. 0 \in 0 .. NbSpectators /\ i \in 0 .. Len(replay) - 1
      BY <1>0, <1>1, <1>3
    <2>2. replay[i + 1].actions = log[Server][j + 1].actions
      BY <1>4, <2>1
    <2> QED
      BY <1>1, <1>2, <2>1, <2>2, ReplayTurnOf DEF FullFile
  <1>6. ASSUME NEW s \in 1 .. NbSpectators
        PROVE  ReplayTurn(ReplayAt(i + s, j + 1, y), NbPlayers + s - 1) =
                   ReplayAt(i + s + 1, j + 1, y)
    <2>1. /\ i + s \in 0 .. Len(replay) - 1 /\ replay[i + s + 1].actions = <<>>
          /\ NbPlayers + s - 1 \in Spectator
      <3>1. s \in 0 .. NbSpectators /\ s > 0
        BY <1>0
      <3> QED
        BY <1>4, <3>1
    <2> QED
      BY <1>1, <2>1, ReplayTurnWatched
  <1>7. /\ g[0] = ReplayTurn(r, p)
        /\ \A s \in 1 .. NbSpectators : g[s] = ReplayTurn(g[s - 1], NbPlayers + s - 1)
    <2>1. g[0] = ReplayAt(i + 1, j + 1, y)
      BY <1>0, <1>1
    <2>2. ASSUME NEW s \in 1 .. NbSpectators
          PROVE  g[s] = ReplayTurn(g[s - 1], NbPlayers + s - 1)
      <3>1. s - 1 \in 0 .. NbSpectators /\ s \in 0 .. NbSpectators /\ i + (s - 1) + 1 = i + s
        BY <1>0, <1>1
      <3>2. g[s] = ReplayAt(i + s + 1, j + 1, y) /\ g[s - 1] = ReplayAt(i + s, j + 1, y)
        BY <3>1
      <3> QED
        BY <1>6, <3>2
    <2> QED
      BY <1>5, <2>1, <2>2
  <1>8. IsPlayerReplay(g, r, p)
    <2>1. g = [s \in 0 .. NbSpectators |-> g[s]]
      OBVIOUS
    <2> HIDE DEF g
    <2>2. \A s \in 0 .. NbSpectators :
             g[s] = IF s = 0 THEN ReplayTurn(r, p) ELSE ReplayTurn(g[s - 1], NbPlayers + s - 1)
      BY <1>0, <1>7
    <2> QED
      BY <2>1, <2>2 DEF IsPlayerReplay
  <1>9. PICK f : IsPlayerReplay(f, r, p) /\ ReplayPlayer(r, p) = f[NbSpectators]
    <2>1. \E f : IsPlayerReplay(f, r, p)
      <3> HIDE DEF g
      <3> QED
        BY <1>8
    <2>2. ReplayPlayer(r, p) = (CHOOSE f : IsPlayerReplay(f, r, p))[NbSpectators]
      BY DEF ReplayPlayer, IsPlayerReplay
    <2>3. PICK f : f = CHOOSE h : IsPlayerReplay(h, r, p)
      OBVIOUS
    <2>4. IsPlayerReplay(f, r, p)
      BY <2>1, <2>3
    <2> QED
      BY <2>2, <2>3, <2>4
  <1>10. f[NbSpectators] = g[NbSpectators]
    <2>1. \A s \in 0 .. NbSpectators :
             f[s] = IF s = 0 THEN ReplayTurn(r, p) ELSE ReplayTurn(f[s - 1], NbPlayers + s - 1)
      BY <1>9 DEF IsPlayerReplay
    <2> HIDE DEF g
    <2>2. f[0] = g[0]
      BY <1>0, <1>7, <2>1
    <2>3. \A s \in 1 .. NbSpectators : f[s - 1] = g[s - 1] => f[s] = g[s]
      BY <1>0, <1>7, <2>1
    <2> QED
      BY <1>0, <2>2, <2>3, SameSteps
  <1>11. g[NbSpectators] = ReplayAt(i + NbSpectators + 1, j + 1, y)
    BY <1>0
  <1> QED
    BY <1>1, <1>2, <1>3, <1>9, <1>10, <1>11

IsRoundReplay(f, r) ==
    f = [p \in 0 .. NbPlayers |-> IF p = 0 THEN r ELSE ReplayPlayer(f[p - 1], p - 1)]

LEMMA ReplayPlayersOf ==
    ASSUME TypeOK, FullFile, NEW x \in Nat, NEW m \in Nat,
           TurnsBefore(m + 1) <= Len(log[Server])
    PROVE  ReplayPlayers(ReplayAt(ListsBefore(TurnsBefore(m)), TurnsBefore(m), x)) =
               ReplayAt(ListsBefore(TurnsBefore(m + 1)), TurnsBefore(m + 1),
                        x + IF FinishHook = "player_turn" THEN NbPlayers ELSE 0)
  <1>0. /\ Len(log[Server]) \in Nat /\ NbPlayers \in Nat \ {0}
        /\ Hit("player_turn") = IF FinishHook = "player_turn" THEN 1 ELSE 0
    BY LogTypes, CountFacts DEF Hit
  <1>1. PICK t \in Nat : t = TurnsBefore(m) /\ t + NbPlayers = TurnsBefore(m + 1)
    BY CountFacts
  <1>2. PICK r : r = ReplayAt(ListsBefore(t), t, x)
    OBVIOUS
  <1> DEFINE Hooks(p) == IF FinishHook = "player_turn" THEN p ELSE 0
             g == [p \in 0 .. NbPlayers |-> ReplayAt(ListsBefore(t + p), t + p, x + Hooks(p))]
  <1>3. ASSUME NEW p \in 1 .. NbPlayers
        PROVE  g[p] = ReplayPlayer(g[p - 1], p - 1)
    <2>1. PICK q \in Player : q = p - 1
      BY <1>0 DEF Player
    <2>2. /\ q \in 0 .. NbPlayers /\ p \in 0 .. NbPlayers /\ p = q + 1
          /\ t + q \in 0 .. Len(log[Server]) - 1 /\ t + q \in Nat
          /\ t + q + 1 <= Len(log[Server]) /\ t + q + 1 = t + p
          /\ x + Hooks(q) \in Nat /\ x + Hooks(q) + Hit("player_turn") = x + Hooks(p)
      BY <1>0, <1>1, <2>1, SMTT(30) DEF Player
    <2>3. log[Server][t + q + 1].player = q
      BY <1>1, <2>2 DEF FullFile, TurnPlaces
    <2>4. g[q] = ReplayAt(ListsBefore(t + q), t + q, x + Hooks(q))
      BY <2>2
    <2>5. g[p] = ReplayAt(ListsBefore(t + p), t + p, x + Hooks(p))
      BY <2>2
    <2> HIDE DEF g, Hooks
    <2>6. ReplayPlayer(ReplayAt(ListsBefore(t + q), t + q, x + Hooks(q)), q) =
             ReplayAt(ListsBefore(t + q + 1), t + q + 1, x + Hooks(q) + Hit("player_turn"))
      BY <2>2, <2>3, ReplayPlayerOf
    <2> QED
      BY <2>1, <2>2, <2>4, <2>5, <2>6
  <1>4. g[0] = r
    BY <1>0, <1>1, <1>2
  <1>5. IsRoundReplay(g, r)
    <2>1. g = [p \in 0 .. NbPlayers |-> g[p]]
      OBVIOUS
    <2> HIDE DEF g
    <2>2. \A p \in 0 .. NbPlayers :
             g[p] = IF p = 0 THEN r ELSE ReplayPlayer(g[p - 1], p - 1)
      BY <1>0, <1>3, <1>4
    <2> QED
      BY <2>1, <2>2 DEF IsRoundReplay
  <1>6. PICK f : IsRoundReplay(f, r) /\ ReplayPlayers(r) = f[NbPlayers]
    <2>1. \E f : IsRoundReplay(f, r)
      <3> HIDE DEF g
      <3> QED
        BY <1>5
    <2>2. ReplayPlayers(r) = (CHOOSE f : IsRoundReplay(f, r))[NbPlayers]
      BY DEF ReplayPlayers, IsRoundReplay
    <2>3. PICK f : f = CHOOSE h : IsRoundReplay(h, r)
      OBVIOUS
    <2>4. IsRoundReplay(f, r)
      BY <2>1, <2>3
    <2> QED
      BY <2>2, <2>3, <2>4
  <1>7. f[NbPlayers] = g[NbPlayers]
    <2>1. \A p \in 0 .. NbPlayers :
             f[p] = IF p = 0 THEN r ELSE ReplayPlayer(f[p - 1], p - 1)
      BY <1>6 DEF IsRoundReplay
    <2> HIDE DEF g
    <2>2. f[0] = g[0]
      BY <1>0, <1>4, <2>1
    <2>3. \A p \in 1 .. NbPlayers : f[p - 1] = g[p - 1] => f[p] = g[p]
      BY <1>0, <1>3, <2>1
    <2> QED
      BY <1>0, <2>2, <2>3, SameSteps
  <1>8. g[NbPlayers] = ReplayAt(ListsBefore(t + NbPlayers), t + NbPlayers, x + Hooks(NbPlayers))
    BY <1>0
  <1> QED
    BY <1>1, <1>2, <1>6, <1>7, <1>8

\* Where the replay is after the first m rounds of the server.
RoundAt(m) == ReplayAt(ListsBefore(TurnsBefore(m)), TurnsBefore(m), RoundHooks(m))

\* A hook of the replay runs, and nothing else changes.
LEMMA ReplayHook ==
    ASSUME NEW file, NEW turns, NEW x, NEW h, NEW r,
           r = [file |-> file, turns |-> turns, ticks |-> x, error |-> FALSE]
    PROVE  [r EXCEPT !.ticks = @ + h] =
               [file |-> file, turns |-> turns, ticks |-> x + h, error |-> FALSE]
  <1>1. PICK y : y = x + h
    OBVIOUS
  <1>2. PICK q : q = [r EXCEPT !.ticks = y]
    OBVIOUS
  <1>3. PICK t : t = [file |-> file, turns |-> turns, ticks |-> y, error |-> FALSE]
    OBVIOUS
  <1>4. /\ DOMAIN r = {"file", "turns", "ticks", "error"}
        /\ DOMAIN t = {"file", "turns", "ticks", "error"}
    BY <1>3
  <1>5. q = [i \in {"file", "turns", "ticks", "error"} |-> IF i = "ticks" THEN y ELSE r[i]]
    BY <1>2, <1>4
  <1>6. t = [i \in {"file", "turns", "ticks", "error"} |-> t[i]]
    BY <1>3, <1>4
  <1>7. \A i \in {"file", "turns", "ticks", "error"} :
            t[i] = IF i = "ticks" THEN y ELSE r[i]
    <2>1. t.file = r.file /\ t.turns = r.turns /\ t.ticks = y
      BY <1>3
    <2>2. t.error = r.error
      BY <1>3, Zenon
    <2> QED
      BY <2>1, <2>2
  <1>8. q = t
    BY <1>5, <1>6, <1>7
  <1>9. r.ticks = x
    OBVIOUS
  <1> QED
    BY <1>1, <1>2, <1>3, <1>8, <1>9

LEMMA ReplayRoundOf ==
    ASSUME FinishHook # "start_of_round", TypeOK, FullFile, NEW m \in Nat,
           TurnsBefore(m + 1) <= Len(log[Server])
    PROVE  ReplayRound(RoundAt(m)) = RoundAt(m + 1)
  <1>1. PICK x \in Nat : x = RoundHooks(m)
    BY CountFacts
  <1>2. PICK r : r = RoundAt(m)
    OBVIOUS
  <1>3. PICK y \in Nat : y = x + IF FinishHook = "player_turn" THEN NbPlayers ELSE 0
    BY PlayersAssumption
  <1>4. [r EXCEPT !.ticks = @ + Hit("start_of_round")] = r
    <2>1. PICK file, turns : r = [file |-> file, turns |-> turns, ticks |-> x, error |-> FALSE]
      BY <1>1, <1>2 DEF RoundAt, ReplayAt
    <2>2. PICK h : h = Hit("start_of_round") /\ x + h = x
      BY <1>1 DEF Hit
    <2>3. [r EXCEPT !.ticks = @ + h] =
              [file |-> file, turns |-> turns, ticks |-> x + h, error |-> FALSE]
      BY <2>1, ReplayHook
    <2> QED
      BY <2>1, <2>2, <2>3
  <1>5. ReplayPlayers(r) = ReplayAt(ListsBefore(TurnsBefore(m + 1)), TurnsBefore(m + 1), y)
    BY <1>1, <1>2, <1>3, ReplayPlayersOf DEF RoundAt
  <1>6. ReplayRound(r) = [ReplayPlayers(r) EXCEPT !.ticks = @ + Hit("end_of_round")]
    <2>1. ReplayPlayers(r).error = FALSE
      BY <1>5 DEF ReplayAt
    <2> QED
      BY <1>4, <2>1 DEF ReplayRound
  <1>7. ReplayRound(r) = ReplayAt(ListsBefore(TurnsBefore(m + 1)), TurnsBefore(m + 1),
                                  y + Hit("end_of_round"))
    <2>1. PICK file, turns : /\ file = SubSeq(replay, ListsBefore(TurnsBefore(m + 1)) + 1, Len(replay))
                             /\ turns = SubSeq(log[Server], 1, TurnsBefore(m + 1))
      OBVIOUS
    <2>2. ReplayPlayers(r) = [file |-> file, turns |-> turns, ticks |-> y, error |-> FALSE]
      BY <1>5, <2>1 DEF ReplayAt
    <2>3. PICK h : h = Hit("end_of_round")
      OBVIOUS
    <2>4. PICK q : q = ReplayPlayers(r)
      OBVIOUS
    <2>5. [q EXCEPT !.ticks = @ + h] =
              [file |-> file, turns |-> turns, ticks |-> y + h, error |-> FALSE]
      BY <2>2, <2>4, ReplayHook
    <2> QED
      BY <1>6, <2>1, <2>3, <2>4, <2>5 DEF ReplayAt
  <1>8. RoundHooks(m + 1) = y + Hit("end_of_round")
    <2>1. RoundHooks(m + 1) = x + IF FinishHook = "player_turn" THEN NbPlayers ELSE 1
      BY <1>1, CountFacts
    <2>2. Hit("end_of_round") = IF FinishHook = "player_turn" THEN 0 ELSE 1
      BY HookAssumption DEF Hit, Hook
    <2> QED
      BY <1>1, <1>3, <2>1, <2>2, PlayersAssumption
  <1> QED
    BY <1>2, <1>7, <1>8 DEF RoundAt

IsReplay(f, saved) ==
    f = [n \in 0 .. Limit |->
            IF n = 0 THEN ReplayInit(saved)
            ELSE IF f[n - 1].error \/ Over(f[n - 1].ticks) THEN f[n - 1]
            ELSE ReplayRound(f[n - 1])]

LEMMA RoundsCount == \A k \in Nat : k <= RoundHooks(k)
  <1>1. ASSUME NEW k \in Nat PROVE k <= TurnsBefore(k)
    <2>1. PICK d \in Nat : NbPlayers = d + 1
      <3>1. NbPlayers - 1 \in Nat /\ NbPlayers = (NbPlayers - 1) + 1
        BY PlayersAssumption
      <3> QED
        BY <3>1
    <2>2. k * (d + 1) = k * d + k /\ k * d \in Nat
      OBVIOUS
    <2> QED
      BY <2>1, <2>2 DEF TurnsBefore
  <1> QED
    BY <1>1 DEF RoundHooks

LEMMA ReplayOfFile ==
    ASSUME FinishHook # "start_of_round", TypeOK, FullFile, spc = "done",
           NEW k \in Nat, RoundPlace(k)
    PROVE  ReplayLoop(replay) = RoundAt(k)
  <1>0. /\ Len(log[Server]) = TurnsBefore(k) /\ k >= 1
        /\ RoundHooks(k - 1) < Limit /\ RoundHooks(k) >= Limit
        /\ Limit \in Nat \ {0}
    BY CountFacts DEF RoundPlace
  <1>1. PICK j \in Nat : k = j + 1 /\ RoundHooks(j) < Limit
    <2>1. k - 1 \in Nat /\ k = (k - 1) + 1
      BY <1>0
    <2> QED
      BY <1>0, <2>1
  <1>2. k <= Limit
    <2>1. j <= RoundHooks(j) /\ RoundHooks(j) \in Nat
      BY RoundsCount, CountFacts
    <2> QED
      BY <1>0, <1>1, <2>1
  <1>3. RoundAt(0) = ReplayInit(replay)
    <2>1. replay \in Seq(SavedTurn) /\ log[Server] \in Seq(Turn)
      BY LogTypes DEF TypeOK, SavedTurn
    <2>2. /\ SubSeq(replay, 1, Len(replay)) = replay
          /\ SubSeq(log[Server], 1, 0) = <<>>
      BY <2>1, SubSeqFull, SubSeqEmpty
    <2>3. ListsBefore(TurnsBefore(0)) = 0 /\ TurnsBefore(0) = 0 /\ RoundHooks(0) = 0
      BY CountFacts
    <2>4. 0 + 1 = 1
      OBVIOUS
    <2> QED
      BY <2>2, <2>3, <2>4 DEF RoundAt, ReplayAt, ReplayInit
  <1>4. \A m \in Nat : RoundAt(m).error = FALSE /\ RoundAt(m).ticks = RoundHooks(m)
    BY DEF RoundAt, ReplayAt
  <1>5. ASSUME NEW m \in Nat, m < k
        PROVE  ~Over(RoundAt(m).ticks) /\ ReplayRound(RoundAt(m)) = RoundAt(m + 1)
    <2>1. m <= j /\ m + 1 <= k /\ m + 1 \in Nat
      BY <1>1, <1>5
    <2>2. RoundHooks(m) <= RoundHooks(j) /\ RoundHooks(m) \in Nat /\ RoundHooks(j) \in Nat
      BY <2>1, CountFacts
    <2>3. TurnsBefore(m + 1) <= Len(log[Server])
      BY <1>0, <2>1, CountFacts
    <2>4. ReplayRound(RoundAt(m)) = RoundAt(m + 1)
      BY <2>3, ReplayRoundOf
    <2>5. RoundAt(m).ticks = RoundHooks(m)
      BY <1>4
    <2> QED
      BY <1>0, <1>1, <2>2, <2>4, <2>5 DEF Over
  <1>6. Over(RoundAt(k).ticks)
    BY <1>0, <1>4 DEF Over
  <1> DEFINE g == [n \in 0 .. Limit |-> RoundAt(IF n <= k THEN n ELSE k)]
  <1>7. ASSUME NEW n \in 1 .. Limit
        PROVE  g[n] = IF g[n - 1].error \/ Over(g[n - 1].ticks) THEN g[n - 1]
                      ELSE ReplayRound(g[n - 1])
    <2>1. PICK m \in Nat : m = n - 1 /\ n = m + 1 /\ m \in 0 .. Limit /\ n \in 0 .. Limit
      BY <1>0
    <2>2. CASE m < k
      <3>1. g[n] = RoundAt(m + 1) /\ g[n - 1] = RoundAt(m)
        BY <2>1, <2>2
      <3> HIDE DEF g
      <3> QED
        BY <1>4, <1>5, <2>2, <3>1
    <2>3. CASE ~(m < k)
      <3>1. g[n] = RoundAt(k) /\ g[n - 1] = RoundAt(k)
        BY <2>1, <2>3
      <3> HIDE DEF g
      <3> QED
        BY <1>6, <3>1
    <2> QED
      BY <2>2, <2>3
  <1>8. g[0] = ReplayInit(replay) /\ g[Limit] = RoundAt(k)
    BY <1>0, <1>2, <1>3
  <1>9. IsReplay(g, replay)
    <2>1. g = [n \in 0 .. Limit |-> g[n]]
      OBVIOUS
    <2> HIDE DEF g
    <2>2. \A n \in 0 .. Limit :
             g[n] = IF n = 0 THEN ReplayInit(replay)
                    ELSE IF g[n - 1].error \/ Over(g[n - 1].ticks) THEN g[n - 1]
                    ELSE ReplayRound(g[n - 1])
      BY <1>0, <1>7, <1>8
    <2> QED
      BY <2>1, <2>2 DEF IsReplay
  <1>10. PICK f : IsReplay(f, replay) /\ ReplayLoop(replay) = f[Limit]
    <2>1. \E f : IsReplay(f, replay)
      <3> HIDE DEF g
      <3> QED
        BY <1>9
    <2>2. ReplayLoop(replay) = (CHOOSE f : IsReplay(f, replay))[Limit]
      BY DEF ReplayLoop, IsReplay
    <2>3. PICK f : f = CHOOSE h : IsReplay(h, replay)
      OBVIOUS
    <2>4. IsReplay(f, replay)
      BY <2>1, <2>3
    <2> QED
      BY <2>2, <2>3, <2>4
  <1>11. f[Limit] = g[Limit]
    <2>1. \A n \in 0 .. Limit :
             f[n] = IF n = 0 THEN ReplayInit(replay)
                    ELSE IF f[n - 1].error \/ Over(f[n - 1].ticks) THEN f[n - 1]
                    ELSE ReplayRound(f[n - 1])
      BY <1>10 DEF IsReplay
    <2> HIDE DEF g
    <2>2. f[0] = g[0]
      BY <1>0, <1>8, <2>1
    <2>3. ASSUME NEW n \in 1 .. Limit, f[n - 1] = g[n - 1] PROVE f[n] = g[n]
      <3>1. n \in 0 .. Limit /\ n # 0
        BY <1>0
      <3>2. f[n] = IF f[n - 1].error \/ Over(f[n - 1].ticks) THEN f[n - 1]
                   ELSE ReplayRound(f[n - 1])
        BY <2>1, <3>1
      <3> QED
        BY <1>7, <2>3, <3>2
    <2> QED
      BY <1>0, <2>2, <2>3, SameSteps
  <1> QED
    BY <1>8, <1>10, <1>11

LEMMA QuietReplay ==
    ASSUME FinishHook # "start_of_round", TypeOK, RoundInvariant, FileInvariant, Quiet
    PROVE  ReplayRebuilds
  <1> SUFFICES ASSUME spc = "done"
               PROVE  LET r == ReplayLoop(replay) IN
                      ~r.error /\ r.file = <<>> /\ r.turns = log[Server]
    BY DEF ReplayRebuilds
  <1>1. PICK k \in Nat : RoundPlace(k)
    BY DEF RoundInvariant
  <1>2. FullFile
    <2>1. SavedTurns = Len(log[Server])
      BY DEF SavedTurns
    <2>2. Len(replay) = ListsBefore(Len(log[Server])) + 0
      BY <2>1 DEF FileInvariant
    <2>3. ListsBefore(Len(log[Server])) \in Nat
      BY LogTypes, CountFacts
    <2> QED
      BY <2>2, <2>3 DEF FullFile, FileInvariant, RoundInvariant
  <1>3. ReplayLoop(replay) = RoundAt(k)
    BY <1>1, <1>2, ReplayOfFile
  <1>4. Len(log[Server]) = TurnsBefore(k) /\ Len(replay) = ListsBefore(TurnsBefore(k))
    BY <1>1, <1>2 DEF RoundPlace, FullFile
  <1>5. replay \in Seq(SavedTurn) /\ log[Server] \in Seq(Turn)
    BY LogTypes DEF TypeOK, SavedTurn
  <1>6. SubSeq(replay, Len(replay) + 1, Len(replay)) = <<>>
    BY <1>5, SubSeqEmpty
  <1>7. SubSeq(log[Server], 1, Len(log[Server])) = log[Server]
    BY <1>5, SubSeqFull
  <1> QED
    BY <1>3, <1>4, <1>6, <1>7 DEF RoundAt, ReplayAt

\* The file of a finished match leads replay_loop to the state of the server,
\* and is read up to the result: whoever has died, been late or been
\* eliminated, in a match without spectators.  Not when the game is over at
\* the start of a round: replay_loop plays that round.
THEOREM ReplayUnwatched ==
    ASSUME FinishHook # "start_of_round", NbSpectators = 0
    PROVE  Spec => []ReplayRebuilds
  <1>1. StreamInvariant /\ RoundInvariant /\ FileInvariant => ReplayRebuilds
    <2>1. Quiet
      BY SpectatorFacts DEF Quiet
    <2>2. StreamInvariant => TypeOK
      BY DEF StreamInvariant
    <2> QED
      BY <2>1, <2>2, QuietReplay
  <1> QED
    BY <1>1, StreamSafety, RoundHolds, FileHolds, PTL

\* So does that of a match with spectators, as long as no player is late: the
\* late answer of a player is taken for the one of a spectator, and saved as
\* actions that the server has not applied.
THEOREM ReplayWatched ==
    ASSUME FinishHook # "start_of_round", MaxConsecutiveTimeout > 0
    PROVE  Spec => [](Punctual => ReplayRebuilds)
  <1>1. /\ StreamInvariant /\ RoundInvariant /\ FileInvariant /\ (Punctual => Quiet)
        => (Punctual => ReplayRebuilds)
    <2>1. StreamInvariant => TypeOK
      BY DEF StreamInvariant
    <2> QED
      BY <2>1, QuietReplay
  <1> QED
    BY <1>1, StreamSafety, RoundHolds, FileHolds, PunctualIsQuiet, PTL
=============================================================================
