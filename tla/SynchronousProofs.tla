------------------------- MODULE SynchronousProofs -------------------------
(***************************************************************************)
(* Theorems about Synchronous, for any number of players and spectators,   *)
(* any game and any deaths.  Whatever the delays: what becomes of the      *)
(* seats, the actions of the others, each of them applied once, and the    *)
(* replay of a finished match.  When no player is slow: the barrier        *)
(* between two rounds, the rounds all agree on, and Rounds.                *)
(***************************************************************************)
EXTENDS SynchronousRounds, SynchronousReplay, FiniteSetTheorems, ListLemmas

-----------------------------------------------------------------------------
(* The clients, and the stream of what is published. *)

LEMMA ClientFacts ==
    /\ Client = Player \union Spectator
    /\ Player \cap Spectator = {}
    /\ IsFiniteSet(Client) /\ IsFiniteSet(Player) /\ IsFiniteSet(Spectator)
    /\ Cardinality(Client) = NbPlayers + NbSpectators
    /\ Cardinality(Spectator) = NbSpectators
  <1> USE PlayersAssumption, SpectatorsAssumption, ClientAssumption
  <1>1. Client = Player \union Spectator /\ Player \cap Spectator = {}
    BY DEF Player, Spectator
  <1>2. /\ IsFiniteSet(Client)
        /\ Cardinality(Client) = NbPlayers + NbSpectators
    BY FS_Interval
  <1>3. IsFiniteSet(Player)
    BY FS_Interval DEF Player
  <1>4. IsFiniteSet(Spectator) /\ Cardinality(Spectator) = NbSpectators
    <2>1. NbPlayers \in Int /\ NbPlayers + NbSpectators - 1 \in Int
      OBVIOUS
    <2>2. IsFiniteSet(Spectator)
      BY <2>1, FS_Interval DEF Spectator
    <2>3. Cardinality(Spectator) =
              IF NbPlayers > NbPlayers + NbSpectators - 1 THEN 0
              ELSE (NbPlayers + NbSpectators - 1) - NbPlayers + 1
      BY <2>1, FS_Interval DEF Spectator
    <2> QED
      BY <2>2, <2>3
  <1> QED
    BY <1>1, <1>2, <1>3, <1>4

\* A client more in a set of clients.
LEMMA OneMore ==
    ASSUME NEW H \in SUBSET Client, NEW c \in Client \ H
    PROVE  /\ Cardinality(H \union {c}) = Cardinality(H) + 1
           /\ Cardinality(H) \in Nat
           /\ c \in Spectator =>
                /\ Cardinality((H \union {c}) \cap Spectator) =
                       Cardinality(H \cap Spectator) + 1
                /\ Cardinality(H \cap Spectator) + 1 <= NbSpectators
           /\ c \notin Spectator => (H \union {c}) \cap Spectator = H \cap Spectator
           /\ Cardinality(H \cap Spectator) \in 0 .. NbSpectators
  <1>1. IsFiniteSet(H)
    BY ClientFacts, FS_Subset
  <1>2. Cardinality(H \union {c}) = Cardinality(H) + 1 /\ Cardinality(H) \in Nat
    BY <1>1, FS_AddElement, FS_CardinalityType
  <1>3. ASSUME NEW T \in SUBSET Spectator
        PROVE  IsFiniteSet(T) /\ Cardinality(T) \in 0 .. NbSpectators
    <2>1. IsFiniteSet(T) /\ Cardinality(T) <= Cardinality(Spectator)
      BY ClientFacts, FS_Subset
    <2>2. Cardinality(T) \in Nat
      BY <2>1, FS_CardinalityType
    <2> QED
      BY <2>1, <2>2, ClientFacts, SpectatorsAssumption
  <1>4. Cardinality(H \cap Spectator) \in 0 .. NbSpectators
    BY <1>3
  <1>5. ASSUME c \in Spectator
        PROVE  /\ Cardinality((H \union {c}) \cap Spectator) =
                      Cardinality(H \cap Spectator) + 1
               /\ Cardinality(H \cap Spectator) + 1 <= NbSpectators
    <2>1. (H \union {c}) \cap Spectator = (H \cap Spectator) \union {c}
      BY <1>5
    <2>2. Cardinality((H \cap Spectator) \union {c}) = Cardinality(H \cap Spectator) + 1
      BY <1>3, FS_AddElement
    <2>3. Cardinality((H \cap Spectator) \union {c}) \in 0 .. NbSpectators
      BY <1>3, <1>5
    <2> QED
      BY <1>4, <2>1, <2>2, <2>3
  <1> QED
    BY <1>2, <1>4, <1>5

LEMMA PushIsLonger ==
    ASSUME NEW s, NEW x, \E S : s \in Seq(S)
    PROVE  /\ \E S : Append(s, x) \in Seq(S)
           /\ Len(s) \in Nat
           /\ Len(Append(s, x)) = Len(s) + 1
  <1>1. PICK S : s \in Seq(S)
    OBVIOUS
  <1> DEFINE T == S \union {x}
  <1>2. s \in Seq(T)
    BY <1>1
  <1>3. x \in T
    OBVIOUS
  <1> HIDE DEF T
  <1>4. Append(s, x) \in Seq(T) /\ Len(s) \in Nat /\ Len(Append(s, x)) = Len(s) + 1
    BY <1>2, <1>3, AppendProperties, LenProperties
  <1> QED
    BY <1>4

-----------------------------------------------------------------------------
(* The seats: a player leaves players_ids when its count of timeouts meets  *)
(* MaxTimeout, and once only, although it goes on being increased.          *)

SeatInvariant ==
    /\ playersIds \subseteq Client
    /\ Spectator \subseteq playersIds
    /\ timeouting \subseteq Player
    /\ nbTimeout \in [Player -> Nat]
    /\ \A p \in Player : p \in playersIds <=> nbTimeout[p] < MaxTimeout
    /\ playersCount = Cardinality(playersIds)

LEMMA SeatInit == Init => SeatInvariant
  <1> SUFFICES ASSUME Init PROVE SeatInvariant
    OBVIOUS
  <1>1. playersCount = Cardinality(playersIds)
    BY ClientFacts DEF Init
  <1> QED
    BY <1>1, ClientFacts, TimeoutAssumption DEF Init, SeatInvariant

LEMMA SeatNext ==
    ASSUME SeatInvariant, [Next]_vars
    PROVE  SeatInvariant'
  <1> USE DEF SeatInvariant
  <1>1. CASE CloseCollection
    <2>1. Eliminated \subseteq Player /\ Eliminated \subseteq playersIds
      BY TimeoutAssumption DEF Eliminated
    <2>2. IsFiniteSet(playersIds)
      BY ClientFacts, FS_Subset
    <2>3. playersCount' = Cardinality(playersIds')
      <3>1. playersIds \cap Eliminated = Eliminated
        BY <2>1
      <3>2. Cardinality(playersIds \ Eliminated) =
                Cardinality(playersIds) - Cardinality(playersIds \cap Eliminated)
        BY <2>2, FS_Difference
      <3> QED
        BY <1>1, <3>1, <3>2 DEF CloseCollection
    <2>4. nbTimeout' \in [Player -> Nat]
      BY <1>1 DEF CloseCollection
    <2>5. \A p \in Player : p \in playersIds' <=> nbTimeout'[p] < MaxTimeout
      BY <1>1, TimeoutAssumption DEF CloseCollection, Eliminated
    <2>6. playersIds' \subseteq Client /\ Spectator \subseteq playersIds'
      BY <1>1, <2>1, ClientFacts DEF CloseCollection
    <2>7. timeouting' \subseteq Player
      BY <1>1 DEF CloseCollection
    <2> QED
      BY <2>3, <2>4, <2>5, <2>6, <2>7
  <1>2. CASE UNCHANGED <<playersIds, playersCount, nbTimeout>> /\ timeouting' \subseteq Player
    BY <1>2
  <1>3. CASE StartRound
    BY <1>2, <1>3 DEF StartRound
  <1>4. CASE ReceiveAnswer
    BY <1>2, <1>4 DEF ReceiveAnswer, Clear
  <1>5. CASE ReceiveRevived \/ ReceiveSpectator \/ Publish
    BY <1>2, <1>5 DEF ReceiveRevived, ReceiveSpectator, Publish
  <1>6. CASE \E c \in Client : ClientStep(c) \/ Die(c)
    BY <1>2, <1>6 DEF ClientStep, PlayRound, Acknowledged, PullRound, Die, serverVars
  <1>7. CASE Terminated \/ UNCHANGED vars
    BY <1>2, <1>7 DEF Terminated, vars, serverVars
  <1> QED
    BY <1>1, <1>3, <1>4, <1>5, <1>6, <1>7 DEF Next, ServerStep

\* What is expected in a round is the number of clients that have not been
\* eliminated, and the players among them are those that were counted late
\* fewer than MaxTimeout times: whatever the delays nobody is eliminated twice,
\* although the counts of those that are gone go on.
THEOREM EliminatedOnce ==
    Spec => [](/\ playersCount = Cardinality(playersIds)
               /\ playersIds \cap Player = {p \in Player : nbTimeout[p] < MaxTimeout})
  <1>1. SeatInvariant => /\ playersCount = Cardinality(playersIds)
                         /\ playersIds \cap Player =
                                {p \in Player : nbTimeout[p] < MaxTimeout}
    BY DEF SeatInvariant
  <1> QED
    BY <1>1, SeatInit, SeatNext, PTL DEF Spec

-----------------------------------------------------------------------------
(* The barrier, when no player is slow: in a round every client that is     *)
(* still there is heard once, and nobody is heard who is not expected.      *)

Pending == {r.from : r \in requests}

\* A client that has been heard in the round the server is in.
Answered(c) ==
    /\ c \notin Pending
    /\ Gone(c) \/ (cpc[c] \in {"ack", "actions"} /\ cursor[c] = Len(published))

\* H are the clients the server has counted so far.
Heard(H) ==
    /\ H \subseteq playersIds
    /\ \A c \in H : Answered(c)
    /\ spectatorsCount = NbSpectators - Cardinality(H \cap Spectator)

Collected(H) ==
    /\ Heard(H)
    /\ answers = Cardinality(H)
    /\ H \cap Player = Player \ timeouting

Closed(H) ==
    /\ Heard(H)
    /\ Pending \cap Player = {}
    /\ \A p \in Player : Gone(p) \/ p \in H

ServerInRound ==
    /\ spc \in {"round", "collect", "spectators", "done"}
    /\ spectatorsCount \in 0 .. NbSpectators
    /\ spc = "collect" => \E H \in SUBSET Client : Collected(H)
    /\ spc = "spectators" => \E H \in SUBSET Client : Closed(H)

ClientInRound(c) ==
    /\ c \in Pending =>
          /\ c \in playersIds
          /\ \/ cpc[c] = "dead"
             \/ cpc[c] = "ack" /\ c \notin replies /\ cursor[c] = Len(published)
    /\ cpc[c] = "round" => c \notin replies /\ cursor[c] = Len(published)
    /\ cpc[c] = "actions" => c \notin replies
    /\ cpc[c] \in {"ack", "actions"} =>
          cursor[c] \in {Len(published) - 1, Len(published)}
    /\ c \notin playersIds => Gone(c)

BarrierInvariant ==
    /\ SeatInvariant
    /\ \A r \in requests : r.from \in Client
    /\ \A r1, r2 \in requests : r1.from = r2.from => r1 = r2
    /\ replies \subseteq Client
    /\ \E S : published \in Seq(S)
    /\ cursor \in [Client -> Nat]
    /\ cpc \in [Client -> {"round", "ack", "actions", "done", "dead"}]
    /\ ServerInRound
    /\ \A c \in Client : ClientInRound(c)
    /\ TimeoutsDeserved

LEMMA BarrierInit ==
    ASSUME Init
    PROVE  BarrierInvariant
  <1>1. SeatInvariant
    BY SeatInit
  <1>2. Pending = {} /\ published = <<>> /\ \A c \in Client : cursor[c] = 0
    BY DEF Init, SocketsInit, Pending
  <1>3. Len(published) = 0 /\ \E S : published \in Seq(S)
    BY <1>2, EmptySeq
  <1>4. \A c \in Client : ClientInRound(c)
    BY <1>2, <1>3 DEF Init, SocketsInit, ClientInRound
  <1>5. ServerInRound
    BY SpectatorsAssumption DEF Init, ServerInRound
  <1> QED
    BY <1>1, <1>2, <1>3, <1>4, <1>5
       DEF Init, SocketsInit, BarrierInvariant, TimeoutsDeserved

\* What the server does without receiving: a round starts with nobody heard.
LEMMA BarrierStart ==
    ASSUME BarrierInvariant, StartRound
    PROVE  BarrierInvariant'
  <1> USE DEF BarrierInvariant
  <1>1. SeatInvariant'
    BY SeatNext DEF Next, ServerStep
  <1>2. UNCHANGED <<requests, replies, published, cursor, playersIds, nbTimeout, cpc>>
    BY DEF StartRound, socketVars
  <1>3. \A c \in Client : Gone(c)' <=> Gone(c)
    BY <1>2 DEF Gone
  <1>4. \A c \in Client : ClientInRound(c)'
    BY <1>2, <1>3 DEF ClientInRound, Pending
  <1>5. Collected({})'
    <2>1. Cardinality({}) = 0 /\ {} \cap Spectator = {}
      BY FS_EmptySet
    <2> QED
      BY <2>1, SpectatorsAssumption
         DEF StartRound, ResetSpectatorsCount, Collected, Heard
  <1>6. ServerInRound'
    BY <1>5, SpectatorsAssumption DEF StartRound, ResetSpectatorsCount, ServerInRound
  <1>7. TimeoutsDeserved'
    BY <1>2, <1>3, ClientFacts DEF TimeoutsDeserved, MissesDeadline
  <1> QED
    BY <1>1, <1>2, <1>4, <1>6, <1>7

\* The server receives: who is pending, and what is left of the requests.
LEMMA Received ==
    ASSUME BarrierInvariant, NEW request \in requests,
           Collect(request)
    PROVE  LET c == request.from IN
           /\ c \in Client /\ c \in playersIds /\ c \in Pending
           /\ Pending' = Pending \ {c}
           /\ cpc[c] = "dead" \/ (cpc[c] = "ack" /\ cursor[c] = Len(published))
           /\ replies' = replies \union {c}
           /\ requests' \subseteq requests
  <1> USE DEF BarrierInvariant
  <1> DEFINE c == request.from
  <1>1. c \in Client /\ c \in Pending
    BY DEF Pending
  <1>2. /\ requests' = requests \ {request}
        /\ replies' = replies \union {c}
    BY DEF Collect, RecvAndAck
  <1>3. Pending' = Pending \ {c}
    BY <1>2 DEF Pending
  <1> QED
    BY <1>1, <1>2, <1>3 DEF ClientInRound

\* A client is in its round still when another one, or itself, is received.
LEMMA StillInRound ==
    ASSUME BarrierInvariant, NEW request \in requests, Collect(request),
           UNCHANGED <<published, cursor, cpc, playersIds>>
    PROVE  \A c \in Client : ClientInRound(c)'
  <1> USE DEF BarrierInvariant
  <1> TAKE c \in Client
  <1>1. ClientInRound(c) /\ (Gone(c)' <=> Gone(c))
    BY DEF Gone
  <1>2. c # request.from => (c \in replies' <=> c \in replies)
    BY Received
  <1>3. c \in Pending' => c \in Pending /\ c # request.from
    BY Received
  <1>4. c = request.from => cpc[c] \in {"dead", "ack"}
    BY Received
  <1> QED
    BY <1>1, <1>2, <1>3, <1>4 DEF ClientInRound

LEMMA CountsDown ==
    ASSUME NEW n \in 1 .. NbSpectators
    PROVE  Decrement(n) = n - 1
  <1>1. SizeT \in Nat \ {0} /\ n - 1 \in 0 .. SizeT - 1
    BY PlayersAssumption, SpectatorsAssumption, WidthAssumption
  <1> QED
    BY <1>1 DEF Decrement

\* The client received is heard, and those heard before still are.
LEMMA OneMoreHeard ==
    ASSUME BarrierInvariant, NEW request \in requests, Collect(request),
           NEW H \in SUBSET Client, Heard(H),
           UNCHANGED <<published, cursor, cpc, playersIds>>,
           IF request.from \in Spectator
           THEN spectatorsCount' = Decrement(spectatorsCount)
           ELSE UNCHANGED spectatorsCount
    PROVE  /\ request.from \in Client \ H
           /\ Heard(H \union {request.from})'
           /\ spectatorsCount' \in 0 .. NbSpectators
  <1> DEFINE c == request.from
  <1>1. c \in Client \ H
    BY Received DEF Heard, Answered
  <1>2. H \union {c} \subseteq playersIds'
    BY Received DEF Heard
  <1>3. \A d \in H \union {c} : Answered(d)'
    <2> SUFFICES ASSUME NEW d \in H \union {c} PROVE Answered(d)'
      OBVIOUS
    <2>1. Gone(d)' <=> Gone(d)
      BY DEF Gone
    <2>2. d \notin Pending'
      BY Received DEF Heard, Answered
    <2>3. CASE d = c
      BY <2>1, <2>2, <2>3, Received DEF Answered, Gone
    <2>4. CASE d \in H
      BY <2>1, <2>2, <2>4 DEF Answered, Heard
    <2> QED
      BY <2>3, <2>4
  <1>4. /\ spectatorsCount' = NbSpectators - Cardinality((H \union {c}) \cap Spectator)
        /\ spectatorsCount' \in 0 .. NbSpectators
    <2>1. /\ Cardinality(H \cap Spectator) \in 0 .. NbSpectators
          /\ spectatorsCount = NbSpectators - Cardinality(H \cap Spectator)
          /\ NbSpectators \in Nat
      BY <1>1, OneMore, SpectatorsAssumption DEF Heard
    <2>2. CASE c \in Spectator
      <3>1. /\ Cardinality((H \union {c}) \cap Spectator) =
                   Cardinality(H \cap Spectator) + 1
            /\ Cardinality(H \cap Spectator) + 1 <= NbSpectators
        BY <1>1, <2>2, OneMore
      <3>2. spectatorsCount \in 1 .. NbSpectators
        BY <2>1, <3>1
      <3>3. spectatorsCount' = spectatorsCount - 1
        BY <2>2, <3>2, CountsDown
      <3> QED
        BY <2>1, <3>1, <3>2, <3>3
    <2>3. CASE c \notin Spectator
      <3>1. spectatorsCount' = spectatorsCount
        BY <2>3
      <3>2. (H \union {c}) \cap Spectator = H \cap Spectator
        BY <1>1, <2>3, OneMore
      <3> HIDE DEF c
      <3>3. Cardinality((H \union {c}) \cap Spectator) = Cardinality(H \cap Spectator)
        BY <3>2
      <3> QED
        BY <2>1, <3>1, <3>3
    <2> QED
      BY <2>2, <2>3
  <1> QED
    BY <1>1, <1>2, <1>3, <1>4 DEF Heard

LEMMA BarrierReceive ==
    ASSUME BarrierInvariant, ReceiveAnswer
    PROVE  BarrierInvariant'
  <1> USE DEF BarrierInvariant
  <1>1. SeatInvariant'
    BY SeatNext DEF Next, ServerStep
  <1>2. PICK request \in requests :
           /\ Collect(request)
           /\ IF request.from \in Spectator
              THEN spectatorsCount' = Decrement(spectatorsCount) /\ UNCHANGED timeouting
              ELSE Clear(request.from) /\ UNCHANGED spectatorsCount
    BY DEF ReceiveAnswer
  <1>3. UNCHANGED <<published, cursor, playersIds, nbTimeout, cpc>> /\ spc' = "collect"
    BY DEF ReceiveAnswer
  <1>4. PICK H \in SUBSET Client : Collected(H)
    BY DEF ReceiveAnswer, ServerInRound
  <1>5. /\ request.from \in Client \ H
        /\ Heard(H \union {request.from})'
        /\ spectatorsCount' \in 0 .. NbSpectators
    BY <1>2, <1>3, <1>4, OneMoreHeard DEF Collected
  <1>6. answers' = Cardinality(H \union {request.from})
    BY <1>4, <1>5, OneMore DEF ReceiveAnswer, Collected
  <1>7. (H \union {request.from}) \cap Player = Player \ timeouting'
    BY <1>2, <1>4, <1>5, ClientFacts DEF Collected, Clear, SeatInvariant
  <1>8. Collected(H \union {request.from})' /\ H \union {request.from} \in SUBSET Client
    BY <1>5, <1>6, <1>7 DEF Collected
  <1>9. ServerInRound'
    BY <1>3, <1>5, <1>8 DEF ServerInRound
  <1>10. requests' \subseteq requests /\ replies' \subseteq Client
    BY <1>2, Received
  <1>11. \A c \in Client : ClientInRound(c)'
    BY <1>2, <1>3, StillInRound
  <1>12. TimeoutsDeserved'
    BY <1>3, ClientFacts DEF TimeoutsDeserved, MissesDeadline, Gone
  <1> QED
    BY <1>1, <1>3, <1>9, <1>10, <1>11, <1>12

\* Nobody that has been eliminated is still there to be revived.
LEMMA BarrierRevived ==
    ASSUME BarrierInvariant, ReceiveRevived
    PROVE  FALSE
  BY Received DEF ReceiveRevived

LEMMA BarrierSpectator ==
    ASSUME BarrierInvariant, ReceiveSpectator
    PROVE  BarrierInvariant'
  <1> USE DEF BarrierInvariant
  <1>1. SeatInvariant'
    BY SeatNext DEF Next, ServerStep
  <1>2. PICK request \in requests : Collect(request)
    BY DEF ReceiveSpectator
  <1>3. /\ UNCHANGED <<published, cursor, playersIds, nbTimeout, cpc>>
        /\ spc = "spectators" /\ spc' = "spectators"
        /\ spectatorsCount' = Decrement(spectatorsCount)
    BY DEF ReceiveSpectator
  <1>4. PICK H \in SUBSET Client : Closed(H)
    BY <1>3 DEF ServerInRound
  <1>5. request.from \in Spectator
    BY <1>2, <1>4, Received, ClientFacts DEF Closed
  <1>6. /\ Heard(H \union {request.from})'
        /\ spectatorsCount' \in 0 .. NbSpectators
        /\ H \union {request.from} \in SUBSET Client
    BY <1>2, <1>3, <1>4, <1>5, OneMoreHeard, ZenonT(30) DEF Closed
  <1>7. Closed(H \union {request.from})'
    <2>1. Pending' \cap Player = {}
      BY <1>2, <1>4, Received DEF Closed
    <2> QED
      BY <1>3, <1>4, <1>6, <2>1 DEF Closed, Gone
  <1>8. ServerInRound'
    BY <1>3, <1>6, <1>7 DEF ServerInRound
  <1>9. requests' \subseteq requests /\ replies' \subseteq Client
    BY <1>2, Received
  <1>10. \A c \in Client : ClientInRound(c)'
    BY <1>2, <1>3, StillInRound
  <1>11. TimeoutsDeserved'
    BY <1>3, ClientFacts DEF TimeoutsDeserved, MissesDeadline, Gone
  <1> QED
    BY <1>1, <1>3, <1>8, <1>9, <1>10, <1>11

\* When a collection is over, everybody it lacks is gone.
LEMMA NobodyPending ==
    ASSUME Slow = {}, BarrierInvariant, CloseCollection,
           NEW H \in SUBSET Client, Collected(H)
    PROVE  Pending = {} /\ \A p \in timeouting : Gone(p)
  <1> USE DEF BarrierInvariant
  <1>1. Pending \subseteq playersIds
    BY DEF Pending, ClientInRound
  <1>2. \A p \in timeouting : p \notin playersIds => Gone(p)
    BY ClientFacts DEF SeatInvariant, ClientInRound
  <1>3. CASE AllAnswered
    <2>1. IsFiniteSet(playersIds) /\ IsFiniteSet(H)
      BY ClientFacts, FS_Subset DEF SeatInvariant
    <2>2. /\ H \subseteq playersIds
          /\ Cardinality(H) >= Cardinality(playersIds)
      BY <1>3 DEF AllAnswered, Collected, Heard, SeatInvariant
    <2>3. Cardinality(H) \in Nat /\ Cardinality(playersIds) \in Nat
      BY <2>1, FS_CardinalityType
    <2>4. Cardinality(H) <= Cardinality(playersIds)
      BY <2>1, <2>2, FS_Subset
    <2>5. H = playersIds
      BY <2>1, <2>2, <2>3, <2>4, FS_Subset
    <2>6. Pending = {}
      BY <1>1, <2>5 DEF Collected, Heard, Answered
    <2>7. \A p \in timeouting : p \notin playersIds
      BY <2>5 DEF Collected, SeatInvariant
    <2> QED
      BY <1>2, <2>6, <2>7
  <1>4. CASE PollTimesOut
    <2>1. Pending = {}
      BY <1>4 DEF PollTimesOut, Poll, Pending
    <2>2. \A p \in timeouting \cap playersIds : Gone(p)
      BY <1>4 DEF PollTimesOut, MissesDeadline
    <2> QED
      BY <1>2, <2>1, <2>2
  <1> QED
    BY <1>3, <1>4 DEF CloseCollection

LEMMA BarrierClose ==
    ASSUME Slow = {}, BarrierInvariant, CloseCollection
    PROVE  BarrierInvariant'
  <1> USE DEF BarrierInvariant
  <1>1. SeatInvariant'
    BY SeatNext DEF Next, ServerStep
  <1>2. PICK H \in SUBSET Client : Collected(H)
    BY DEF CloseCollection, ServerInRound
  <1>3. Pending = {} /\ \A p \in timeouting : Gone(p)
    BY <1>2, NobodyPending
  <1>4. UNCHANGED <<requests, replies, published, cursor, cpc, spectatorsCount>>
    BY DEF CloseCollection, socketVars
  <1>5. Pending' = Pending /\ \A c \in Client : Gone(c)' <=> Gone(c)
    BY <1>4 DEF Pending, Gone
  <1>6. playersIds' = playersIds \ Eliminated /\ Eliminated \subseteq timeouting
    BY DEF CloseCollection, Eliminated
  <1>7. \A c \in Client : ClientInRound(c)'
    BY <1>3, <1>4, <1>5, <1>6 DEF ClientInRound
  <1>8. Closed(H)'
    <2>1. H \subseteq playersIds'
      BY <1>2, <1>6 DEF Collected, Heard, SeatInvariant
    <2>2. Heard(H)'
      BY <1>2, <1>4, <1>5, <2>1 DEF Collected, Heard, Answered
    <2>3. \A p \in Player : Gone(p)' \/ p \in H
      BY <1>2, <1>3, <1>5, ClientFacts DEF Collected
    <2> QED
      BY <1>3, <1>5, <2>2, <2>3 DEF Closed
  <1>9. ServerInRound'
    BY <1>4, <1>8 DEF CloseCollection, ServerInRound
  <1>10. TimeoutsDeserved'
    <2> SUFFICES ASSUME NEW p \in Player, nbTimeout'[p] > 0 PROVE MissesDeadline(p)'
      BY DEF TimeoutsDeserved
    <2>1. CASE p \in timeouting
      BY <1>3, <1>5, <2>1, ClientFacts DEF MissesDeadline
    <2>2. CASE p \notin timeouting
      <3>1. nbTimeout'[p] = nbTimeout[p]
        BY <2>2 DEF CloseCollection
      <3> QED
        BY <1>5, <3>1, ClientFacts DEF TimeoutsDeserved, MissesDeadline
    <2> QED
      BY <2>1, <2>2
  <1> QED
    BY <1>1, <1>4, <1>7, <1>9, <1>10

\* The round is published once every client that is still there is heard.
LEMMA EverybodyHeard ==
    ASSUME BarrierInvariant, Publish
    PROVE  /\ Pending = {}
           /\ \A c \in Client :
                 Gone(c) \/ (cpc[c] \in {"ack", "actions"} /\ cursor[c] = Len(published))
  <1> USE DEF BarrierInvariant
  <1>1. PICK H \in SUBSET Client : Closed(H)
    BY DEF Publish, ServerInRound
  <1>2. Spectator \subseteq H
    <2>1. IsFiniteSet(Spectator) /\ Cardinality(Spectator) = NbSpectators
      BY ClientFacts
    <2>2. H \cap Spectator \subseteq Spectator
      OBVIOUS
    <2>3. IsFiniteSet(H \cap Spectator)
      BY <2>1, <2>2, FS_Subset
    <2>4. Cardinality(H \cap Spectator) \in Nat
      BY <2>3, FS_CardinalityType
    <2>5. NbSpectators - Cardinality(H \cap Spectator) = 0
      BY <1>1 DEF Publish, Closed, Heard
    <2>6. Cardinality(H \cap Spectator) = Cardinality(Spectator)
      BY <2>1, <2>4, <2>5, SpectatorsAssumption
    <2>7. H \cap Spectator = Spectator
      BY <2>1, <2>2, <2>6, FS_Subset
    <2> QED
      BY <2>7
  <1>3. \A c \in H : Answered(c)
    BY <1>1 DEF Closed, Heard
  <1>4. \A c \in Client : Gone(c) \/ c \in H
    BY <1>1, <1>2, ClientFacts DEF Closed
  <1>5. Pending = {}
    <2>1. Pending \cap Player = {} /\ Pending \cap Spectator = {}
      BY <1>1, <1>2, <1>3 DEF Closed, Answered
    <2>2. Pending \subseteq Player \union Spectator
      BY ClientFacts DEF Pending
    <2> QED
      BY <2>1, <2>2
  <1> QED
    BY <1>3, <1>4, <1>5 DEF Answered

LEMMA BarrierPublish ==
    ASSUME BarrierInvariant, Publish
    PROVE  BarrierInvariant'
  <1> USE DEF BarrierInvariant
  <1>1. SeatInvariant'
    BY SeatNext DEF Next, ServerStep
  <1>2. UNCHANGED <<requests, replies, cursor, playersIds, nbTimeout, cpc, spectatorsCount>>
    BY DEF Publish
  <1>3. /\ \E S : published' \in Seq(S)
        /\ Len(published) \in Nat /\ Len(published') = Len(published) + 1
    BY PushIsLonger DEF Publish, PushActions, Push
  <1>4. Pending' = {} /\ \A c \in Client : Gone(c)' <=> Gone(c)
    BY <1>2, EverybodyHeard DEF Pending, Gone
  <1>5. \A c \in Client : ClientInRound(c)'
    <2> TAKE c \in Client
    <2>1. CASE Gone(c)
      BY <1>2, <1>4, <2>1 DEF ClientInRound, Gone
    <2>2. CASE cpc[c] \in {"ack", "actions"} /\ cursor[c] = Len(published)
      <3>1. cursor'[c] = Len(published') - 1
        BY <1>2, <1>3, <2>2
      <3> QED
        BY <1>2, <1>4, <2>2, <3>1 DEF ClientInRound
    <2> QED
      BY <2>1, <2>2, EverybodyHeard
  <1>6. ServerInRound'
    BY <1>2 DEF Publish, ServerInRound
  <1>7. TimeoutsDeserved'
    BY <1>2, <1>4, ClientFacts DEF TimeoutsDeserved, MissesDeadline
  <1> QED
    BY <1>1, <1>2, <1>3, <1>5, <1>6, <1>7

-----------------------------------------------------------------------------
(* The steps of the clients leave the server where it is: those it has      *)
(* heard stay so, and only a client it has not heard sends a request.       *)

ClientOnly ==
    UNCHANGED <<published, spc, answers, playersIds, timeouting, spectatorsCount,
                nbTimeout>>

LEMMA ServerStays ==
    ASSUME BarrierInvariant, ClientOnly,
           \A c \in Client : Gone(c) => Gone(c)',
           \A c \in Client : Answered(c) => Answered(c)',
           Pending' \ Pending \subseteq {c \in Client : cpc[c] = "round"}
    PROVE  ServerInRound' /\ TimeoutsDeserved'
  <1> USE DEF BarrierInvariant, ClientOnly
  <1>1. ASSUME NEW H \in SUBSET Client, Heard(H) PROVE Heard(H)'
    BY <1>1 DEF Heard
  <1>2. ASSUME NEW H \in SUBSET Client, Collected(H) PROVE Collected(H)'
    BY <1>1, <1>2 DEF Collected
  <1>3. ASSUME NEW H \in SUBSET Client, Closed(H) PROVE Closed(H)'
    <2>1. \A p \in Player : cpc[p] # "round"
      BY <1>3 DEF Closed, Heard, Answered, Gone
    <2>2. Pending' \cap Player = {}
      BY <1>3, <2>1 DEF Closed
    <2>3. \A p \in Player : Gone(p)' \/ p \in H
      BY <1>3, ClientFacts DEF Closed
    <2> QED
      BY <1>1, <1>3, <2>2, <2>3 DEF Closed
  <1>4. ServerInRound'
    <2>1. (spc = "collect" => \E H \in SUBSET Client : Collected(H))'
      BY <1>2 DEF ServerInRound
    <2>2. (spc = "spectators" => \E H \in SUBSET Client : Closed(H))'
      BY <1>3 DEF ServerInRound
    <2> QED
      BY <2>1, <2>2 DEF ServerInRound
  <1>5. TimeoutsDeserved'
    BY ClientFacts DEF TimeoutsDeserved, MissesDeadline
  <1> QED
    BY <1>4, <1>5

LEMMA BarrierPlay ==
    ASSUME BarrierInvariant, NEW c \in Client, PlayRound(c)
    PROVE  BarrierInvariant'
  <1> USE DEF BarrierInvariant
  <1>1. SeatInvariant'
    BY SeatNext DEF Next, ClientStep
  <1>2. PICK actions : requests' = requests \union {[from |-> c, actions |-> actions]}
    BY DEF PlayRound, SendActions
  <1>3. /\ cpc[c] = "round" /\ cpc' = [cpc EXCEPT ![c] = "ack"]
        /\ ClientOnly /\ UNCHANGED <<replies, cursor>>
    BY DEF PlayRound, ClientOnly, serverVars
  <1>4. Pending' = Pending \union {c} /\ c \notin Pending
    <2>1. c \notin Pending
      BY <1>3 DEF ClientInRound
    <2>2. \A r : r \in requests' <=> r \in requests \/ r = [from |-> c, actions |-> actions]
      BY <1>2
    <2> DEFINE mine == [from |-> c, actions |-> actions]
    <2>3. mine \in requests' /\ mine.from = c
      BY <2>2
    <2> HIDE DEF mine
    <2>4. \A r : r \in requests' <=> r \in requests \/ r = mine
      BY <2>2 DEF mine
    <2>5. Pending' = Pending \union {c}
      BY <2>3, <2>4 DEF Pending
    <2> QED
      BY <2>1, <2>5
  <1>5. \A r1, r2 \in requests' : r1.from = r2.from => r1 = r2
    BY <1>2, <1>4 DEF Pending
  <1>6. \A r \in requests' : r.from \in Client
    BY <1>2
  <1>7. \A d \in Client : Gone(d)' <=> Gone(d)
    BY <1>3 DEF Gone
  <1>8. \A d \in Client : ClientInRound(d)'
    BY <1>3, <1>4, <1>7 DEF ClientInRound, ClientOnly, Gone
  <1>9. \A d \in Client : Answered(d) => Answered(d)'
    BY <1>3, <1>4, <1>7 DEF Answered, ClientOnly, Gone
  <1>10. ServerInRound' /\ TimeoutsDeserved'
    BY <1>3, <1>4, <1>7, <1>9, ServerStays
  <1> QED
    BY <1>1, <1>3, <1>5, <1>6, <1>8, <1>10 DEF ClientOnly

LEMMA BarrierAck ==
    ASSUME BarrierInvariant, NEW c \in Client, Acknowledged(c)
    PROVE  BarrierInvariant'
  <1> USE DEF BarrierInvariant
  <1>1. SeatInvariant'
    BY SeatNext DEF Next, ClientStep
  <1>2. /\ cpc[c] = "ack" /\ cpc' = [cpc EXCEPT ![c] = "actions"]
        /\ c \in replies /\ replies' = replies \ {c}
        /\ ClientOnly /\ UNCHANGED <<requests, cursor>>
    BY DEF Acknowledged, WaitForAck, ClientOnly, serverVars
  <1>3. Pending' = Pending /\ c \notin Pending
    BY <1>2 DEF Pending, ClientInRound
  <1>4. \A d \in Client : Gone(d)' <=> Gone(d)
    BY <1>2 DEF Gone
  <1>5. \A d \in Client : ClientInRound(d)'
    BY <1>2, <1>3, <1>4 DEF ClientInRound, ClientOnly
  <1>6. \A d \in Client : Answered(d) => Answered(d)'
    BY <1>2, <1>3, <1>4 DEF Answered, ClientOnly
  <1>7. ServerInRound' /\ TimeoutsDeserved'
    BY <1>2, <1>3, <1>4, <1>6, ServerStays
  <1> QED
    BY <1>1, <1>2, <1>5, <1>7 DEF ClientOnly

LEMMA BarrierPull ==
    ASSUME BarrierInvariant, NEW c \in Client, PullRound(c)
    PROVE  BarrierInvariant'
  <1> USE DEF BarrierInvariant
  <1>1. SeatInvariant'
    BY SeatNext DEF Next, ClientStep
  <1>2. /\ cpc[c] = "actions" /\ cpc'[c] \in {"done", "round"}
        /\ cpc' \in [Client -> {"round", "ack", "actions", "done", "dead"}]
        /\ \A d \in Client \ {c} : cpc'[d] = cpc[d] /\ cursor'[d] = cursor[d]
        /\ ClientOnly /\ UNCHANGED <<requests, replies>>
    BY DEF PullRound, Pull, ClientOnly, serverVars
  <1>3. /\ cursor[c] < Len(published) /\ cursor'[c] = cursor[c] + 1
        /\ cursor' \in [Client -> Nat]
    BY DEF PullRound, Pull, CanPull
  <1>4. cursor[c] = Len(published) - 1 /\ cursor'[c] = Len(published)
    <2>1. Len(published) \in Nat
      BY PushIsLonger
    <2> QED
      BY <1>2, <1>3, <2>1 DEF ClientInRound
  <1>5. Pending' = Pending /\ c \notin Pending /\ c \notin replies
    BY <1>2 DEF Pending, ClientInRound
  <1>6. \A d \in Client : Gone(d) => Gone(d)'
    BY <1>2 DEF Gone
  <1>7. \A d \in Client : ClientInRound(d)'
    <2> TAKE d \in Client
    <2>1. CASE d = c
      BY <1>2, <1>4, <1>5, <2>1 DEF ClientInRound, ClientOnly, Gone
    <2>2. CASE d # c
      BY <1>2, <1>5, <1>6, <2>2 DEF ClientInRound, ClientOnly
    <2> QED
      BY <2>1, <2>2
  <1>8. \A d \in Client : Answered(d) => Answered(d)'
    <2> SUFFICES ASSUME NEW d \in Client, Answered(d) PROVE Answered(d)'
      OBVIOUS
    <2>1. d # c
      BY <1>2, <1>3 DEF Answered, Gone
    <2> QED
      BY <1>2, <1>5, <1>6, <2>1 DEF Answered, ClientOnly
  <1>9. ServerInRound' /\ TimeoutsDeserved'
    BY <1>2, <1>5, <1>6, <1>8, ServerStays
  <1> QED
    BY <1>1, <1>2, <1>3, <1>7, <1>9 DEF ClientOnly

LEMMA BarrierDie ==
    ASSUME BarrierInvariant, NEW c \in Client, Die(c)
    PROVE  BarrierInvariant'
  <1> USE DEF BarrierInvariant
  <1>1. SeatInvariant'
    BY SeatNext DEF Next
  <1>2. /\ ~Gone(c) /\ cpc' = [cpc EXCEPT ![c] = "dead"]
        /\ requests' \subseteq requests
        /\ ClientOnly /\ UNCHANGED <<replies, cursor>>
    BY DEF Die, ClientOnly, serverVars
  <1>3. Pending' \subseteq Pending
    BY <1>2 DEF Pending
  <1>4. \A d \in Client : Gone(d) => Gone(d)'
    BY <1>2 DEF Gone
  <1>5. \A d \in Client : ClientInRound(d)'
    BY <1>2, <1>3, <1>4 DEF ClientInRound, ClientOnly
  <1>6. \A d \in Client : Answered(d) => Answered(d)'
    BY <1>2, <1>3, <1>4 DEF Answered, ClientOnly, Gone
  <1>7. ServerInRound' /\ TimeoutsDeserved'
    BY <1>2, <1>3, <1>4, <1>6, ServerStays
  <1> QED
    BY <1>1, <1>2, <1>5, <1>7 DEF ClientOnly

LEMMA BarrierNext ==
    ASSUME Slow = {}, BarrierInvariant, [Next]_vars
    PROVE  BarrierInvariant'
  <1>1. CASE ServerStep
    BY <1>1, BarrierStart, BarrierReceive, BarrierRevived, BarrierClose,
       BarrierSpectator, BarrierPublish DEF ServerStep
  <1>2. CASE \E c \in Client : ClientStep(c) \/ Die(c)
    BY <1>2, BarrierPlay, BarrierAck, BarrierPull, BarrierDie DEF ClientStep
  <1>3. CASE UNCHANGED vars
    BY <1>3 DEF vars, serverVars, socketVars, BarrierInvariant, SeatInvariant,
       ServerInRound, Collected, Closed, Heard, Answered, ClientInRound, Pending,
       Gone, TimeoutsDeserved, MissesDeadline
  <1> QED
    BY <1>1, <1>2, <1>3 DEF Next, Terminated

-----------------------------------------------------------------------------
(* The theorems. *)

LEMMA BarrierHolds ==
    ASSUME Slow = {}
    PROVE  Spec => []BarrierInvariant
  <1>1. Init => BarrierInvariant
    BY BarrierInit
  <1>2. BarrierInvariant /\ [Next]_vars => BarrierInvariant'
    BY BarrierNext
  <1> QED
    BY <1>1, <1>2, PTL DEF Spec

\* A player that always answers in time is never counted late: when the server
\* stops waiting, those it has not heard are dead, or were eliminated when
\* they were.
THEOREM NeverCountedLate ==
    ASSUME Slow = {}
    PROVE  Spec => []TimeoutsDeserved
  <1>1. BarrierInvariant => TimeoutsDeserved
    BY DEF BarrierInvariant
  <1> QED
    BY <1>1, BarrierHolds, PTL

\* The countdown of the spectators never wraps, although two loops decrement
\* it and the second one does not look at whose request it has received.
THEOREM CountdownNeverWraps ==
    ASSUME Slow = {}
    PROVE  Spec => []SpectatorsCounted
  <1>1. BarrierInvariant => SpectatorsCounted
    BY SpectatorsAssumption DEF BarrierInvariant, ServerInRound, SpectatorsCounted
  <1> QED
    BY <1>1, BarrierHolds, PTL

\* The barrier: a round is published, its actions applied by the server, only
\* when no request is left over for the next one and every client that is
\* still there has sent its actions and applied every earlier round.
THEOREM RoundBarrier ==
    ASSUME Slow = {}
    PROVE  Spec => [][Publish => /\ requests = {}
                                 /\ \A c \in Client :
                                       \/ Gone(c)
                                       \/ /\ cpc[c] \in {"ack", "actions"}
                                          /\ cursor[c] = Len(published)]_vars
  <1> DEFINE Heeded == /\ requests = {}
                       /\ \A c \in Client :
                             \/ Gone(c)
                             \/ /\ cpc[c] \in {"ack", "actions"}
                                /\ cursor[c] = Len(published)
  <1>1. BarrierInvariant /\ Publish => Heeded
    BY EverybodyHeard DEF Pending
  <1> HIDE DEF Heeded
  <1>2. BarrierInvariant /\ [Next]_vars => [Publish => Heeded]_vars
    BY <1>1
  <1>3. Spec => [][Publish => Heeded]_vars
    BY <1>2, BarrierHolds, PTL DEF Spec
  <1> QED
    BY <1>3 DEF Heeded

-----------------------------------------------------------------------------
(* The actions of the others: what Foreign keeps of a list. *)

\* f gives what is kept of the first actions of a list, for len of them or less.
IsKept(f, c, s, len) ==
    f = [n \in 0 .. len |-> IF n = 0 THEN <<>>
                           ELSE IF s[n].player # c THEN Append(f[n - 1], s[n])
                           ELSE f[n - 1]]

LEMMA KeptExists ==
    ASSUME NEW c, NEW s, NEW len \in Nat
    PROVE  \E f : IsKept(f, c, s, len)
  <1> DEFINE Fits(f, m) == IsKept(f, c, s, m)
             T == {m \in Nat : \E f : Fits(f, m)}
  <1>1. 0 \in T
    <2>1. Fits([n \in 0 .. 0 |-> <<>>], 0)
      BY DEF IsKept
    <2> HIDE DEF Fits
    <2> QED
      BY <2>1
  <1>2. ASSUME NEW m \in Nat, m \in T PROVE m + 1 \in T
    <2>1. PICK f : Fits(f, m)
      BY <1>2
    <2> DEFINE last == IF s[m + 1].player # c THEN Append(f[m], s[m + 1]) ELSE f[m]
               g == [n \in 0 .. m + 1 |-> IF n <= m THEN f[n] ELSE last]
    <2>2. ASSUME NEW n \in 0 .. m + 1
          PROVE  g[n] = IF n = 0 THEN <<>>
                        ELSE IF s[n].player # c THEN Append(g[n - 1], s[n])
                        ELSE g[n - 1]
      <3>1. CASE n <= m
        <4>1. n \in 0 .. m
          BY <3>1
        <4>2. f[n] = IF n = 0 THEN <<>>
                     ELSE IF s[n].player # c THEN Append(f[n - 1], s[n])
                     ELSE f[n - 1]
          BY <2>1, <4>1 DEF IsKept
        <4>3. g[n] = f[n] /\ (n # 0 => g[n - 1] = f[n - 1])
          BY <3>1
        <4> QED
          BY <4>2, <4>3
      <3>2. CASE ~(n <= m)
        <4>1. n = m + 1 /\ n # 0 /\ n - 1 = m
          BY <3>2
        <4>2. g[n] = last /\ g[n - 1] = f[m]
          BY <4>1
        <4> QED
          BY <4>1, <4>2
      <3> QED
        BY <3>1, <3>2
    <2>3. g = [n \in 0 .. m + 1 |-> g[n]]
      OBVIOUS
    <2>4. Fits(g, m + 1)
      <3> HIDE DEF g
      <3> QED
        BY <2>2, <2>3 DEF IsKept
    <2> HIDE DEF Fits
    <2> QED
      BY <2>4
  <1>3. Nat \subseteq T
    <2> HIDE DEF T
    <2> QED
      BY <1>1, <1>2, SetInduction
  <1> QED
    BY <1>3

\* What is kept of a list, from one action to the next.
LEMMA KeptStep ==
    ASSUME NEW S, NEW c, NEW s \in Seq(S)
    PROVE  \E f : /\ f[0] = <<>>
                  /\ \A n \in 1 .. Len(s) :
                        f[n] = IF s[n].player # c THEN Append(f[n - 1], s[n]) ELSE f[n - 1]
                  /\ Foreign(c, s) = f[Len(s)]
  <1> DEFINE kept == CHOOSE f : IsKept(f, c, s, Len(s))
  <1>1. Len(s) \in Nat
    BY LenProperties
  <1>2. \E f : IsKept(f, c, s, Len(s))
    BY <1>1, KeptExists
  <1>3. IsKept(kept, c, s, Len(s))
    BY <1>2
  <1>4. Foreign(c, s) = kept[Len(s)]
    BY DEF Foreign, IsKept
  <1> HIDE DEF kept
  <1>5. kept[0] = <<>>
    BY <1>1, <1>3 DEF IsKept
  <1>6. ASSUME NEW n \in 1 .. Len(s)
        PROVE  kept[n] = IF s[n].player # c THEN Append(kept[n - 1], s[n]) ELSE kept[n - 1]
    <2>1. n \in 0 .. Len(s) /\ n # 0
      BY <1>1
    <2> QED
      BY <1>3, <2>1 DEF IsKept
  <1> QED
    BY <1>4, <1>5, <1>6

LEMMA ForeignNothing ==
    ASSUME NEW c
    PROVE  Foreign(c, <<>>) = <<>>
  <1>0. PICK S : TRUE
    OBVIOUS
  <1>1. PICK s \in Seq(S) : s = <<>> /\ Len(s) = 0
    BY EmptySeq
  <1>2. PICK f : /\ f[0] = <<>>
                 /\ \A n \in 1 .. Len(s) :
                       f[n] = IF s[n].player # c THEN Append(f[n - 1], s[n]) ELSE f[n - 1]
                 /\ Foreign(c, s) = f[Len(s)]
    BY KeptStep
  <1> QED
    BY <1>1, <1>2

LEMMA ForeignAppend ==
    ASSUME NEW S, NEW c, NEW s \in Seq(S), NEW a \in S
    PROVE  /\ Foreign(c, <<>>) = <<>>
           /\ Foreign(c, Append(s, a)) = IF a.player # c THEN Append(Foreign(c, s), a)
                                                         ELSE Foreign(c, s)
  <1>1. Foreign(c, <<>>) = <<>>
    BY ForeignNothing
  <1> DEFINE t == Append(s, a)
  <1>2. /\ t \in Seq(S) /\ Len(t) = Len(s) + 1 /\ Len(s) \in Nat
        /\ \A n \in 1 .. Len(s) : t[n] = s[n]
        /\ t[Len(s) + 1] = a
    BY AppendProperties, LenProperties
  <1> HIDE DEF t
  <1>3. PICK f : /\ f[0] = <<>>
                 /\ \A n \in 1 .. Len(s) :
                       f[n] = IF s[n].player # c THEN Append(f[n - 1], s[n]) ELSE f[n - 1]
                 /\ Foreign(c, s) = f[Len(s)]
    BY KeptStep
  <1>4. PICK g : /\ g[0] = <<>>
                 /\ \A n \in 1 .. Len(t) :
                       g[n] = IF t[n].player # c THEN Append(g[n - 1], t[n]) ELSE g[n - 1]
                 /\ Foreign(c, t) = g[Len(t)]
    BY <1>2, KeptStep, SMTT(30)
  <1> DEFINE T == {n \in Nat : n <= Len(s) => f[n] = g[n]}
  <1>5. 0 \in T
    BY <1>3, <1>4
  <1>6. ASSUME NEW n \in Nat, n \in T PROVE n + 1 \in T
    <2>1. PICK m \in Nat : m = n + 1
      OBVIOUS
    <2>2. SUFFICES ASSUME m <= Len(s) PROVE f[m] = g[m]
      BY <2>1
    <2>3. m - 1 = n /\ m \in 1 .. Len(s) /\ m \in 1 .. Len(t) /\ f[n] = g[n]
      BY <1>2, <1>6, <2>1, <2>2
    <2>4. f[m] = IF s[m].player # c THEN Append(f[m - 1], s[m]) ELSE f[m - 1]
      BY <1>3, <2>3
    <2>5. g[m] = IF t[m].player # c THEN Append(g[m - 1], t[m]) ELSE g[m - 1]
      BY <1>4, <2>3
    <2>6. t[m] = s[m]
      BY <1>2, <2>3
    <2> QED
      BY <2>3, <2>4, <2>5, <2>6
  <1>7. Nat \subseteq T
    <2> HIDE DEF T
    <2> QED
      BY <1>5, <1>6, SetInduction
  <1>8. f[Len(s)] = g[Len(s)]
    BY <1>2, <1>7
  <1>9. g[Len(t)] = IF a.player # c THEN Append(g[Len(s)], a) ELSE g[Len(s)]
    <2>1. Len(t) \in 1 .. Len(t) /\ Len(t) - 1 = Len(s) /\ t[Len(t)] = a
      BY <1>2
    <2> QED
      BY <1>4, <2>1
  <1> QED
    BY <1>1, <1>3, <1>4, <1>8, <1>9 DEF t

LEMMA ToSetAppend ==
    ASSUME NEW S, NEW s \in Seq(S), NEW a \in S
    PROVE  ToSet(Append(s, a)) = ToSet(s) \union {a} /\ ToSet(<<>>) = {}
  <1>1. /\ DOMAIN Append(s, a) = (DOMAIN s) \union {Len(s) + 1}
        /\ Append(s, a)[Len(s) + 1] = a
        /\ \A n \in DOMAIN s : Append(s, a)[n] = s[n]
    BY AppendProperties, LenProperties
  <1> QED
    BY <1>1 DEF ToSet

\* The actions that are kept are those of the others.
LEMMA ForeignActions ==
    ASSUME NEW S, NEW c, NEW s \in Seq(S)
    PROVE  /\ Foreign(c, s) \in Seq(S)
           /\ ToSet(Foreign(c, s)) = {a \in ToSet(s) : a.player # c}
  <1> DEFINE Q == {t \in Seq(S) : /\ Foreign(c, t) \in Seq(S)
                                  /\ ToSet(Foreign(c, t)) = {a \in ToSet(t) : a.player # c}}
  <1>1. CASE S = {}
    <2>1. s = <<>> /\ Foreign(c, s) = <<>>
      BY <1>1, EmptySeq, ForeignNothing
    <2>2. ToSet(<<>>) = {}
      BY DEF ToSet
    <2> QED
      BY <2>1, <2>2
  <1>2. CASE S # {}
    <2>1. <<>> \in Q
      <3>1. <<>> \in Seq(S) /\ Foreign(c, <<>>) = <<>> /\ ToSet(<<>>) = {}
        BY <1>2, EmptySeq, ForeignNothing, ToSetAppend
      <3> QED
        BY <3>1
    <2>2. ASSUME NEW t \in Seq(S), NEW a \in S, t \in Q PROVE Append(t, a) \in Q
      <3>1. Foreign(c, t) \in Seq(S) /\ ToSet(Foreign(c, t)) = {b \in ToSet(t) : b.player # c}
        BY <2>2
      <3>2. Append(t, a) \in Seq(S) /\ ToSet(Append(t, a)) = ToSet(t) \union {a}
        BY AppendProperties, ToSetAppend
      <3>3. CASE a.player # c
        <4>1. Foreign(c, Append(t, a)) = Append(Foreign(c, t), a)
          BY <3>3, ForeignAppend
        <4>2. /\ Append(Foreign(c, t), a) \in Seq(S)
              /\ ToSet(Append(Foreign(c, t), a)) = ToSet(Foreign(c, t)) \union {a}
          BY <3>1, AppendProperties, ToSetAppend
        <4> QED
          BY <3>1, <3>2, <3>3, <4>1, <4>2
      <3>4. CASE a.player = c
        <4>1. Foreign(c, Append(t, a)) = Foreign(c, t)
          BY <3>4, ForeignAppend
        <4> QED
          BY <3>1, <3>2, <3>4, <4>1
      <3> QED
        BY <3>3, <3>4
    <2>3. Seq(S) \subseteq Q
      <3> HIDE DEF Q
      <3> QED
        BY <2>1, <2>2, ListInduction
    <2> QED
      BY <2>3
  <1> QED
    BY <1>1, <1>2

\* What is kept of two lists is kept in the same order.
LEMMA ForeignConcat ==
    ASSUME NEW S, NEW c, NEW s \in Seq(S), NEW t \in Seq(S)
    PROVE  Foreign(c, s \o t) = Foreign(c, s) \o Foreign(c, t)
  <1> DEFINE Q == {u \in Seq(S) : Foreign(c, s \o u) = Foreign(c, s) \o Foreign(c, u)}
  <1>1. <<>> \in Q
    <2>1. s \o <<>> = s /\ <<>> \in Seq(S)
      BY EmptySeq, ConcatEmptySeq
    <2>2. Foreign(c, s) \o <<>> = Foreign(c, s)
      BY ForeignActions, ConcatEmptySeq
    <2> QED
      BY <2>1, <2>2, ForeignNothing
  <1>2. ASSUME NEW u \in Seq(S), NEW a \in S, u \in Q PROVE Append(u, a) \in Q
    <2>1. Append(u, a) \in Seq(S) /\ s \o u \in Seq(S)
      BY AppendProperties, ConcatProperties
    <2>2. s \o Append(u, a) = Append(s \o u, a)
      BY ConcatAppend
    <2>3. Foreign(c, s \o u) = Foreign(c, s) \o Foreign(c, u)
      BY <1>2
    <2>4. Foreign(c, s) \in Seq(S) /\ Foreign(c, u) \in Seq(S)
      BY ForeignActions
    <2>5. CASE a.player # c
      <3>1. Foreign(c, Append(s \o u, a)) = Append(Foreign(c, s \o u), a)
        <4>1. PICK v \in Seq(S) : v = s \o u
          BY <2>1
        <4>2. Foreign(c, Append(v, a)) = Append(Foreign(c, v), a)
          BY <2>5, ForeignAppend
        <4> QED
          BY <4>1, <4>2
      <3>2. Foreign(c, Append(u, a)) = Append(Foreign(c, u), a)
        BY <2>5, ForeignAppend
      <3>3. Foreign(c, s) \o Append(Foreign(c, u), a) = Append(Foreign(c, s) \o Foreign(c, u), a)
        BY <2>4, ConcatAppend
      <3> QED
        BY <2>1, <2>2, <2>3, <3>1, <3>2, <3>3
    <2>6. CASE a.player = c
      <3>1. Foreign(c, Append(s \o u, a)) = Foreign(c, s \o u)
        <4>1. PICK v \in Seq(S) : v = s \o u
          BY <2>1
        <4>2. Foreign(c, Append(v, a)) = Foreign(c, v)
          BY <2>6, ForeignAppend
        <4> QED
          BY <4>1, <4>2
      <3>2. Foreign(c, Append(u, a)) = Foreign(c, u)
        BY <2>6, ForeignAppend
      <3> QED
        BY <2>1, <2>2, <2>3, <3>1, <3>2
    <2> QED
      BY <2>5, <2>6
  <1>3. Seq(S) \subseteq Q
    <2> HIDE DEF Q
    <2> QED
      BY <1>1, <1>2, ListInduction
  <1> QED
    BY <1>3

\* Nothing is kept of a client's own actions, and all of those of the others.
LEMMA ForeignOwn ==
    ASSUME NEW S, NEW c, NEW s \in Seq(S)
    PROVE  /\ (\A a \in ToSet(s) : a.player = c) => Foreign(c, s) = <<>>
           /\ (\A a \in ToSet(s) : a.player # c) => Foreign(c, s) = s
  <1> DEFINE Q == {t \in Seq(S) :
                     /\ (\A a \in ToSet(t) : a.player = c) => Foreign(c, t) = <<>>
                     /\ (\A a \in ToSet(t) : a.player # c) => Foreign(c, t) = t}
  <1>1. <<>> \in Q
    BY EmptySeq, ForeignNothing
  <1>2. ASSUME NEW t \in Seq(S), NEW a \in S, t \in Q PROVE Append(t, a) \in Q
    <2>1. Append(t, a) \in Seq(S) /\ ToSet(Append(t, a)) = ToSet(t) \union {a}
      BY AppendProperties, ToSetAppend
    <2>2. Foreign(c, Append(t, a)) = IF a.player # c THEN Append(Foreign(c, t), a)
                                                     ELSE Foreign(c, t)
      BY ForeignAppend
    <2>3. /\ (\A b \in ToSet(t) : b.player = c) => Foreign(c, t) = <<>>
          /\ (\A b \in ToSet(t) : b.player # c) => Foreign(c, t) = t
      BY <1>2
    <2> QED
      BY <2>1, <2>2, <2>3
  <1>3. Seq(S) \subseteq Q
    <2> HIDE DEF Q
    <2> QED
      BY <1>1, <1>2, ListInduction
  <1> QED
    BY <1>3

\* An action that is in a list once is kept once.
Distinct(s) == \A i, j \in DOMAIN s : s[i] = s[j] => i = j

LEMMA DistinctAppend ==
    ASSUME NEW S, NEW s \in Seq(S), NEW a \in S
    PROVE  Distinct(Append(s, a)) <=> Distinct(s) /\ a \notin ToSet(s)
  <1>1. /\ DOMAIN Append(s, a) = (DOMAIN s) \union {Len(s) + 1}
        /\ Append(s, a)[Len(s) + 1] = a
        /\ \A n \in DOMAIN s : Append(s, a)[n] = s[n]
        /\ Len(s) + 1 \notin DOMAIN s
    BY AppendProperties, LenProperties
  <1> QED
    BY <1>1 DEF Distinct, ToSet

LEMMA ForeignDistinct ==
    ASSUME NEW S, NEW c, NEW s \in Seq(S), Distinct(s)
    PROVE  Distinct(Foreign(c, s))
  <1> DEFINE Q == {t \in Seq(S) : Distinct(t) => Distinct(Foreign(c, t))}
  <1>1. <<>> \in Q
    BY EmptySeq, ForeignNothing
  <1>2. ASSUME NEW t \in Seq(S), NEW a \in S, t \in Q PROVE Append(t, a) \in Q
    <2>1. Append(t, a) \in Seq(S)
      BY AppendProperties
    <2> SUFFICES ASSUME Distinct(Append(t, a)) PROVE Distinct(Foreign(c, Append(t, a)))
      BY <2>1
    <2>2. Distinct(t) /\ a \notin ToSet(t)
      BY DistinctAppend
    <2>3. Distinct(Foreign(c, t))
      BY <1>2, <2>2
    <2>4. Foreign(c, t) \in Seq(S) /\ ToSet(Foreign(c, t)) \subseteq ToSet(t)
      BY ForeignActions
    <2>5. Distinct(Append(Foreign(c, t), a))
      BY <2>2, <2>3, <2>4, DistinctAppend
    <2>6. Foreign(c, Append(t, a)) = IF a.player # c THEN Append(Foreign(c, t), a)
                                                     ELSE Foreign(c, t)
      BY ForeignAppend
    <2> QED
      BY <2>3, <2>5, <2>6
  <1>3. Seq(S) \subseteq Q
    <2> HIDE DEF Q
    <2> QED
      BY <1>1, <1>2, ListInduction
  <1> QED
    BY <1>3

LEMMA DistinctLength ==
    ASSUME NEW S, NEW s \in Seq(S), Distinct(s)
    PROVE  IsFiniteSet(ToSet(s)) /\ Len(s) = Cardinality(ToSet(s))
  <1> DEFINE Q == {t \in Seq(S) : Distinct(t) => /\ IsFiniteSet(ToSet(t))
                                                 /\ Len(t) = Cardinality(ToSet(t))}
  <1>1. <<>> \in Q
    <2>1. ToSet(<<>>) = {} /\ Len(<<>>) = 0 /\ <<>> \in Seq(S)
      BY EmptySeq DEF ToSet
    <2> QED
      BY <2>1, FS_EmptySet
  <1>2. ASSUME NEW t \in Seq(S), NEW a \in S, t \in Q PROVE Append(t, a) \in Q
    <2>1. Append(t, a) \in Seq(S) /\ Len(Append(t, a)) = Len(t) + 1
      BY AppendProperties, LenProperties
    <2> SUFFICES ASSUME Distinct(Append(t, a))
                 PROVE  /\ IsFiniteSet(ToSet(Append(t, a)))
                        /\ Len(Append(t, a)) = Cardinality(ToSet(Append(t, a)))
      BY <2>1
    <2>2. Distinct(t) /\ a \notin ToSet(t)
      BY DistinctAppend
    <2>3. IsFiniteSet(ToSet(t)) /\ Len(t) = Cardinality(ToSet(t))
      BY <1>2, <2>2
    <2>4. ToSet(Append(t, a)) = ToSet(t) \union {a}
      BY ToSetAppend
    <2> QED
      BY <2>1, <2>2, <2>3, <2>4, FS_AddElement
  <1>3. Seq(S) \subseteq Q
    <2> HIDE DEF Q
    <2> QED
      BY <1>1, <1>2, ListInduction
  <1> QED
    BY <1>3

-----------------------------------------------------------------------------
(* The histories, whatever the delays and the deaths: the rounds of the     *)
(* server are those it has published, and a client has applied of each of   *)
(* those it has pulled what the others have played in it.                   *)

\* The rounds of a process, once actions are applied to the last one.
LEMMA AppliedRounds ==
    ASSUME NEW S, NEW rounds \in Seq(Seq(S)), NEW actions \in Seq(S)
    PROVE  /\ Applied(rounds, actions) \in Seq(Seq(S))
           /\ Len(Applied(rounds, actions)) = Len(rounds)
           /\ \A i \in 1 .. Len(rounds) :
                 Applied(rounds, actions)[i] =
                     IF i = Len(rounds) THEN rounds[i] \o actions ELSE rounds[i]
  <1>1. /\ Len(rounds) \in Nat /\ DOMAIN rounds = 1 .. Len(rounds)
        /\ rounds \in [1 .. Len(rounds) -> Seq(S)]
    BY LenProperties
  <1>2. CASE Len(rounds) = 0
    <2>1. Applied(rounds, actions) = rounds
      BY <1>1, <1>2 DEF Applied
    <2> QED
      BY <1>2, <2>1
  <1>3. CASE Len(rounds) # 0
    <2>0. Len(rounds) \in 1 .. Len(rounds)
      <3>1. PICK n \in Nat : n = Len(rounds)
        BY <1>1
      <3>2. n \in 1 .. n
        BY <1>3, <3>1
      <3> QED
        BY <3>1, <3>2
    <2>1. PICK last \in 1 .. Len(rounds) : last = Len(rounds)
      BY <2>0
    <2>2. rounds[last] \in Seq(S)
      BY ElementOfSeq
    <2>3. PICK new \in Seq(S) : new = rounds[last] \o actions
      BY <2>2, ConcatProperties
    <2>4. PICK after : after = [rounds EXCEPT ![last] = new]
      OBVIOUS
    <2>5. /\ after \in Seq(Seq(S)) /\ Len(after) = Len(rounds)
          /\ \A i \in 1 .. Len(rounds) : after[i] = IF i = last THEN new ELSE rounds[i]
      BY <2>4, ExceptSeq
    <2>6. Applied(rounds, actions) = after
      BY <2>1, <2>3, <2>4 DEF Applied
    <2> QED
      BY <2>1, <2>3, <2>5, <2>6
  <1> QED
    BY <1>2, <1>3

LEMMA OpenRounds ==
    ASSUME NEW S, NEW rounds \in Seq(Seq(S))
    PROVE  /\ OpenRound(rounds) \in Seq(Seq(S))
           /\ Len(OpenRound(rounds)) = Len(rounds) + 1
           /\ \A i \in 1 .. Len(rounds) : OpenRound(rounds)[i] = rounds[i]
           /\ OpenRound(rounds)[Len(rounds) + 1] = <<>>
  <1>1. <<>> \in Seq(S)
    BY EmptySeq
  <1> QED
    BY <1>1, AppendProperties DEF OpenRound

\* A round opened and the actions played in it.
LEMMA PlayedRounds ==
    ASSUME NEW S, NEW rounds \in Seq(Seq(S)), NEW actions \in Seq(S)
    PROVE  LET after == Applied(OpenRound(rounds), actions) IN
           /\ after \in Seq(Seq(S))
           /\ Len(after) = Len(rounds) + 1
           /\ \A i \in 1 .. Len(rounds) : after[i] = rounds[i]
           /\ after[Len(rounds) + 1] = actions
  <1>1. PICK open \in Seq(Seq(S)) :
            /\ open = OpenRound(rounds) /\ Len(open) = Len(rounds) + 1
            /\ \A i \in 1 .. Len(rounds) : open[i] = rounds[i]
            /\ open[Len(rounds) + 1] = <<>>
    BY OpenRounds
  <1>2. Len(rounds) \in Nat /\ <<>> \o actions = actions
    BY LenProperties, ConcatEmptySeq
  <1>3. /\ Applied(open, actions) \in Seq(Seq(S))
        /\ Len(Applied(open, actions)) = Len(open)
        /\ \A i \in 1 .. Len(open) :
              Applied(open, actions)[i] =
                  IF i = Len(open) THEN open[i] \o actions ELSE open[i]
    BY AppliedRounds
  <1>4. ASSUME NEW i \in 1 .. Len(rounds)
        PROVE  Applied(open, actions)[i] = rounds[i]
    <2>1. i \in 1 .. Len(open) /\ i # Len(open)
      BY <1>1, <1>2
    <2> QED
      BY <1>1, <1>3, <2>1
  <1>5. Applied(open, actions)[Len(open)] = actions
    <2>1. Len(open) \in 1 .. Len(open)
      BY <1>1, <1>2
    <2> QED
      BY <1>1, <1>2, <1>3, <2>1
  <1> QED
    BY <1>1, <1>3, <1>4, <1>5

Collecting == spc \in {"collect", "again", "spectators"}

ServerHistory ==
    /\ Len(log[Server]) = IF Collecting THEN Len(published) + 1 ELSE Len(published)
    /\ \A i \in 1 .. Len(published) : log[Server][i] = published[i].actions
    /\ Collecting => log[Server][Len(published) + 1] = <<>>

ClientHistory(c) ==
    /\ cursor[c] <= Len(published)
    /\ Len(log[c]) \in {cursor[c], cursor[c] + 1}
    /\ cpc[c] \in {"round", "done"} => Len(log[c]) = cursor[c]
    /\ cpc[c] \in {"ack", "actions"} => Len(log[c]) = cursor[c] + 1
    /\ cpc[c] = "round" => Len(log[c]) < Limit
    /\ \A i \in 1 .. cursor[c] : Foreign(c, log[c][i]) = Foreign(c, published[i].actions)
    /\ \A i \in cursor[c] + 1 .. Len(log[c]) : \A a \in ToSet(log[c][i]) : a.player = c

HistoryInvariant ==
    /\ SeatInvariant
    /\ TypeOK
    /\ ServerHistory
    /\ \A c \in Client : ClientHistory(c)

LEMMA ProcFacts == Server \notin Client /\ Server \in Proc /\ Client \subseteq Proc
  <1>1. \A c \in Client : c >= 0 /\ c \in Int
    BY PlayersAssumption, SpectatorsAssumption, ClientAssumption
  <1> QED
    BY <1>1 DEF Server, Proc

\* The seats expected in a round, as a number.
LEMMA SeatCount ==
    ASSUME SeatInvariant
    PROVE  playersCount \in NbSpectators .. NbPlayers + NbSpectators
  <1> USE DEF SeatInvariant
  <1>1. /\ IsFiniteSet(playersIds) /\ Cardinality(playersIds) <= Cardinality(Client)
        /\ Cardinality(Spectator) <= Cardinality(playersIds)
    BY ClientFacts, FS_Subset
  <1>2. Cardinality(playersIds) \in Nat
    BY <1>1, FS_CardinalityType
  <1> QED
    BY <1>1, <1>2, ClientFacts, PlayersAssumption, SpectatorsAssumption

LEMMA HistoryInit ==
    ASSUME Init
    PROVE  HistoryInvariant
  <1>1. SeatInvariant
    BY SeatInit
  <1>2. /\ <<>> \in Seq(Action) /\ <<>> \in Seq(Seq(Action))
        /\ <<>> \in Seq([type : {"actions"}, actions : Seq(Action)])
        /\ Len(<<>>) = 0
    BY EmptySeq
  <1>3. /\ requests = {} /\ replies = {} /\ published = <<>>
        /\ cursor = [c \in Client |-> 0] /\ spc = "round" /\ answers = 0
        /\ spectatorsCount = NbSpectators /\ received = <<>>
        /\ nbTimeout = [p \in Player |-> 0] /\ replay = <<>>
        /\ cpc = [c \in Client |-> "round"] /\ log = [p \in Proc |-> <<>>]
    BY DEF Init, SocketsInit
  <1>4. spectatorsCount \in 0 .. SizeT - 1
    BY <1>3, PlayersAssumption, SpectatorsAssumption, WidthAssumption
  <1>5. TypeOK
    BY <1>1, <1>2, <1>3, <1>4, SeatCount DEF TypeOK, SeatInvariant
  <1>6. ServerHistory
    BY <1>2, <1>3, ProcFacts DEF ServerHistory, Collecting
  <1>7. ASSUME NEW c \in Client PROVE ClientHistory(c)
    <2>1. /\ log[c] = <<>> /\ Len(log[c]) = 0 /\ cursor[c] = 0
          /\ cpc[c] = "round" /\ Len(published) = 0
      BY <1>2, <1>3, ProcFacts
    <2>2. 1 .. cursor[c] = {} /\ cursor[c] + 1 .. Len(log[c]) = {}
      BY <2>1
    <2> QED
      BY <2>1, <2>2, LimitAssumption DEF ClientHistory
  <1> QED
    BY <1>1, <1>5, <1>6, <1>7 DEF HistoryInvariant

LEMMA HistoryStart ==
    ASSUME HistoryInvariant, StartRound
    PROVE  HistoryInvariant'
  <1> USE DEF HistoryInvariant
  <1>1. SeatInvariant' /\ playersCount' \in NbSpectators .. NbPlayers + NbSpectators
    BY SeatNext, SeatCount DEF Next, ServerStep, SeatInvariant, StartRound
  <1>2. /\ UNCHANGED <<requests, replies, published, cursor, playersIds, playersCount,
                       nbTimeout, replay, cpc>>
        /\ spc = "round" /\ spc' = "collect" /\ answers' = 0 /\ timeouting' = Player
        /\ spectatorsCount' = NbSpectators /\ received' = <<>>
        /\ log' = [log EXCEPT ![Server] = OpenRound(@)]
    BY DEF StartRound, ResetSpectatorsCount, ClearActions, socketVars
  <1>3. PICK rounds \in Seq(Seq(Action)) : rounds = log[Server]
    BY ProcFacts DEF TypeOK
  <1>4. PICK after \in Seq(Seq(Action)) :
           /\ after = OpenRound(rounds)
           /\ Len(after) = Len(rounds) + 1
           /\ \A i \in 1 .. Len(rounds) : after[i] = rounds[i]
           /\ after[Len(rounds) + 1] = <<>>
    BY OpenRounds
  <1>5. /\ log'[Server] = after
        /\ \A c \in Client : log'[c] = log[c]
        /\ log' \in [Proc -> Seq(Seq(Action))]
    BY <1>2, <1>3, <1>4, ProcFacts DEF TypeOK
  <1>6. TypeOK'
    <2>1. spectatorsCount' \in 0 .. SizeT - 1
      BY <1>2, PlayersAssumption, SpectatorsAssumption, WidthAssumption
    <2>2. received' \in Seq(Action)
      BY <1>2, EmptySeq
    <2> QED
      BY <1>1, <1>2, <1>5, <2>1, <2>2 DEF TypeOK
  <1>7. ServerHistory'
    <2>1. Len(rounds) = Len(published) /\ Len(published) \in Nat
      BY <1>2, <1>3, LenProperties DEF ServerHistory, Collecting, TypeOK
    <2>2. \A i \in 1 .. Len(published) : after[i] = published[i].actions
      BY <1>3, <1>4, <2>1 DEF ServerHistory
    <2> QED
      BY <1>2, <1>4, <1>5, <2>1, <2>2 DEF ServerHistory, Collecting
  <1>8. \A c \in Client : ClientHistory(c)'
    BY <1>2, <1>5 DEF ClientHistory
  <1> QED
    BY <1>1, <1>6, <1>7, <1>8

\* What the server receives are actions.
LEMMA CollectedTyped ==
    ASSUME TypeOK, NEW request \in requests, Collect(request)
    PROVE  /\ requests' = requests \ {request} /\ replies' = replies \union {request.from}
           /\ request.from \in Client /\ request.actions \in Seq(Action)
           /\ received' = received \o request.actions
           /\ received' \in Seq(Action) /\ replies' \subseteq Client
  <1>1. request.from \in Client /\ request.actions \in Seq(Action)
    BY DEF TypeOK
  <1>2. received \in Seq(Action) /\ replies \subseteq Client
    BY DEF TypeOK
  <1>3. received \o request.actions \in Seq(Action)
    BY <1>1, <1>2, ConcatProperties
  <1> QED
    BY <1>1, <1>2, <1>3 DEF Collect, RecvAndAck

\* Receiving, and counting the players, leaves the histories alone.
LEMMA HistoryStays ==
    ASSUME HistoryInvariant, Collecting, Collecting', UNCHANGED <<published, cursor, cpc, log>>
    PROVE  ServerHistory' /\ \A c \in Client : ClientHistory(c)'
  <1>1. ServerHistory'
    BY DEF HistoryInvariant, ServerHistory
  <1>2. \A c \in Client : ClientHistory(c)'
    BY DEF HistoryInvariant, ClientHistory
  <1> QED
    BY <1>1, <1>2

LEMMA CountsInWidth ==
    ASSUME NEW n \in 0 .. SizeT - 1
    PROVE  Decrement(n) \in 0 .. SizeT - 1
  <1>1. SizeT \in Nat \ {0} /\ n - 1 \in Int
    BY PlayersAssumption, SpectatorsAssumption, WidthAssumption
  <1> QED
    BY <1>1 DEF Decrement

LEMMA HistoryReceive ==
    ASSUME HistoryInvariant, ReceiveAnswer \/ ReceiveRevived \/ ReceiveSpectator
    PROVE  HistoryInvariant'
  <1> USE DEF HistoryInvariant
  <1>1. SeatInvariant' /\ playersCount' \in NbSpectators .. NbPlayers + NbSpectators
    BY SeatNext, SeatCount
       DEF Next, ServerStep, SeatInvariant, ReceiveAnswer, ReceiveRevived, ReceiveSpectator
  <1>2. /\ UNCHANGED <<published, cursor, playersIds, playersCount, nbTimeout, replay, cpc, log>>
        /\ spc \in {"collect", "again", "spectators"}
        /\ spc' \in {"collect", "again", "spectators"}
        /\ answers' \in Nat
        /\ spectatorsCount' \in {spectatorsCount, Decrement(spectatorsCount)}
        /\ \E request \in requests : Collect(request)
    BY DEF ReceiveAnswer, ReceiveRevived, ReceiveSpectator, TypeOK
  <1>3. PICK request \in requests : Collect(request)
    BY <1>2
  <1>4. spectatorsCount' \in 0 .. SizeT - 1
    BY <1>2, CountsInWidth DEF TypeOK
  <1>5. TypeOK'
    <2>1. /\ requests' \subseteq requests /\ replies' \subseteq Client
          /\ received' \in Seq(Action)
      BY <1>3, CollectedTyped
    <2> QED
      BY <1>1, <1>2, <1>4, <2>1 DEF TypeOK, SeatInvariant
  <1> QED
    BY <1>1, <1>2, <1>5, HistoryStays DEF Collecting

LEMMA HistoryClose ==
    ASSUME HistoryInvariant, CloseCollection
    PROVE  HistoryInvariant'
  <1> USE DEF HistoryInvariant
  <1>1. SeatInvariant'
    BY SeatNext DEF Next, ServerStep
  <1>2. /\ UNCHANGED <<requests, replies, published, cursor, answers, spectatorsCount,
                       received, replay, cpc, log>>
        /\ spc = "collect" /\ spc' = "spectators"
    BY DEF CloseCollection, socketVars
  <1>3. playersCount' \in NbSpectators .. NbPlayers + NbSpectators
    <2>1. /\ IsFiniteSet(playersIds') /\ Cardinality(playersIds') <= Cardinality(Client)
          /\ Cardinality(Spectator) <= Cardinality(playersIds')
      BY <1>1, ClientFacts, FS_Subset DEF SeatInvariant
    <2>2. Cardinality(playersIds') \in Nat
      BY <2>1, FS_CardinalityType
    <2> QED
      BY <1>1, <2>1, <2>2, ClientFacts, PlayersAssumption, SpectatorsAssumption
         DEF SeatInvariant
  <1>4. TypeOK'
    BY <1>1, <1>2, <1>3 DEF TypeOK, SeatInvariant
  <1> QED
    BY <1>1, <1>2, <1>4, HistoryStays DEF Collecting

LEMMA HistoryPublish ==
    ASSUME HistoryInvariant, Publish
    PROVE  HistoryInvariant'
  <1> USE DEF HistoryInvariant
  <1>1. SeatInvariant'
    BY SeatNext DEF Next, ServerStep
  <1>2. /\ UNCHANGED <<requests, replies, cursor, answers, playersIds, playersCount,
                       timeouting, spectatorsCount, received, nbTimeout, cpc>>
        /\ spc = "spectators" /\ spc' \in {"done", "round"}
        /\ replay' = Append(replay, received)
        /\ log' = [log EXCEPT ![Server] = Applied(@, received)]
        /\ published' = Append(published, ActionsMessage(received))
    BY DEF Publish, Saved, PushActions, Push
  <1> DEFINE message == ActionsMessage(received)
             Stream == [type : {"actions"}, actions : Seq(Action)]
  <1>3. received \in Seq(Action) /\ published \in Seq(Stream) /\ replay \in Seq(Seq(Action))
    BY DEF TypeOK
  <1>4. message \in Stream /\ message.actions = received
    BY <1>3 DEF ActionsMessage
  <1> HIDE DEF message, Stream
  <1>5. /\ published' \in Seq(Stream) /\ Len(published') = Len(published) + 1
        /\ \A i \in 1 .. Len(published) : published'[i] = published[i]
        /\ published'[Len(published) + 1] = message
        /\ Len(published) \in Nat
    BY <1>2, <1>3, <1>4, AppendProperties, LenProperties DEF message
  <1>6. PICK rounds \in Seq(Seq(Action)) : rounds = log[Server]
    BY ProcFacts DEF TypeOK
  <1>7. PICK after \in Seq(Seq(Action)) :
           /\ after = Applied(rounds, received)
           /\ Len(after) = Len(rounds)
           /\ \A i \in 1 .. Len(rounds) :
                 after[i] = IF i = Len(rounds) THEN rounds[i] \o received ELSE rounds[i]
    BY <1>3, AppliedRounds
  <1>8. /\ log'[Server] = after
        /\ \A c \in Client : log'[c] = log[c]
        /\ log' \in [Proc -> Seq(Seq(Action))]
    BY <1>2, <1>6, <1>7, ProcFacts DEF TypeOK
  <1>9. TypeOK'
    <2>1. replay' \in Seq(Seq(Action))
      BY <1>2, <1>3, AppendProperties
    <2> QED
      BY <1>1, <1>2, <1>5, <1>8, <2>1 DEF TypeOK, Stream
  <1>10. ServerHistory'
    <2>1. /\ Len(rounds) = Len(published) + 1
          /\ \A i \in 1 .. Len(published) : rounds[i] = published[i].actions
          /\ rounds[Len(published) + 1] = <<>>
      BY <1>2, <1>6 DEF ServerHistory, Collecting
    <2>2. ASSUME NEW i \in 1 .. Len(published)
          PROVE  after[i] = published'[i].actions
      <3>1. i \in 1 .. Len(rounds) /\ i # Len(rounds)
        BY <1>5, <2>1
      <3>2. after[i] = rounds[i] /\ rounds[i] = published[i].actions
        BY <1>7, <2>1, <3>1
      <3> QED
        BY <1>5, <3>2
    <2>3. after[Len(published) + 1] = received
      <3>1. <<>> \o received = received
        BY <1>3, ConcatEmptySeq
      <3>2. Len(published) + 1 \in 1 .. Len(rounds)
        BY <1>5, <2>1
      <3> QED
        BY <1>7, <2>1, <3>1, <3>2
    <2>4. \A i \in 1 .. Len(published) + 1 : after[i] = published'[i].actions
      <3> TAKE i \in 1 .. Len(published) + 1
      <3>1. CASE i = Len(published) + 1
        BY <1>4, <1>5, <2>3, <3>1
      <3>2. CASE i # Len(published) + 1
        <4>1. i \in 1 .. Len(published)
          BY <1>5, <3>2
        <4> QED
          BY <2>2, <4>1
      <3> QED
        BY <3>1, <3>2
    <2> QED
      BY <1>2, <1>5, <1>7, <1>8, <2>1, <2>4 DEF ServerHistory, Collecting
  <1>11. \A c \in Client : ClientHistory(c)'
    <2> TAKE c \in Client
    <2>1. /\ cursor[c] \in Nat /\ cursor[c] <= Len(published)
          /\ \A i \in 1 .. cursor[c] : Foreign(c, log[c][i]) = Foreign(c, published[i].actions)
      BY DEF TypeOK, ClientHistory
    <2>2. \A i \in 1 .. cursor[c] : published'[i] = published[i]
      BY <1>5, <2>1, SMTT(30)
    <2>3. cursor'[c] <= Len(published')
      BY <1>2, <1>5, <2>1
    <2>4. /\ log'[c] = log[c] /\ cursor'[c] = cursor[c] /\ cpc'[c] = cpc[c]
      BY <1>2, <1>8
    <2>5. \A i \in 1 .. cursor'[c] : Foreign(c, log'[c][i]) = Foreign(c, published'[i].actions)
      BY <2>1, <2>2, <2>4
    <2> QED
      BY <2>3, <2>4, <2>5 DEF ClientHistory
  <1> QED
    BY <1>1, <1>9, <1>10, <1>11

\* What a step of a client leaves to the others.
LEMMA HistoryOthers ==
    ASSUME HistoryInvariant, NEW c \in Client,
           UNCHANGED <<published, serverVars>>,
           \A d \in Client \ {c} : /\ cpc'[d] = cpc[d] /\ cursor'[d] = cursor[d]
                                   /\ log'[d] = log[d],
           log'[Server] = log[Server], log' \in [Proc -> Seq(Seq(Action))],
           requests' \subseteq [from : Client, actions : Seq(Action)],
           replies' \subseteq Client, cursor' \in [Client -> Nat],
           cpc' \in [Client -> {"round", "ack", "actions", "done", "dead"}],
           ClientHistory(c)'
    PROVE  HistoryInvariant'
  <1> USE DEF HistoryInvariant
  <1>1. SeatInvariant'
    BY DEF SeatInvariant, serverVars
  <1>2. TypeOK'
    BY DEF TypeOK, serverVars
  <1>3. ServerHistory'
    BY DEF ServerHistory, Collecting, serverVars
  <1>4. \A d \in Client : ClientHistory(d)'
    <2> TAKE d \in Client
    <2>1. CASE d # c
      <3>1. /\ cpc'[d] = cpc[d] /\ cursor'[d] = cursor[d] /\ log'[d] = log[d]
            /\ published' = published
        BY <2>1
      <3>2. ClientHistory(d)
        OBVIOUS
      <3> QED
        BY <3>1, <3>2 DEF ClientHistory
    <2> QED
      BY <2>1
  <1> QED
    BY <1>1, <1>2, <1>3, <1>4

\* What a champion may do in a round is in a list of no action or of one.
LEMMA PlayedActions ==
    ASSUME NEW c \in Client, NEW n \in 1 .. Limit,
           NEW actions \in IF c \in Player THEN ChampionActions(c, n) ELSE {<<>>}
    PROVE  /\ actions \in Seq(Action)
           /\ \A a \in ToSet(actions) : a.player = c
           /\ \/ actions = <<>>
              \/ \E a \in Action : actions = <<a>> /\ a.player = c /\ a.round = n
  <1>1. CASE actions = <<>>
    <2>1. actions \in Seq(Action) /\ Len(actions) = 0
      BY <1>1, EmptySeq
    <2>2. ToSet(actions) = {}
      BY <1>1 DEF ToSet
    <2> QED
      BY <1>1, <2>1, <2>2
  <1>2. CASE actions # <<>>
    <2>1. c \in Player /\ actions \in ChampionActions(c, n)
      BY <1>2
    <2>2. PICK e \in BOOLEAN : actions = <<[player |-> c, round |-> n, ends |-> e]>>
      BY <1>2, <2>1 DEF ChampionActions
    <2>3. PICK a \in Action : actions = <<a>> /\ a.player = c /\ a.round = n
      BY <2>1, <2>2 DEF Action
    <2>4. <<a>> \in Seq(Action) /\ ToSet(<<a>>) = {a}
      BY DEF ToSet
    <2> QED
      BY <2>3, <2>4
  <1> QED
    BY <1>1, <1>2

LEMMA HistoryPlay ==
    ASSUME HistoryInvariant, NEW c \in Client, PlayRound(c)
    PROVE  HistoryInvariant'
  <1> USE DEF HistoryInvariant
  <1>1. PICK rounds \in Seq(Seq(Action)) : rounds = log[c]
    BY ProcFacts DEF TypeOK
  <1>2. /\ cpc[c] = "round" /\ cpc' = [cpc EXCEPT ![c] = "ack"]
        /\ UNCHANGED <<replies, published, cursor, serverVars>>
    BY DEF PlayRound
  <1>3. /\ Len(rounds) \in Nat /\ Len(rounds) = cursor[c] /\ Len(rounds) + 1 \in 1 .. Limit
        /\ cursor[c] <= Len(published)
    BY <1>1, <1>2, LenProperties, LimitAssumption DEF ClientHistory
  <1>4. PICK n \in 1 .. Limit : n = Len(rounds) + 1
    BY <1>3
  <1>5. PICK actions \in IF c \in Player THEN ChampionActions(c, n) ELSE {<<>>} :
           /\ SendActions(c, actions)
           /\ log' = [log EXCEPT ![c] = Applied(OpenRound(@), actions)]
    BY <1>1, <1>4 DEF PlayRound
  <1>6. actions \in Seq(Action) /\ \A a \in ToSet(actions) : a.player = c
    BY PlayedActions
  <1>7. PICK after \in Seq(Seq(Action)) :
           /\ after = Applied(OpenRound(rounds), actions)
           /\ Len(after) = Len(rounds) + 1
           /\ \A i \in 1 .. Len(rounds) : after[i] = rounds[i]
           /\ after[Len(rounds) + 1] = actions
    BY <1>6, PlayedRounds
  <1>8. /\ log'[c] = after
        /\ \A d \in Proc \ {c} : log'[d] = log[d]
        /\ log' \in [Proc -> Seq(Seq(Action))]
    BY <1>1, <1>5, <1>7, ProcFacts DEF TypeOK
  <1>9. ClientHistory(c)'
    <2>1. cpc'[c] = "ack" /\ cursor'[c] = cursor[c] /\ published' = published
      BY <1>2 DEF TypeOK
    <2>2. \A i \in 1 .. cursor[c] : Foreign(c, after[i]) = Foreign(c, published[i].actions)
      BY <1>1, <1>3, <1>7 DEF ClientHistory
    <2>3. \A i \in cursor[c] + 1 .. Len(after) : after[i] = actions
      BY <1>3, <1>7
    <2> QED
      BY <1>3, <1>6, <1>7, <1>8, <2>1, <2>2, <2>3 DEF ClientHistory
  <1>10. /\ requests' \subseteq [from : Client, actions : Seq(Action)]
         /\ replies' \subseteq Client /\ cursor' \in [Client -> Nat]
         /\ cpc' \in [Client -> {"round", "ack", "actions", "done", "dead"}]
    BY <1>2, <1>5, <1>6 DEF TypeOK, SendActions
  <1>11. \A d \in Client \ {c} : cpc'[d] = cpc[d] /\ cursor'[d] = cursor[d] /\ log'[d] = log[d]
    BY <1>2, <1>8, ProcFacts DEF TypeOK
  <1> QED
    BY <1>2, <1>8, <1>9, <1>10, <1>11, ProcFacts, HistoryOthers

LEMMA HistoryAck ==
    ASSUME HistoryInvariant, NEW c \in Client, Acknowledged(c)
    PROVE  HistoryInvariant'
  <1> USE DEF HistoryInvariant
  <1>1. /\ cpc[c] = "ack" /\ cpc' = [cpc EXCEPT ![c] = "actions"]
        /\ replies' \subseteq replies
        /\ UNCHANGED <<requests, published, cursor, serverVars, log>>
    BY DEF Acknowledged, WaitForAck
  <1>2. cpc'[c] = "actions" /\ \A d \in Client \ {c} : cpc'[d] = cpc[d]
    BY <1>1 DEF TypeOK
  <1>3. ClientHistory(c)'
    BY <1>1, <1>2 DEF ClientHistory
  <1>4. /\ requests' \subseteq [from : Client, actions : Seq(Action)]
        /\ replies' \subseteq Client /\ cursor' \in [Client -> Nat]
        /\ cpc' \in [Client -> {"round", "ack", "actions", "done", "dead"}]
        /\ log' \in [Proc -> Seq(Seq(Action))]
    BY <1>1 DEF TypeOK
  <1> QED
    BY <1>1, <1>2, <1>3, <1>4, HistoryOthers

LEMMA HistoryDie ==
    ASSUME HistoryInvariant, NEW c \in Client, Die(c)
    PROVE  HistoryInvariant'
  <1> USE DEF HistoryInvariant
  <1>1. /\ cpc' = [cpc EXCEPT ![c] = "dead"]
        /\ requests' \subseteq requests
        /\ UNCHANGED <<replies, published, cursor, serverVars, log>>
    BY DEF Die
  <1>2. cpc'[c] = "dead" /\ \A d \in Client \ {c} : cpc'[d] = cpc[d]
    BY <1>1 DEF TypeOK
  <1>3. ClientHistory(c)'
    BY <1>1, <1>2 DEF ClientHistory
  <1>4. /\ requests' \subseteq [from : Client, actions : Seq(Action)]
        /\ replies' \subseteq Client /\ cursor' \in [Client -> Nat]
        /\ cpc' \in [Client -> {"round", "ack", "actions", "done", "dead"}]
        /\ log' \in [Proc -> Seq(Seq(Action))]
    BY <1>1 DEF TypeOK
  <1> QED
    BY <1>1, <1>2, <1>3, <1>4, HistoryOthers

LEMMA HistoryPull ==
    ASSUME HistoryInvariant, NEW c \in Client, PullRound(c)
    PROVE  /\ HistoryInvariant'
           /\ \E k \in 1 .. Len(published) : \E own \in Seq(Action) :
                 LET message == published[k].actions IN
                 /\ k = cursor[c] + 1 /\ Len(log[c]) = k /\ own = log[c][k]
                 /\ message \in Seq(Action)
                 /\ \A a \in ToSet(own) : a.player = c
                 /\ cursor'[c] = k /\ Len(log'[c]) = k
                 /\ log'[c][k] = own \o Foreign(c, message)
                 /\ \A i \in 1 .. cursor[c] : log'[c][i] = log[c][i]
                 /\ \A d \in Proc \ {c} : log'[d] = log[d]
                 /\ \A d \in Client \ {c} : cpc'[d] = cpc[d] /\ cursor'[d] = cursor[d]
                 /\ cpc'[c] \in {"done", "round"}
  <1> USE DEF HistoryInvariant
  <1>1. PICK rounds \in Seq(Seq(Action)) : rounds = log[c]
    BY ProcFacts DEF TypeOK
  <1>2. /\ cpc[c] = "actions"
        /\ cpc' = [cpc EXCEPT ![c] = IF Over(log'[c]) THEN "done" ELSE "round"]
        /\ cursor[c] < Len(published) /\ cursor' = [cursor EXCEPT ![c] = @ + 1]
        /\ UNCHANGED <<requests, replies, published, serverVars>>
        /\ log' = [log EXCEPT ![c] =
                       Applied(@, Foreign(c, published[cursor[c] + 1].actions))]
    BY DEF PullRound, Pull, CanPull, NextMessage, ToApply
  <1>3. /\ cursor[c] \in Nat /\ Len(published) \in Nat
        /\ Len(rounds) = cursor[c] + 1
    BY <1>1, <1>2, LenProperties DEF TypeOK, ClientHistory
  <1>4. PICK k \in 1 .. Len(published) : k = cursor[c] + 1
    BY <1>2, <1>3
  <1>5. PICK message \in Seq(Action) : message = published[k].actions
    <2>1. published[k] \in [type : {"actions"}, actions : Seq(Action)]
      BY ElementOfSeq DEF TypeOK
    <2> QED
      BY <2>1
  <1>6. Foreign(c, message) \in Seq(Action)
    BY ForeignActions
  <1>7. PICK kept \in Seq(Action) : kept = Foreign(c, message)
    BY <1>6
  <1>8. PICK after \in Seq(Seq(Action)) :
           /\ after = Applied(rounds, kept)
           /\ Len(after) = Len(rounds)
           /\ \A i \in 1 .. Len(rounds) :
                 after[i] = IF i = Len(rounds) THEN rounds[i] \o kept ELSE rounds[i]
    <2>1. /\ Applied(rounds, kept) \in Seq(Seq(Action))
          /\ Len(Applied(rounds, kept)) = Len(rounds)
          /\ \A i \in 1 .. Len(rounds) :
                Applied(rounds, kept)[i] =
                    IF i = Len(rounds) THEN rounds[i] \o kept ELSE rounds[i]
      BY AppliedRounds, ZenonT(30)
    <2> QED
      BY <2>1, ZenonT(30)
  <1>9. /\ log'[c] = after
        /\ \A d \in Proc \ {c} : log'[d] = log[d]
        /\ log' \in [Proc -> Seq(Seq(Action))]
    BY <1>1, <1>2, <1>4, <1>5, <1>7, <1>8, ProcFacts DEF TypeOK
  <1>10. k \in 1 .. Len(rounds) /\ k = Len(rounds)
    BY <1>3, <1>4
  <1>11. PICK own \in Seq(Action) : own = rounds[k]
    BY <1>10, ElementOfSeq
  <1>12. after[k] = own \o kept
    BY <1>8, <1>10, <1>11
  <1>13. \A a \in ToSet(own) : a.player = c
    <2>1. k \in cursor[c] + 1 .. Len(log[c])
      BY <1>1, <1>3, <1>4
    <2> QED
      BY <1>1, <1>11, <2>1 DEF ClientHistory
  <1>14. Foreign(c, own \o kept) = kept
    <2>1. Foreign(c, own) = <<>>
      BY <1>13, ForeignOwn
    <2>2. Foreign(c, kept) = kept
      <3>1. \A a \in ToSet(kept) : a.player # c
        BY <1>7, ForeignActions
      <3> QED
        BY <3>1, ForeignOwn
    <2>3. Foreign(c, own \o kept) = Foreign(c, own) \o Foreign(c, kept)
      BY ForeignConcat, SMTT(30)
    <2> QED
      BY <2>1, <2>2, <2>3, ConcatEmptySeq
  <1>15. ASSUME NEW i \in 1 .. cursor[c]
         PROVE  after[i] = rounds[i]
    <2>1. i \in 1 .. Len(rounds) /\ i # Len(rounds)
      BY <1>3, SMTT(30)
    <2> QED
      BY <1>8, <2>1
  <1>16. cpc'[c] \in {"done", "round"} /\ cursor'[c] = k
    BY <1>2, <1>4 DEF TypeOK
  <1>17. ClientHistory(c)'
    <2>1. ASSUME NEW i \in 1 .. k
          PROVE  Foreign(c, after[i]) = Foreign(c, published[i].actions)
      <3>1. CASE i = k
        BY <1>5, <1>7, <1>12, <1>14, <3>1
      <3>2. CASE i # k
        <4>1. i \in 1 .. cursor[c]
          BY <1>3, <1>4, <3>2
        <4> QED
          BY <1>1, <1>15, <4>1 DEF ClientHistory
      <3> QED
        BY <3>1, <3>2
    <2>2. cpc'[c] = "round" => Len(after) < Limit
      <3>1. cpc'[c] = "round" => ~Over(after)
        BY <1>2, <1>9 DEF TypeOK
      <3>2. Len(after) \in Nat
        BY LenProperties
      <3> QED
        BY <3>1, <3>2, LimitAssumption DEF Over
    <2>3. k + 1 .. Len(after) = {}
      BY <1>8, <1>10
    <2> QED
      BY <1>2, <1>8, <1>9, <1>10, <1>16, <2>1, <2>2, <2>3, SMTT(30) DEF ClientHistory
  <1>18. /\ requests' \subseteq [from : Client, actions : Seq(Action)]
         /\ replies' \subseteq Client /\ cursor' \in [Client -> Nat]
         /\ cpc' \in [Client -> {"round", "ack", "actions", "done", "dead"}]
    <2>1. /\ requests' = requests /\ replies' = replies
          /\ cursor' = [cursor EXCEPT ![c] = cursor[c] + 1]
      BY <1>2
    <2>2. PICK where \in {"done", "round"} : cpc' = [cpc EXCEPT ![c] = where]
      BY <1>2
    <2>3. /\ requests \subseteq [from : Client, actions : Seq(Action)]
          /\ replies \subseteq Client /\ cursor \in [Client -> Nat]
          /\ cpc \in [Client -> {"round", "ack", "actions", "done", "dead"}]
      BY DEF TypeOK
    <2>4. cursor' \in [Client -> Nat]
      BY <1>3, <2>1, <2>3
    <2>5. cpc' \in [Client -> {"round", "ack", "actions", "done", "dead"}]
      BY <2>2, <2>3
    <2> QED
      BY <2>1, <2>3, <2>4, <2>5
  <1>19. \A d \in Client \ {c} : cpc'[d] = cpc[d] /\ cursor'[d] = cursor[d] /\ log'[d] = log[d]
    BY <1>2, <1>9, ProcFacts DEF TypeOK
  <1>20. HistoryInvariant'
    BY <1>2, <1>9, <1>17, <1>18, <1>19, ProcFacts, HistoryOthers
  <1> QED
    <2>1. /\ Len(log'[c]) = k /\ log'[c][k] = own \o Foreign(c, message)
          /\ \A i \in 1 .. cursor[c] : log'[c][i] = log[c][i]
      BY <1>1, <1>7, <1>8, <1>9, <1>10, <1>12, <1>15
    <2>2. Len(log[c]) = k /\ own = log[c][k]
      BY <1>1, <1>10, <1>11
    <2> QED
      BY <1>4, <1>5, <1>9, <1>13, <1>16, <1>19, <1>20, <2>1, <2>2

LEMMA HistoryNext ==
    ASSUME HistoryInvariant, [Next]_vars
    PROVE  HistoryInvariant'
  <1>1. CASE ServerStep
    BY <1>1, HistoryStart, HistoryReceive, HistoryClose, HistoryPublish DEF ServerStep
  <1>2. CASE \E c \in Client : ClientStep(c) \/ Die(c)
    BY <1>2, HistoryPlay, HistoryAck, HistoryPull, HistoryDie DEF ClientStep
  <1>3. CASE UNCHANGED vars
    <2>1. SeatInvariant'
      BY <1>3, SeatNext DEF HistoryInvariant
    <2> QED
      BY <1>3, <2>1 DEF vars, serverVars, socketVars, HistoryInvariant, TypeOK,
         ServerHistory, ClientHistory, Collecting
  <1> QED
    BY <1>1, <1>2, <1>3 DEF Next, Terminated

LEMMA HistoryHolds == Spec => []HistoryInvariant
  BY HistoryInit, HistoryNext, PTL DEF Spec

\* Every variable has its type, whatever the delays and the deaths: no round
\* beyond the last one is played, and nobody is eliminated twice, which would
\* take players_count below the number of spectators.
THEOREM TypeCorrect == Spec => []TypeOK
  <1>1. HistoryInvariant => TypeOK
    BY DEF HistoryInvariant
  <1> QED
    BY <1>1, HistoryHolds, PTL

\* Whatever the delays and the deaths, what a client has applied of the others
\* in a round it has completed is what the server has applied in that round,
\* in the same order.
THEOREM ForeignRoundsAgree == Spec => []ForeignActionsAgree
  <1>1. ASSUME HistoryInvariant PROVE ForeignActionsAgree
    <2> SUFFICES ASSUME NEW c \in Client, NEW i \in 1 .. Complete(c)
                 PROVE  Foreign(c, log[c][i]) = Foreign(c, log[Server][i])
      BY DEF ForeignActionsAgree
    <2>1. /\ ClientHistory(c) /\ cursor[c] \in Nat /\ Len(published) \in Nat
          /\ cpc[c] \in {"round", "ack", "actions", "done", "dead"}
      BY <1>1, LenProperties DEF HistoryInvariant, TypeOK
    <2>2. Complete(c) \in Int /\ Complete(c) <= cursor[c]
      BY <2>1 DEF ClientHistory, Complete
    <2>3. i \in 1 .. cursor[c] /\ i \in 1 .. Len(published)
      BY <2>1, <2>2 DEF ClientHistory
    <2>4. Foreign(c, log[c][i]) = Foreign(c, published[i].actions)
      BY <2>1, <2>3 DEF ClientHistory
    <2>5. log[Server][i] = published[i].actions
      BY <1>1, <2>3 DEF HistoryInvariant, ServerHistory
    <2> QED
      BY <2>4, <2>5
  <1> QED
    BY <1>1, HistoryHolds, PTL

-----------------------------------------------------------------------------
(* An action is applied by the server once, and after the earlier ones of   *)
(* its player: a player has one request on its way at most, with what it    *)
(* has done in its last round, and plays the next round after its           *)
(* acknowledgement only.                                                    *)

\* A request has no action, or one of the last round of its player.
Alone(r) ==
    \/ r.actions = <<>>
    \/ \E a \in Action : /\ r.actions = <<a>>
                         /\ a.player = r.from /\ a.round = Len(log[r.from])

RequestsOnce ==
    /\ \A r1, r2 \in requests : r1.from = r2.from => r1 = r2
    /\ \A r \in requests : Alone(r)
    /\ \A c \in Pending : c \notin replies /\ cpc[c] \in {"ack", "dead"}
    /\ \A c \in replies : cpc[c] \in {"ack", "dead"}

\* An action that has left its player's socket: what the player may have there
\* now is of a later round.
Behind(a) ==
    /\ a.round <= Len(log[a.player])
    /\ a.player \in Pending => a.round < Len(log[a.player])

ReceivedOnce ==
    /\ Distinct(received)
    /\ \A a \in ToSet(received) : Behind(a)
    /\ Collecting => \A n \in 1 .. Len(published) :
         \A a \in ToSet(published[n].actions), b \in ToSet(received) :
             a.player = b.player => a.round < b.round

PublishedOnce ==
    /\ \A n \in 1 .. Len(published) :
         /\ Distinct(published[n].actions)
         /\ \A a \in ToSet(published[n].actions) : Behind(a) /\ a.round <= n
    /\ \A m, n \in 1 .. Len(published) : m < n =>
         \A a \in ToSet(published[m].actions), b \in ToSet(published[n].actions) :
             a.player = b.player => a.round < b.round

OnceInvariant == RequestsOnce /\ ReceivedOnce /\ PublishedOnce

LEMMA ItemsTyped ==
    ASSUME NEW S, NEW s \in Seq(S)
    PROVE  ToSet(s) \subseteq S
  BY LenProperties, ElementOfSeq DEF ToSet

LEMMA ActionsTyped ==
    ASSUME TypeOK
    PROVE  /\ received \in Seq(Action) /\ ToSet(received) \subseteq Action
           /\ \A n \in 1 .. Len(published) :
                 /\ published[n].actions \in Seq(Action)
                 /\ ToSet(published[n].actions) \subseteq Action
  <1>1. received \in Seq(Action)
    BY DEF TypeOK
  <1>2. ASSUME NEW n \in 1 .. Len(published)
        PROVE  published[n].actions \in Seq(Action)
    <2>1. published[n] \in [type : {"actions"}, actions : Seq(Action)]
      BY ElementOfSeq DEF TypeOK
    <2> QED
      BY <2>1
  <1> QED
    BY <1>1, <1>2, ItemsTyped

\* What is published is what had been received.
LEMMA NextPublished ==
    ASSUME TypeOK, Publish
    PROVE  /\ Len(published) \in Nat /\ Len(published') = Len(published) + 1
           /\ \A n \in 1 .. Len(published) : published'[n].actions = published[n].actions
           /\ published'[Len(published) + 1].actions = received
  <1> DEFINE message == ActionsMessage(received)
             Stream == [type : {"actions"}, actions : Seq(Action)]
  <1>1. message \in Stream /\ message.actions = received /\ published \in Seq(Stream)
    BY DEF TypeOK, ActionsMessage
  <1>2. published' = Append(published, message)
    BY DEF Publish, PushActions, Push
  <1> HIDE DEF message, Stream
  <1>3. PICK m \in Stream : m = message
    BY <1>1
  <1>4. published' = Append(published, m)
    BY <1>2, <1>3
  <1> QED
    BY <1>1, <1>3, <1>4, AppendProperties, LenProperties

LEMMA OnceInit ==
    ASSUME Init
    PROVE  OnceInvariant
  <1>1. requests = {} /\ replies = {} /\ published = <<>> /\ received = <<>> /\ Pending = {}
    BY DEF Init, SocketsInit, Pending
  <1>2. Len(<<>>) = 0 /\ DOMAIN <<>> = {} /\ ToSet(<<>>) = {} /\ 1 .. 0 = {}
    BY EmptySeq DEF ToSet
  <1>3. Distinct(received)
    BY <1>1, <1>2 DEF Distinct
  <1> QED
    BY <1>1, <1>2, <1>3 DEF OnceInvariant, RequestsOnce, ReceivedOnce, PublishedOnce

\* What has been received stays so when no client changes its round.
LEMMA OnceKept ==
    ASSUME TypeOK, ReceivedOnce, PublishedOnce,
           UNCHANGED <<published, received>>, Collecting' => Collecting,
           \A a \in Action : Behind(a) => Behind(a)'
    PROVE  ReceivedOnce' /\ PublishedOnce'
  <1>1. ReceivedOnce'
    <2>1. \A a \in ToSet(received) : Behind(a)'
      BY ActionsTyped DEF ReceivedOnce
    <2> QED
      BY <2>1 DEF ReceivedOnce
  <1>2. PublishedOnce'
    <2>1. \A n \in 1 .. Len(published) : \A a \in ToSet(published[n].actions) : Behind(a)'
      BY ActionsTyped DEF PublishedOnce
    <2> QED
      BY <2>1 DEF PublishedOnce
  <1> QED
    BY <1>1, <1>2

\* Behind is about the rounds of the clients and what is pending.
LEMMA StillBehind ==
    ASSUME Pending' \subseteq Pending, \A c \in Client : Len(log'[c]) = Len(log[c])
    PROVE  \A a \in Action : Behind(a) => Behind(a)'
  <1>1. \A a \in Action : a.player \in Client
    BY ClientFacts DEF Action
  <1> QED
    BY <1>1 DEF Behind

LEMMA OnceStart ==
    ASSUME HistoryInvariant, OnceInvariant, StartRound
    PROVE  OnceInvariant'
  <1> USE DEF OnceInvariant, HistoryInvariant
  <1>1. /\ UNCHANGED <<requests, replies, published, cpc>>
        /\ received' = <<>> /\ log' = [log EXCEPT ![Server] = OpenRound(@)]
    BY DEF StartRound, ClearActions, socketVars
  <1>2. \A c \in Client : log'[c] = log[c]
    BY <1>1, ProcFacts DEF TypeOK
  <1>3. Pending' = Pending /\ \A r \in requests : r.from \in Client
    BY <1>1 DEF Pending, TypeOK
  <1>4. \A a \in Action : Behind(a) => Behind(a)'
    BY <1>2, <1>3, StillBehind
  <1>5. RequestsOnce'
    BY <1>1, <1>2, <1>3 DEF RequestsOnce, Alone
  <1>6. ReceivedOnce'
    <2>1. DOMAIN <<>> = {} /\ ToSet(<<>>) = {}
      BY DEF ToSet
    <2> QED
      BY <1>1, <2>1 DEF ReceivedOnce, Distinct
  <1>7. PublishedOnce'
    <2>1. \A n \in 1 .. Len(published) : \A a \in ToSet(published[n].actions) : Behind(a)'
      BY <1>4, ActionsTyped DEF PublishedOnce
    <2> QED
      BY <1>1, <2>1 DEF PublishedOnce
  <1> QED
    BY <1>5, <1>6, <1>7

\* What the server receives is of a later round than all it has received of
\* the same player.
LEMMA OnceReceive ==
    ASSUME HistoryInvariant, OnceInvariant,
           ReceiveAnswer \/ ReceiveRevived \/ ReceiveSpectator
    PROVE  OnceInvariant'
  <1> USE DEF OnceInvariant, HistoryInvariant
  <1>1. /\ UNCHANGED <<published, cpc, log>> /\ Collecting
        /\ \E request \in requests : Collect(request)
    BY DEF ReceiveAnswer, ReceiveRevived, ReceiveSpectator, Collecting
  <1>2. PICK request \in requests : Collect(request)
    BY <1>1
  <1>3. /\ requests' = requests \ {request} /\ replies' = replies \union {request.from}
        /\ request.from \in Client /\ received' = received \o request.actions
    BY <1>2, CollectedTyped
  <1>4. /\ Pending' = Pending \ {request.from} /\ request.from \in Pending
        /\ cpc[request.from] \in {"ack", "dead"}
    BY <1>3 DEF Pending, RequestsOnce
  <1>5. \A a \in Action : Behind(a) => Behind(a)'
    BY <1>1, <1>4, StillBehind
  <1>6. RequestsOnce'
    <2>1. \A r \in requests' : Alone(r)'
      BY <1>1, <1>3 DEF RequestsOnce, Alone
    <2>2. \A c \in Pending' : c \notin replies' /\ cpc'[c] \in {"ack", "dead"}
      BY <1>1, <1>3, <1>4 DEF RequestsOnce
    <2>3. \A c \in replies' : cpc'[c] \in {"ack", "dead"}
      BY <1>1, <1>3, <1>4 DEF RequestsOnce
    <2>4. \A r1, r2 \in requests' : r1.from = r2.from => r1 = r2
      BY <1>3 DEF RequestsOnce
    <2> QED
      BY <2>1, <2>2, <2>3, <2>4 DEF RequestsOnce
  <1>7. PublishedOnce'
    <2>1. \A n \in 1 .. Len(published) : \A a \in ToSet(published[n].actions) : Behind(a)'
      BY <1>5, ActionsTyped DEF PublishedOnce
    <2> QED
      BY <1>1, <2>1 DEF PublishedOnce
  <1>8. ReceivedOnce'
    <2>1. received \in Seq(Action) /\ ToSet(received) \subseteq Action
      BY ActionsTyped
    <2>2. CASE request.actions = <<>>
      <3>1. received' = received
        BY <1>3, <2>1, <2>2, ConcatEmptySeq
      <3>2. \A a \in ToSet(received) : Behind(a)'
        BY <1>5, <2>1 DEF ReceivedOnce
      <3> QED
        BY <1>1, <3>1, <3>2 DEF ReceivedOnce
    <2>3. CASE request.actions # <<>>
      <3>1. PICK a \in Action : /\ request.actions = <<a>>
                                /\ a.player = request.from
                                /\ a.round = Len(log[request.from])
        BY <2>3 DEF RequestsOnce, Alone
      <3>2. received' = Append(received, a)
        BY <1>3, <2>1, <3>1, AppendIsConcat
      <3>3. Len(log[request.from]) \in Nat
        BY <1>3, ProcFacts, LenProperties DEF TypeOK
      <3>4. \A b \in Action : Behind(b) /\ b.player = a.player => b.round < a.round
        BY <1>4, <3>1 DEF Behind
      <3>5. a \notin ToSet(received)
        BY <2>1, <3>1, <3>3, <3>4 DEF ReceivedOnce
      <3>6. Distinct(received') /\ ToSet(received') = ToSet(received) \union {a}
        BY <2>1, <3>2, <3>5, DistinctAppend, ToSetAppend DEF ReceivedOnce
      <3>7. Behind(a)'
        BY <1>1, <1>4, <3>1, <3>3 DEF Behind
      <3>8. \A b \in ToSet(received') : Behind(b)'
        BY <1>5, <2>1, <3>6, <3>7 DEF ReceivedOnce
      <3>9. ASSUME NEW n \in 1 .. Len(published),
                   NEW d \in ToSet(published[n].actions), NEW b \in ToSet(received'),
                   d.player = b.player
            PROVE  d.round < b.round
        <4>1. CASE b \in ToSet(received)
          BY <1>1, <3>9, <4>1 DEF ReceivedOnce
        <4>2. CASE b = a
          <5>1. d \in Action /\ Behind(d)
            BY ActionsTyped DEF PublishedOnce
          <5> QED
            BY <3>4, <3>9, <4>2, <5>1
        <4> QED
          BY <3>6, <4>1, <4>2
      <3> QED
        BY <1>1, <3>6, <3>8, <3>9 DEF ReceivedOnce
    <2> QED
      BY <2>2, <2>3
  <1> QED
    BY <1>6, <1>7, <1>8

LEMMA OnceClose ==
    ASSUME HistoryInvariant, OnceInvariant, CloseCollection
    PROVE  OnceInvariant'
  <1> USE DEF OnceInvariant, HistoryInvariant
  <1>1. UNCHANGED <<requests, replies, published, cpc, received, log>> /\ Collecting
    BY DEF CloseCollection, socketVars, Collecting
  <1>2. Pending' = Pending
    BY <1>1 DEF Pending
  <1>3. \A a \in Action : Behind(a) => Behind(a)'
    BY <1>1, <1>2, StillBehind
  <1>4. RequestsOnce'
    BY <1>1, <1>2 DEF RequestsOnce, Alone
  <1> QED
    BY <1>1, <1>3, <1>4, OnceKept

\* A round is published: nothing in it is of a round to come.
LEMMA OncePublish ==
    ASSUME HistoryInvariant, OnceInvariant, Publish
    PROVE  OnceInvariant'
  <1> USE DEF OnceInvariant, HistoryInvariant
  <1>1. /\ UNCHANGED <<requests, replies, received, cpc>>
        /\ spc = "spectators" /\ spc' \in {"done", "round"}
        /\ log' = [log EXCEPT ![Server] = Applied(@, received)]
        /\ published' = Append(published, ActionsMessage(received))
    BY DEF Publish, PushActions, Push
  <1>2. \A c \in Client : log'[c] = log[c]
    BY <1>1, ProcFacts DEF TypeOK
  <1>3. Pending' = Pending /\ \A r \in requests : r.from \in Client
    BY <1>1 DEF Pending, TypeOK
  <1>4. \A a \in Action : Behind(a) => Behind(a)'
    BY <1>2, <1>3, StillBehind
  <1>5. RequestsOnce'
    BY <1>1, <1>2, <1>3 DEF RequestsOnce, Alone
  <1>6. ReceivedOnce'
    <2>1. \A a \in ToSet(received) : Behind(a)'
      BY <1>4, ActionsTyped DEF ReceivedOnce
    <2> QED
      BY <1>1, <2>1 DEF ReceivedOnce, Collecting
  <1>7. /\ Len(published) \in Nat /\ Len(published') = Len(published) + 1
        /\ \A n \in 1 .. Len(published) : published'[n].actions = published[n].actions
        /\ published'[Len(published) + 1].actions = received
    BY NextPublished
  <1>8. PublishedOnce'
    <2> DEFINE last == Len(published) + 1
    <2>1. ASSUME NEW a \in ToSet(received)
          PROVE  a.round <= last
      <3>1. a \in Action /\ Behind(a)
        BY ActionsTyped DEF ReceivedOnce
      <3>2. PICK c \in Client : c = a.player
        BY <3>1, ClientFacts DEF Action
      <3>3. ClientHistory(c) /\ cursor[c] \in Nat
        BY DEF TypeOK
      <3>4. Len(log[c]) <= last
        BY <1>7, <3>3 DEF ClientHistory
      <3>5. a.round \in Nat /\ a.round <= Len(log[c]) /\ Len(log[c]) \in Nat
        <4>1. Len(log[c]) \in Nat
          BY <3>3 DEF ClientHistory
        <4> QED
          BY <3>1, <3>2, <4>1, LimitAssumption DEF Behind, Action
      <3> QED
        BY <1>7, <3>4, <3>5
    <2>2. ASSUME NEW n \in 1 .. last
          PROVE  /\ Distinct(published'[n].actions)
                 /\ \A a \in ToSet(published'[n].actions) : Behind(a)' /\ a.round <= n
      <3>1. CASE n = last
        BY <1>4, <1>7, <2>1, <3>1, ActionsTyped DEF ReceivedOnce
      <3>2. CASE n # last
        <4>1. n \in 1 .. Len(published)
          BY <1>7, <3>2
        <4> QED
          BY <1>4, <1>7, <4>1, ActionsTyped DEF PublishedOnce
      <3> QED
        BY <3>1, <3>2
    <2>3. ASSUME NEW m \in 1 .. last, NEW n \in 1 .. last, m < n,
                 NEW a \in ToSet(published'[m].actions),
                 NEW b \in ToSet(published'[n].actions), a.player = b.player
          PROVE  a.round < b.round
      <3>1. m \in 1 .. Len(published) /\ published'[m].actions = published[m].actions
        BY <1>7, <2>3
      <3>2. CASE n = last
        BY <1>1, <1>7, <2>3, <3>1, <3>2 DEF ReceivedOnce, Collecting
      <3>3. CASE n # last
        <4>1. n \in 1 .. Len(published)
          BY <1>7, <3>3
        <4> QED
          BY <1>7, <2>3, <3>1, <4>1 DEF PublishedOnce
      <3> QED
        BY <3>2, <3>3
    <2> QED
      BY <1>7, <2>2, <2>3 DEF PublishedOnce
  <1> QED
    BY <1>5, <1>6, <1>8

\* A player sends what it has done in a round that is later than all the
\* server has had of it.
LEMMA OncePlay ==
    ASSUME HistoryInvariant, OnceInvariant, NEW c \in Client, PlayRound(c)
    PROVE  OnceInvariant'
  <1> USE DEF OnceInvariant, HistoryInvariant
  <1>1. PICK rounds \in Seq(Seq(Action)) : rounds = log[c]
    BY ProcFacts DEF TypeOK
  <1>2. /\ cpc[c] = "round" /\ cpc' = [cpc EXCEPT ![c] = "ack"]
        /\ UNCHANGED <<replies, published, cursor, serverVars>>
    BY DEF PlayRound
  <1>3. Len(rounds) \in Nat /\ Len(rounds) + 1 \in 1 .. Limit
    BY <1>1, <1>2, LenProperties, LimitAssumption DEF ClientHistory
  <1>4. PICK n \in 1 .. Limit : n = Len(rounds) + 1
    BY <1>3
  <1>5. PICK actions \in IF c \in Player THEN ChampionActions(c, n) ELSE {<<>>} :
           /\ SendActions(c, actions)
           /\ log' = [log EXCEPT ![c] = Applied(OpenRound(@), actions)]
    BY <1>1, <1>4 DEF PlayRound
  <1>6. /\ actions \in Seq(Action)
        /\ \/ actions = <<>>
           \/ \E a \in Action : actions = <<a>> /\ a.player = c /\ a.round = n
    BY PlayedActions
  <1>7. Len(log'[c]) = n
    <2>1. Len(Applied(OpenRound(rounds), actions)) = n
      BY <1>4, <1>6, PlayedRounds
    <2> QED
      BY <1>1, <1>5, <2>1, ProcFacts DEF TypeOK
  <1>8. \A d \in Client \ {c} : log'[d] = log[d] /\ cpc'[d] = cpc[d]
    BY <1>2, <1>5, ProcFacts DEF TypeOK
  <1>9. PICK request : request = [from |-> c, actions |-> actions]
    OBVIOUS
  <1>10. /\ requests' = requests \union {request} /\ request.from = c
         /\ request.actions = actions /\ Pending' = Pending \union {c}
    BY <1>5, <1>9 DEF SendActions, Pending
  <1>11. c \notin Pending /\ c \notin replies /\ cpc'[c] = "ack"
    BY <1>2 DEF RequestsOnce, TypeOK
  <1>12. RequestsOnce'
    <2>1. \A r \in requests : r.from \in Client \ {c}
      BY <1>11 DEF Pending, TypeOK
    <2>2. \A r \in requests : Alone(r)'
      BY <1>8, <2>1 DEF RequestsOnce, Alone
    <2>3. Alone(request)'
      BY <1>6, <1>7, <1>10 DEF Alone
    <2>4. \A d \in Pending' : d \notin replies' /\ cpc'[d] \in {"ack", "dead"}
      <3>1. \A d \in Pending : d \in Client \ {c}
        BY <1>11 DEF Pending, TypeOK
      <3> QED
        BY <1>2, <1>8, <1>10, <1>11, <3>1 DEF RequestsOnce
    <2>5. \A d \in replies' : cpc'[d] \in {"ack", "dead"}
      BY <1>2, <1>8, <1>11 DEF RequestsOnce, TypeOK
    <2>6. \A r1, r2 \in requests' : r1.from = r2.from => r1 = r2
      BY <1>10, <2>1 DEF RequestsOnce
    <2> QED
      BY <1>10, <2>2, <2>3, <2>4, <2>5, <2>6 DEF RequestsOnce
  <1>13. ASSUME NEW a \in Action, Behind(a)
         PROVE  Behind(a)'
    <2>1. a.player \in Client /\ a.round \in Nat
      BY ClientFacts, LimitAssumption DEF Action
    <2>2. CASE a.player = c
      BY <1>1, <1>3, <1>4, <1>7, <1>13, <2>1, <2>2 DEF Behind
    <2>3. CASE a.player # c
      BY <1>8, <1>10, <1>13, <2>1, <2>3 DEF Behind
    <2> QED
      BY <2>2, <2>3
  <1>14. ReceivedOnce' /\ PublishedOnce'
    BY <1>2, <1>13, OnceKept DEF serverVars, Collecting
  <1> QED
    BY <1>12, <1>14

\* The other steps of a client send nothing.
LEMMA OnceClient ==
    ASSUME HistoryInvariant, OnceInvariant, NEW c \in Client,
           Acknowledged(c) \/ PullRound(c) \/ Die(c)
    PROVE  OnceInvariant'
  <1> USE DEF OnceInvariant, HistoryInvariant
  <1>1. /\ UNCHANGED <<published, serverVars>>
        /\ requests' \subseteq requests /\ replies' \subseteq replies
        /\ \/ cpc[c] = "ack" /\ c \in replies /\ c \notin replies'
           \/ cpc[c] = "actions"
           \/ cpc'[c] = "dead"
        /\ \A d \in Client \ {c} : cpc'[d] = cpc[d]
    BY DEF Acknowledged, WaitForAck, PullRound, Die, TypeOK
  <1>2. \A d \in Client : Len(log'[d]) = Len(log[d])
    <2>1. CASE PullRound(c)
      BY <2>1, HistoryPull, ProcFacts
    <2>2. CASE Acknowledged(c) \/ Die(c)
      BY <2>2 DEF Acknowledged, Die
    <2> QED
      BY <2>1, <2>2
  <1>3. Pending' \subseteq Pending /\ \A r \in requests : r.from \in Client
    BY <1>1 DEF Pending, TypeOK
  <1>4. \A a \in Action : Behind(a) => Behind(a)'
    BY <1>2, <1>3, StillBehind
  <1>5. RequestsOnce'
    <2>1. \A r \in requests : Alone(r)'
      BY <1>2, <1>3 DEF RequestsOnce, Alone
    <2>2. \A d \in Pending' : d \in Client /\ d \notin replies' /\ cpc'[d] \in {"ack", "dead"}
      BY <1>1, <1>3 DEF RequestsOnce, Pending
    <2>3. \A d \in replies' : d \in Client /\ cpc'[d] \in {"ack", "dead"}
      BY <1>1 DEF RequestsOnce, TypeOK
    <2> QED
      BY <1>1, <2>1, <2>2, <2>3 DEF RequestsOnce
  <1>6. ReceivedOnce' /\ PublishedOnce'
    BY <1>1, <1>4, OnceKept DEF serverVars, Collecting
  <1> QED
    BY <1>5, <1>6

LEMMA OnceNext ==
    ASSUME HistoryInvariant, OnceInvariant, [Next]_vars
    PROVE  OnceInvariant'
  <1>1. CASE ServerStep
    BY <1>1, OnceStart, OnceReceive, OnceClose, OncePublish DEF ServerStep
  <1>2. CASE \E c \in Client : ClientStep(c) \/ Die(c)
    BY <1>2, OncePlay, OnceClient DEF ClientStep
  <1>3. CASE UNCHANGED vars
    BY <1>3 DEF vars, serverVars, socketVars, OnceInvariant, RequestsOnce, ReceivedOnce,
       PublishedOnce, Pending, Alone, Behind, Collecting
  <1> QED
    BY <1>1, <1>2, <1>3 DEF Next, Terminated

LEMMA OnceHolds == Spec => [](HistoryInvariant /\ OnceInvariant)
  <1>1. Init => OnceInvariant
    BY OnceInit
  <1>2. HistoryInvariant /\ OnceInvariant /\ [Next]_vars => OnceInvariant'
    BY OnceNext
  <1> QED
    BY <1>1, <1>2, HistoryHolds, PTL DEF Spec

\* Whatever the delays and the deaths, the server applies an action of a player
\* once, in the order in which they were played and never before its round: a
\* late answer is applied with a later round, and is neither lost nor repeated
\* there.
THEOREM ActionsAppliedOnce == Spec => []OncePerAction
  <1>1. ASSUME HistoryInvariant, OnceInvariant PROVE OncePerAction
    <2> USE <1>1 DEF OnceInvariant, HistoryInvariant
    <2>1. PICK rounds \in Seq(Seq(Action)) : rounds = log[Server]
      BY ProcFacts DEF TypeOK
    <2>2. /\ DOMAIN rounds = 1 .. Len(rounds) /\ Len(published) \in Nat
          /\ Len(rounds) \in {Len(published), Len(published) + 1}
      BY <2>1, LenProperties DEF ServerHistory, TypeOK
    <2>3. ASSUME NEW n \in 1 .. Len(rounds)
          PROVE  \/ n \in 1 .. Len(published) /\ rounds[n] = published[n].actions
                 \/ n \notin 1 .. Len(published) /\ rounds[n] = <<>>
      <3>1. CASE n \in 1 .. Len(published)
        BY <2>1, <3>1 DEF ServerHistory
      <3>2. CASE n \notin 1 .. Len(published)
        <4>1. n = Len(published) + 1 /\ Len(rounds) = n
          <5>1. PICK k \in Nat : k = Len(published)
            BY <2>2
          <5>2. PICK l \in Nat : l = Len(rounds)
            BY LenProperties
          <5>3. l = k \/ l = k + 1
            BY <2>2, <5>1, <5>2
          <5>4. n \in 1 .. l /\ n \notin 1 .. k
            BY <3>2, <5>1, <5>2
          <5>5. n = k + 1 /\ l = n
            BY <5>3, <5>4
          <5> QED
            BY <5>1, <5>2, <5>5
        <4>2. Collecting
          BY <2>1, <2>2, <4>1 DEF ServerHistory
        <4> QED
          BY <2>1, <3>2, <4>1, <4>2 DEF ServerHistory
      <3> QED
        BY <3>1, <3>2
    <2>4. ASSUME NEW n \in 1 .. Len(rounds), NEW a \in ToSet(rounds[n])
          PROVE  n \in 1 .. Len(published) /\ a \in ToSet(published[n].actions)
      <3>1. ToSet(<<>>) = {}
        BY DEF ToSet
      <3> QED
        BY <2>3, <2>4, <3>1
    <2>5. ASSUME NEW p \in Player,
                 NEW m \in 1 .. Len(rounds), NEW n \in 1 .. Len(rounds), m < n,
                 NEW x \in OwnRounds(rounds, p)[m], NEW y \in OwnRounds(rounds, p)[n]
          PROVE  x < y
      <3>1. PICK a \in ToSet(rounds[m]) : a.player = p /\ a.round = x
        BY <2>2 DEF OwnRounds
      <3>2. PICK b \in ToSet(rounds[n]) : b.player = p /\ b.round = y
        BY <2>2 DEF OwnRounds
      <3> QED
        BY <2>4, <2>5, <3>1, <3>2 DEF PublishedOnce
    <2>6. ASSUME NEW p \in Player, NEW n \in 1 .. Len(rounds),
                 NEW x \in OwnRounds(rounds, p)[n]
          PROVE  x <= n
      <3>1. PICK a \in ToSet(rounds[n]) : a.player = p /\ a.round = x
        BY <2>2 DEF OwnRounds
      <3> QED
        BY <2>4, <3>1 DEF PublishedOnce
    <2>7. ASSUME NEW n \in 1 .. Len(rounds)
          PROVE  Len(rounds[n]) = Cardinality(ToSet(rounds[n]))
      <3>1. PICK s \in Seq(Action) : s = rounds[n]
        BY ElementOfSeq
      <3>2. Distinct(s)
        <4>1. CASE s = <<>>
          <5>1. DOMAIN <<>> = {}
            OBVIOUS
          <5> QED
            BY <4>1, <5>1 DEF Distinct
        <4>2. CASE s # <<>>
          <5>1. n \in 1 .. Len(published) /\ s = published[n].actions
            BY <2>3, <3>1, <4>2
          <5> QED
            BY <5>1 DEF PublishedOnce
        <4> QED
          BY <4>1, <4>2
      <3> QED
        BY <3>1, <3>2, DistinctLength
    <2>8. \A p \in Player : DOMAIN OwnRounds(rounds, p) = 1 .. Len(rounds)
      BY <2>2 DEF OwnRounds
    <2> QED
      BY <2>1, <2>5, <2>6, <2>7, <2>8 DEF OncePerAction
  <1> QED
    BY <1>1, OnceHolds, PTL

-----------------------------------------------------------------------------
(* The rounds themselves, when no player is slow: what a client has played  *)
(* in the open round is in its request, then in the buffer of the server,   *)
(* then in the round that is published, and it is there alone.              *)

Own(c, s) == {a \in ToSet(s) : a.player = c}

SameRounds(c) ==
    /\ \A i \in 1 .. cursor[c] : ToSet(log[c][i]) = ToSet(published[i].actions)
    /\ \A i \in 1 .. Len(log[c]) : Distinct(log[c][i])

Sent(c) ==
    /\ \A r \in requests : r.from = c => r.actions = log[c][cursor[c] + 1]
    /\ cpc[c] \in {"ack", "actions"} /\ c \notin Pending /\ cursor[c] = Len(published) =>
          Collecting /\ Own(c, received) = ToSet(log[c][cursor[c] + 1])
    /\ cpc[c] \in {"ack", "actions"} /\ cursor[c] < Len(published) =>
          Own(c, published[cursor[c] + 1].actions) = ToSet(log[c][cursor[c] + 1])
    /\ Collecting /\ Own(c, received) # {} =>
          c \notin Pending /\ cpc[c] \in {"ack", "actions"} /\ cursor[c] = Len(published)

StepInvariant == \A c \in Client : cpc[c] # "dead" => SameRounds(c) /\ Sent(c)

PunctualInvariant ==
    HistoryInvariant /\ OnceInvariant /\ BarrierInvariant /\ StepInvariant

LEMMA StepInit ==
    ASSUME Init
    PROVE  StepInvariant
  <1> SUFFICES ASSUME NEW c \in Client PROVE SameRounds(c) /\ Sent(c)
    BY DEF StepInvariant
  <1>1. /\ requests = {} /\ received = <<>> /\ cpc[c] = "round"
        /\ log[c] = <<>> /\ cursor[c] = 0
    BY ProcFacts DEF Init, SocketsInit
  <1>2. Len(<<>>) = 0 /\ ToSet(<<>>) = {} /\ 1 .. 0 = {}
    BY EmptySeq DEF ToSet
  <1>3. Own(c, received) = {}
    BY <1>1, <1>2 DEF Own
  <1> QED
    BY <1>1, <1>2, <1>3 DEF SameRounds, Sent

\* Two lists one after the other.
LEMMA ToSetConcat ==
    ASSUME NEW S, NEW s \in Seq(S), NEW t \in Seq(S)
    PROVE  ToSet(s \o t) = ToSet(s) \union ToSet(t)
  <1> DEFINE Q == {u \in Seq(S) : ToSet(s \o u) = ToSet(s) \union ToSet(u)}
  <1>1. <<>> \in Q
    <2>1. s \o <<>> = s /\ <<>> \in Seq(S) /\ ToSet(<<>>) = {}
      BY EmptySeq, ConcatEmptySeq DEF ToSet
    <2> QED
      BY <2>1
  <1>2. ASSUME NEW u \in Seq(S), NEW a \in S, u \in Q PROVE Append(u, a) \in Q
    <2>1. Append(u, a) \in Seq(S) /\ ToSet(Append(u, a)) = ToSet(u) \union {a}
      BY AppendProperties, ToSetAppend
    <2>2. PICK v \in Seq(S) : v = s \o u
      BY ConcatProperties
    <2>3. s \o Append(u, a) = Append(v, a)
      BY <2>2, ConcatAppend
    <2>4. ToSet(Append(v, a)) = ToSet(v) \union {a}
      BY ToSetAppend
    <2> QED
      BY <1>2, <2>1, <2>2, <2>3, <2>4
  <1>3. Seq(S) \subseteq Q
    <2> HIDE DEF Q
    <2> QED
      BY <1>1, <1>2, ListInduction
  <1> QED
    BY <1>3

LEMMA DistinctConcat ==
    ASSUME NEW S, NEW s \in Seq(S), NEW t \in Seq(S),
           Distinct(s), Distinct(t), ToSet(s) \cap ToSet(t) = {}
    PROVE  Distinct(s \o t)
  <1> DEFINE Q == {u \in Seq(S) : Distinct(u) /\ ToSet(s) \cap ToSet(u) = {}
                                      => Distinct(s \o u)}
  <1>1. <<>> \in Q
    BY EmptySeq, ConcatEmptySeq
  <1>2. ASSUME NEW u \in Seq(S), NEW a \in S, u \in Q PROVE Append(u, a) \in Q
    <2>1. Append(u, a) \in Seq(S) /\ ToSet(Append(u, a)) = ToSet(u) \union {a}
      BY AppendProperties, ToSetAppend
    <2>2. PICK v \in Seq(S) : v = s \o u
      BY ConcatProperties
    <2>3. s \o Append(u, a) = Append(v, a)
      BY <2>2, ConcatAppend
    <2> SUFFICES ASSUME Distinct(Append(u, a)), ToSet(s) \cap ToSet(Append(u, a)) = {}
                 PROVE  Distinct(Append(v, a))
      BY <2>1, <2>3
    <2>4. Distinct(u) /\ a \notin ToSet(u)
      BY DistinctAppend
    <2>5. Distinct(v) /\ a \notin ToSet(s)
      BY <1>2, <2>1, <2>2, <2>4
    <2>6. ToSet(v) = ToSet(s) \union ToSet(u)
      BY <2>2, ToSetConcat
    <2> QED
      BY <2>4, <2>5, <2>6, DistinctAppend
  <1>3. Seq(S) \subseteq Q
    <2> HIDE DEF Q
    <2> QED
      BY <1>1, <1>2, ListInduction
  <1> QED
    BY <1>3

LEMMA StepStart ==
    ASSUME PunctualInvariant, StartRound
    PROVE  StepInvariant'
  <1> USE DEF PunctualInvariant, HistoryInvariant
  <1> SUFFICES ASSUME NEW c \in Client, cpc'[c] # "dead"
               PROVE  SameRounds(c)' /\ Sent(c)'
    BY DEF StepInvariant
  <1>1. /\ UNCHANGED <<requests, published, cursor, cpc>>
        /\ received' = <<>> /\ log' = [log EXCEPT ![Server] = OpenRound(@)]
        /\ ~Collecting
    BY DEF StartRound, ClearActions, socketVars, Collecting
  <1>2. log'[c] = log[c] /\ Pending' = Pending
    BY <1>1, ProcFacts DEF TypeOK, Pending
  <1>3. SameRounds(c) /\ Sent(c)
    BY <1>1 DEF StepInvariant
  <1>4. Own(c, received') = {}
    BY <1>1 DEF Own, ToSet
  <1>5. SameRounds(c)'
    BY <1>1, <1>2, <1>3 DEF SameRounds
  <1>6. Sent(c)'
    BY <1>1, <1>2, <1>3, <1>4 DEF Sent
  <1> QED
    BY <1>5, <1>6

LEMMA StepReceive ==
    ASSUME PunctualInvariant, ReceiveAnswer \/ ReceiveRevived \/ ReceiveSpectator
    PROVE  StepInvariant'
  <1> USE DEF PunctualInvariant, HistoryInvariant, OnceInvariant
  <1> SUFFICES ASSUME NEW c \in Client, cpc'[c] # "dead"
               PROVE  SameRounds(c)' /\ Sent(c)'
    BY DEF StepInvariant
  <1>1. /\ UNCHANGED <<published, cursor, cpc, log>> /\ Collecting /\ Collecting'
        /\ \E request \in requests : Collect(request)
    BY DEF ReceiveAnswer, ReceiveRevived, ReceiveSpectator, Collecting
  <1>2. PICK request \in requests : Collect(request)
    BY <1>1
  <1>3. /\ requests' = requests \ {request} /\ request.actions \in Seq(Action)
        /\ received' = received \o request.actions /\ received \in Seq(Action)
    BY <1>2, CollectedTyped, ActionsTyped
  <1>4. Pending' = Pending \ {request.from} /\ request.from \in Pending
    BY <1>3 DEF Pending, RequestsOnce
  <1>5. SameRounds(c) /\ Sent(c) /\ ClientHistory(c)
    BY <1>1 DEF StepInvariant
  <1>6. \A a \in ToSet(request.actions) : a.player = request.from
    <2>1. CASE request.actions = <<>>
      BY <2>1 DEF ToSet
    <2>2. CASE request.actions # <<>>
      BY <2>2 DEF RequestsOnce, Alone, ToSet
    <2> QED
      BY <2>1, <2>2
  <1>7. ToSet(received') = ToSet(received) \union ToSet(request.actions)
    BY <1>3, ToSetConcat
  <1>8. SameRounds(c)'
    BY <1>1, <1>5 DEF SameRounds
  <1>9. Sent(c)'
    <2>1. CASE c = request.from
      <3>1. /\ cpc[c] = "ack" /\ cursor[c] = Len(published) /\ c \in Pending
        BY <1>1, <1>2, <1>4, <2>1, Received
      <3>2. Own(c, received) = {}
        BY <1>1, <1>5, <3>1 DEF Sent
      <3>3. request.actions = log[c][cursor[c] + 1]
        BY <1>5, <2>1 DEF Sent
      <3>4. Own(c, received') = ToSet(request.actions)
        BY <1>6, <1>7, <2>1, <3>2 DEF Own
      <3> QED
        BY <1>1, <1>3, <1>4, <1>5, <2>1, <3>1, <3>3, <3>4 DEF Sent
    <2>2. CASE c # request.from
      <3>1. Own(c, received') = Own(c, received) /\ (c \in Pending' <=> c \in Pending)
        BY <1>4, <1>6, <1>7, <2>2 DEF Own
      <3> QED
        BY <1>1, <1>3, <1>5, <3>1 DEF Sent
    <2> QED
      BY <2>1, <2>2
  <1> QED
    BY <1>8, <1>9

LEMMA StepClose ==
    ASSUME PunctualInvariant, CloseCollection
    PROVE  StepInvariant'
  <1> SUFFICES ASSUME NEW c \in Client, cpc'[c] # "dead"
               PROVE  SameRounds(c)' /\ Sent(c)'
    BY DEF StepInvariant
  <1>1. /\ UNCHANGED <<requests, published, cursor, cpc, received, log>>
        /\ Collecting /\ Collecting'
    BY DEF CloseCollection, socketVars, Collecting
  <1>2. SameRounds(c) /\ Sent(c)
    BY <1>1 DEF PunctualInvariant, StepInvariant
  <1> QED
    BY <1>1, <1>2 DEF SameRounds, Sent, Pending

LEMMA StepPublish ==
    ASSUME PunctualInvariant, Publish
    PROVE  StepInvariant'
  <1> USE DEF PunctualInvariant, HistoryInvariant
  <1> SUFFICES ASSUME NEW c \in Client, cpc'[c] # "dead"
               PROVE  SameRounds(c)' /\ Sent(c)'
    BY DEF StepInvariant
  <1>1. /\ UNCHANGED <<requests, received, cursor, cpc>> /\ Collecting /\ ~Collecting'
        /\ log' = [log EXCEPT ![Server] = Applied(@, received)]
        /\ published' = Append(published, ActionsMessage(received))
    BY DEF Publish, PushActions, Push, Collecting
  <1>2. log'[c] = log[c] /\ Pending' = Pending
    BY <1>1, ProcFacts DEF TypeOK, Pending
  <1>3. SameRounds(c) /\ Sent(c) /\ ClientHistory(c) /\ cursor[c] \in Nat
    BY <1>1 DEF StepInvariant, TypeOK
  <1>4. /\ Pending = {} /\ requests = {}
        /\ Gone(c) \/ (cpc[c] \in {"ack", "actions"} /\ cursor[c] = Len(published))
    BY EverybodyHeard DEF Pending
  <1>5. /\ Len(published) \in Nat /\ Len(published') = Len(published) + 1
        /\ \A n \in 1 .. Len(published) : published'[n].actions = published[n].actions
        /\ published'[Len(published) + 1].actions = received
    BY NextPublished
  <1>6. SameRounds(c)'
    <2>1. \A i \in 1 .. cursor[c] : i \in 1 .. Len(published)
      BY <1>3, <1>5 DEF ClientHistory
    <2> QED
      BY <1>1, <1>2, <1>3, <1>5, <2>1 DEF SameRounds
  <1>7. Sent(c)'
    <2>1. cursor'[c] < Len(published')
      BY <1>1, <1>3, <1>5 DEF ClientHistory
    <2>2. ASSUME cpc'[c] \in {"ack", "actions"}
          PROVE  Own(c, published'[cursor'[c] + 1].actions) = ToSet(log'[c][cursor'[c] + 1])
      <3>1. cpc[c] \in {"ack", "actions"} /\ cursor[c] = Len(published) /\ c \notin Pending
        BY <1>1, <1>4, <2>2 DEF Gone
      <3>2. Own(c, received) = ToSet(log[c][cursor[c] + 1])
        BY <1>3, <3>1 DEF Sent
      <3> QED
        BY <1>1, <1>2, <1>5, <3>1, <3>2
    <2>3. ~(cursor'[c] = Len(published'))
      BY <1>5, <2>1, <1>1, <1>3
    <2> QED
      BY <1>1, <1>4, <2>1, <2>2, <2>3 DEF Sent
  <1> QED
    BY <1>6, <1>7

\* A step of a client leaves the others as they are.
LEMMA StepOthers ==
    ASSUME PunctualInvariant, NEW c \in Client,
           UNCHANGED <<published, serverVars>>,
           \A r \in requests \union requests' : r.from # c => r \in requests /\ r \in requests',
           \A d \in Client \ {c} : /\ cpc'[d] = cpc[d] /\ cursor'[d] = cursor[d]
                                   /\ log'[d] = log[d],
           cpc'[c] # "dead" => SameRounds(c)' /\ Sent(c)'
    PROVE  StepInvariant'
  <1> SUFFICES ASSUME NEW d \in Client, cpc'[d] # "dead"
               PROVE  SameRounds(d)' /\ Sent(d)'
    BY DEF StepInvariant
  <1>1. CASE d = c
    BY <1>1
  <1>2. CASE d # c
    <2>1. /\ cpc'[d] = cpc[d] /\ cursor'[d] = cursor[d] /\ log'[d] = log[d]
          /\ published' = published /\ received' = received
          /\ (Collecting' <=> Collecting)
      BY <1>2 DEF serverVars, Collecting
    <2>2. d \in Pending' <=> d \in Pending
      BY <1>2 DEF Pending
    <2>3. SameRounds(d) /\ Sent(d)
      BY <2>1 DEF PunctualInvariant, StepInvariant
    <2>4. SameRounds(d)'
      BY <2>1, <2>3 DEF SameRounds
    <2>5. \A r \in requests' : r.from = d => r.actions = log[d][cursor[d] + 1]
      BY <1>2, <2>3 DEF Sent
    <2>6. Sent(d)'
      BY <2>1, <2>2, <2>3, <2>5 DEF Sent
    <2> QED
      BY <2>4, <2>6
  <1> QED
    BY <1>1, <1>2

LEMMA StepPlay ==
    ASSUME PunctualInvariant, NEW c \in Client, PlayRound(c)
    PROVE  StepInvariant'
  <1> USE DEF PunctualInvariant, HistoryInvariant, OnceInvariant
  <1>1. PICK rounds \in Seq(Seq(Action)) : rounds = log[c]
    BY ProcFacts DEF TypeOK
  <1>2. /\ cpc[c] = "round" /\ cpc' = [cpc EXCEPT ![c] = "ack"]
        /\ UNCHANGED <<replies, published, cursor, serverVars>>
    BY DEF PlayRound
  <1>3. Len(rounds) \in Nat /\ Len(rounds) + 1 \in 1 .. Limit /\ Len(rounds) = cursor[c]
    BY <1>1, <1>2, LenProperties, LimitAssumption DEF ClientHistory
  <1>4. PICK n \in 1 .. Limit : n = Len(rounds) + 1
    BY <1>3
  <1>5. PICK actions \in IF c \in Player THEN ChampionActions(c, n) ELSE {<<>>} :
           /\ SendActions(c, actions)
           /\ log' = [log EXCEPT ![c] = Applied(OpenRound(@), actions)]
    BY <1>1, <1>4 DEF PlayRound
  <1>6. /\ actions \in Seq(Action)
        /\ \/ actions = <<>>
           \/ \E a \in Action : actions = <<a>> /\ a.player = c /\ a.round = n
    BY PlayedActions
  <1>7. PICK after \in Seq(Seq(Action)) :
           /\ after = Applied(OpenRound(rounds), actions)
           /\ Len(after) = Len(rounds) + 1
           /\ \A i \in 1 .. Len(rounds) : after[i] = rounds[i]
           /\ after[Len(rounds) + 1] = actions
    BY <1>6, PlayedRounds
  <1>8. /\ log'[c] = after /\ cpc'[c] = "ack" /\ cursor'[c] = cursor[c]
        /\ \A d \in Client \ {c} : /\ cpc'[d] = cpc[d] /\ cursor'[d] = cursor[d]
                                   /\ log'[d] = log[d]
    BY <1>1, <1>2, <1>5, <1>7, ProcFacts DEF TypeOK
  <1>9. PICK request : request = [from |-> c, actions |-> actions]
    OBVIOUS
  <1>10. /\ requests' = requests \union {request} /\ request.from = c
         /\ request.actions = actions /\ c \in Pending'
    BY <1>5, <1>9 DEF SendActions, Pending
  <1>11. c \notin Pending /\ \A r \in requests : r.from # c
    BY <1>2 DEF RequestsOnce, Pending
  <1>12. SameRounds(c) /\ Sent(c)
    BY <1>2 DEF StepInvariant
  <1>13. SameRounds(c)'
    <2>1. Distinct(actions)
      BY <1>6 DEF Distinct
    <2>2. ASSUME NEW i \in 1 .. Len(after)
          PROVE  Distinct(after[i])
      <3>1. CASE i = Len(rounds) + 1
        BY <1>7, <2>1, <3>1
      <3>2. CASE i # Len(rounds) + 1
        <4>1. i \in 1 .. Len(rounds)
          BY <1>3, <1>7, <3>2
        <4> QED
          BY <1>1, <1>7, <1>12, <4>1 DEF SameRounds
      <3> QED
        BY <3>1, <3>2
    <2>3. \A i \in 1 .. cursor[c] : after[i] = rounds[i]
      BY <1>3, <1>7
    <2> QED
      BY <1>1, <1>2, <1>8, <1>12, <2>2, <2>3 DEF SameRounds
  <1>14. Sent(c)'
    <2>1. \A r \in requests' : r.from = c => r.actions = log'[c][cursor'[c] + 1]
      BY <1>3, <1>7, <1>8, <1>10, <1>11
    <2>2. ~(cursor'[c] < Len(published'))
      BY <1>2, <1>3, <1>8 DEF BarrierInvariant, ClientInRound
    <2>3. ~(Collecting' /\ Own(c, received') # {})
      BY <1>2, <1>12 DEF Sent, serverVars, Collecting
    <2> QED
      BY <1>10, <2>1, <2>2, <2>3 DEF Sent
  <1>15. \A r \in requests \union requests' : r.from # c => r \in requests /\ r \in requests'
    BY <1>10
  <1> QED
    BY <1>2, <1>8, <1>13, <1>14, <1>15, StepOthers

LEMMA StepAck ==
    ASSUME PunctualInvariant, NEW c \in Client, Acknowledged(c) \/ Die(c)
    PROVE  StepInvariant'
  <1> USE DEF PunctualInvariant, HistoryInvariant
  <1>1. /\ UNCHANGED <<published, cursor, log, serverVars>>
        /\ \A r \in requests \union requests' :
              r.from # c => r \in requests /\ r \in requests'
        /\ \A d \in Client \ {c} : cpc'[d] = cpc[d]
        /\ \/ cpc'[c] = "dead"
           \/ cpc[c] = "ack" /\ cpc'[c] = "actions" /\ requests' = requests
    BY DEF Acknowledged, Die, TypeOK
  <1>2. ASSUME cpc'[c] # "dead"
        PROVE  SameRounds(c)' /\ Sent(c)'
    <2>1. SameRounds(c) /\ Sent(c)
      BY <1>1, <1>2 DEF StepInvariant
    <2>2. SameRounds(c)'
      BY <1>1, <2>1 DEF SameRounds
    <2>3. Sent(c)'
      BY <1>1, <1>2, <2>1 DEF Sent, serverVars, Collecting, Pending
    <2> QED
      BY <2>2, <2>3
  <1> QED
    BY <1>1, <1>2, StepOthers

LEMMA StepPull ==
    ASSUME PunctualInvariant, NEW c \in Client, PullRound(c)
    PROVE  StepInvariant'
  <1> USE DEF PunctualInvariant, HistoryInvariant, OnceInvariant
  <1>1. PICK k \in 1 .. Len(published) : \E own \in Seq(Action) :
           LET message == published[k].actions IN
           /\ k = cursor[c] + 1 /\ Len(log[c]) = k /\ own = log[c][k]
           /\ message \in Seq(Action)
           /\ \A a \in ToSet(own) : a.player = c
           /\ cursor'[c] = k /\ Len(log'[c]) = k
           /\ log'[c][k] = own \o Foreign(c, message)
           /\ \A i \in 1 .. cursor[c] : log'[c][i] = log[c][i]
           /\ \A d \in Proc \ {c} : log'[d] = log[d]
           /\ \A d \in Client \ {c} : cpc'[d] = cpc[d] /\ cursor'[d] = cursor[d]
           /\ cpc'[c] \in {"done", "round"}
    BY HistoryPull
  <1>2. PICK message \in Seq(Action) : message = published[k].actions
    BY <1>1
  <1>3. PICK own \in Seq(Action) :
           /\ k = cursor[c] + 1 /\ Len(log[c]) = k /\ own = log[c][k]
           /\ \A a \in ToSet(own) : a.player = c
           /\ cursor'[c] = k /\ Len(log'[c]) = k
           /\ log'[c][k] = own \o Foreign(c, message)
           /\ \A i \in 1 .. cursor[c] : log'[c][i] = log[c][i]
    BY <1>1, <1>2
  <1>4. /\ cpc[c] = "actions" /\ UNCHANGED <<requests, published, serverVars>>
    BY DEF PullRound
  <1>5. /\ \A d \in Client \ {c} : cpc'[d] = cpc[d] /\ cursor'[d] = cursor[d]
        /\ \A d \in Client \ {c} : log'[d] = log[d]
        /\ cpc'[c] \in {"done", "round"}
    BY <1>1, ProcFacts
  <1>6. SameRounds(c) /\ Sent(c) /\ cursor[c] \in Nat /\ cursor[c] < Len(published)
    BY <1>4 DEF StepInvariant, PullRound, Pull, CanPull, TypeOK
  <1>7. Own(c, message) = ToSet(own)
    BY <1>2, <1>3, <1>4, <1>6 DEF Sent
  <1>8. PICK kept \in Seq(Action) : kept = Foreign(c, message)
    BY ForeignActions
  <1>9. ToSet(kept) = {a \in ToSet(message) : a.player # c}
    BY <1>8, ForeignActions
  <1>10. ToSet(own \o kept) = ToSet(message)
    <2>1. ToSet(own \o kept) = ToSet(own) \union ToSet(kept)
      BY ToSetConcat
    <2> QED
      BY <1>7, <1>9, <2>1 DEF Own
  <1>11. Distinct(own \o kept)
    <2>1. Distinct(own)
      <3>1. k \in 1 .. Len(log[c])
        BY <1>3, <1>6
      <3> QED
        BY <1>3, <1>6, <3>1 DEF SameRounds
    <2>2. Distinct(message)
      BY <1>2 DEF PublishedOnce
    <2>3. Distinct(kept)
      BY <1>8, <2>2, ForeignDistinct
    <2>4. ToSet(own) \cap ToSet(kept) = {}
      BY <1>3, <1>9
    <2> QED
      BY <2>1, <2>3, <2>4, DistinctConcat
  <1>12. SameRounds(c)'
    <2>1. ASSUME NEW i \in 1 .. k
          PROVE  ToSet(log'[c][i]) = ToSet(published[i].actions) /\ Distinct(log'[c][i])
      <3>1. CASE i = k
        BY <1>2, <1>3, <1>8, <1>10, <1>11, <3>1
      <3>2. CASE i # k
        <4>1. i \in 1 .. cursor[c] /\ i \in 1 .. Len(log[c])
          BY <1>3, <1>6, <3>2
        <4> QED
          BY <1>3, <1>6, <4>1 DEF SameRounds
      <3> QED
        BY <3>1, <3>2
    <2> QED
      BY <1>3, <1>4, <2>1 DEF SameRounds
  <1>13. Sent(c)'
    <2>1. c \notin Pending /\ \A r \in requests : r.from # c
      BY <1>4 DEF RequestsOnce, Pending
    <2>2. ~(Collecting' /\ Own(c, received') # {})
      BY <1>4, <1>6 DEF Sent, serverVars, Collecting
    <2>3. cpc'[c] \notin {"ack", "actions"}
      BY <1>5
    <2> QED
      BY <1>4, <2>1, <2>2, <2>3 DEF Sent
  <1> QED
    BY <1>4, <1>5, <1>12, <1>13, StepOthers

LEMMA StepNext ==
    ASSUME PunctualInvariant, [Next]_vars
    PROVE  StepInvariant'
  <1>1. CASE ServerStep
    BY <1>1, StepStart, StepReceive, StepClose, StepPublish DEF ServerStep
  <1>2. CASE \E c \in Client : ClientStep(c) \/ Die(c)
    BY <1>2, StepPlay, StepAck, StepPull DEF ClientStep
  <1>3. CASE UNCHANGED vars
    BY <1>3 DEF vars, serverVars, socketVars, PunctualInvariant, StepInvariant,
       SameRounds, Sent, Pending, Collecting
  <1> QED
    BY <1>1, <1>2, <1>3 DEF Next, Terminated

LEMMA PunctualHolds ==
    ASSUME Slow = {}
    PROVE  Spec => []PunctualInvariant
  <1>1. Init => StepInvariant
    BY StepInit
  <1>2. PunctualInvariant /\ [Next]_vars => StepInvariant'
    BY StepNext
  <1>3. PunctualInvariant <=>
            /\ HistoryInvariant /\ OnceInvariant /\ BarrierInvariant /\ StepInvariant
    BY DEF PunctualInvariant
  <1> QED
    BY <1>1, <1>2, <1>3, OnceHolds, BarrierHolds, PTL DEF Spec

\* In a round it has completed a client has applied what the server has, its
\* own actions included and each of them once: those it has played have
\* reached the server in that very round, and it does not apply them again.
THEOREM ConsistentRounds ==
    ASSUME Slow = {}
    PROVE  Spec => []RoundsAgree
  <1>1. ASSUME PunctualInvariant PROVE RoundsAgree
    <2> USE <1>1 DEF PunctualInvariant, HistoryInvariant, OnceInvariant
    <2> SUFFICES ASSUME NEW c \in Client, cpc[c] # "dead"
                 PROVE  /\ Complete(c) <= Len(published)
                        /\ \A i \in 1 .. Complete(c) : SameActions(log[c][i], log[Server][i])
      BY DEF RoundsAgree
    <2>1. /\ ClientHistory(c) /\ SameRounds(c) /\ cursor[c] \in Nat /\ Len(published) \in Nat
          /\ cpc[c] \in {"round", "ack", "actions", "done", "dead"}
      BY LenProperties DEF StepInvariant, TypeOK
    <2>2. Complete(c) \in Int /\ Complete(c) = cursor[c] /\ cursor[c] <= Len(published)
      BY <2>1 DEF ClientHistory, Complete
    <2>3. ASSUME NEW i \in 1 .. cursor[c]
          PROVE  SameActions(log[c][i], log[Server][i])
      <3>1. i \in 1 .. Len(published) /\ i \in 1 .. Len(log[c])
        BY <2>1, <2>2 DEF ClientHistory
      <3>2. PICK s \in Seq(Action) : s = log[c][i]
        <4>1. log[c] \in Seq(Seq(Action))
          BY ProcFacts DEF TypeOK
        <4> QED
          BY <3>1, <4>1, ElementOfSeq
      <3>3. PICK t \in Seq(Action) : t = published[i].actions
        BY <3>1, ActionsTyped
      <3>4. log[Server][i] = t
        BY <3>1, <3>3 DEF ServerHistory
      <3>5. ToSet(s) = ToSet(t) /\ Distinct(s) /\ Distinct(t)
        BY <2>1, <3>1, <3>2, <3>3 DEF SameRounds, PublishedOnce
      <3>6. Len(s) = Cardinality(ToSet(s)) /\ Len(t) = Cardinality(ToSet(t))
        BY <3>5, DistinctLength
      <3> QED
        BY <3>2, <3>4, <3>5, <3>6 DEF SameActions
    <2> QED
      BY <2>2, <2>3
  <1> QED
    BY <1>1, PunctualHolds, PTL

-----------------------------------------------------------------------------
(* The refinement of Rounds. The dead count as well: what reaches the        *)
(* server of a client that has died since is what it had chosen in the open  *)
(* round. And no client has left the loop before the server.                 *)

DealInvariant ==
    /\ \A r \in requests : /\ Len(log[r.from]) = Len(published) + 1
                           /\ r.actions = log[r.from][Len(published) + 1]
    /\ Collecting => \A c \in Client : Own(c, received) # {} =>
          /\ Len(log[c]) = Len(published) + 1
          /\ Own(c, received) = ToSet(log[c][Len(published) + 1])
    /\ spc # "done" =>
          /\ Len(published) < Limit
          /\ \A i \in 1 .. Len(published) : \A a \in ToSet(published[i].actions) : ~a.ends
    /\ \A c \in Client : cpc[c] = "done" => spc = "done"

LEMMA DealInit ==
    ASSUME Init
    PROVE  DealInvariant
  <1>1. /\ requests = {} /\ published = <<>> /\ spc = "round"
        /\ cpc = [c \in Client |-> "round"]
    BY DEF Init, SocketsInit
  <1>2. Len(<<>>) = 0 /\ 1 .. 0 = {}
    BY EmptySeq
  <1> QED
    BY <1>1, <1>2, LimitAssumption DEF DealInvariant, Collecting

\* What the server does before it publishes.
LEMMA DealServer ==
    ASSUME PunctualInvariant, DealInvariant, ServerStep, ~Publish
    PROVE  DealInvariant'
  <1> USE DEF PunctualInvariant, HistoryInvariant, OnceInvariant
  <1>1. /\ UNCHANGED <<published, cpc>> /\ \A c \in Client : log'[c] = log[c]
        /\ spc # "done" /\ spc' # "done"
    BY ProcFacts DEF ServerStep, StartRound, ReceiveAnswer, ReceiveRevived, CloseCollection,
       ReceiveSpectator, TypeOK, socketVars
  <1>2. \A r \in requests : r.from \in Client
    BY DEF TypeOK
  <1>3. requests' \subseteq requests
    <2>1. CASE StartRound \/ CloseCollection
      BY <2>1 DEF StartRound, CloseCollection, socketVars
    <2>2. CASE ReceiveAnswer \/ ReceiveRevived \/ ReceiveSpectator
      BY <2>2 DEF ReceiveAnswer, ReceiveRevived, ReceiveSpectator, Collect, RecvAndAck
    <2> QED
      BY <2>1, <2>2 DEF ServerStep
  <1>4. Collecting' => \A c \in Client : Own(c, received') # {} =>
            /\ Len(log[c]) = Len(published) + 1
            /\ Own(c, received') = ToSet(log[c][Len(published) + 1])
    <2>1. CASE StartRound
      <3>1. \A c \in Client : Own(c, received') = {}
        BY <2>1 DEF StartRound, ClearActions, Own, ToSet
      <3> QED
        BY <3>1
    <2>2. CASE CloseCollection
      <3>1. Collecting /\ received' = received
        BY <2>2 DEF CloseCollection, Collecting
      <3> QED
        BY <3>1 DEF DealInvariant
    <2>3. CASE ReceiveAnswer \/ ReceiveRevived \/ ReceiveSpectator
      <3>1. Collecting /\ \E request \in requests : Collect(request)
        BY <2>3 DEF ReceiveAnswer, ReceiveRevived, ReceiveSpectator, Collecting
      <3>2. PICK request \in requests : Collect(request)
        BY <3>1
      <3>3. /\ request.actions \in Seq(Action) /\ received \in Seq(Action)
            /\ received' = received \o request.actions
        BY <3>2, CollectedTyped, ActionsTyped
      <3>4. ToSet(received') = ToSet(received) \union ToSet(request.actions)
        BY <3>3, ToSetConcat
      <3>5. \A a \in ToSet(request.actions) : a.player = request.from
        <4>1. CASE request.actions = <<>>
          BY <4>1 DEF ToSet
        <4>2. CASE request.actions # <<>>
          BY <4>2 DEF RequestsOnce, Alone, ToSet
        <4> QED
          BY <4>1, <4>2
      <3>6. ASSUME NEW c \in Client, Own(c, received') # {}
            PROVE  /\ Len(log[c]) = Len(published) + 1
                   /\ Own(c, received') = ToSet(log[c][Len(published) + 1])
        <4>1. CASE c = request.from
          <5>1. /\ Len(log[c]) = Len(published) + 1
                /\ request.actions = log[c][Len(published) + 1]
            BY <4>1 DEF DealInvariant
          <5>2. Own(c, received') = Own(c, received) \union ToSet(request.actions)
            BY <3>4, <3>5, <4>1 DEF Own
          <5> QED
            BY <3>1, <5>1, <5>2 DEF DealInvariant
        <4>2. CASE c # request.from
          <5>1. Own(c, received') = Own(c, received)
            BY <3>4, <3>5, <4>2 DEF Own
          <5> QED
            BY <3>1, <3>6, <5>1 DEF DealInvariant
        <4> QED
          BY <4>1, <4>2
      <3> QED
        BY <3>6
    <2> QED
      BY <2>1, <2>2, <2>3 DEF ServerStep
  <1> QED
    BY <1>1, <1>2, <1>3, <1>4 DEF DealInvariant

LEMMA DealPublish ==
    ASSUME PunctualInvariant, HistoryInvariant', DealInvariant, Publish
    PROVE  DealInvariant'
  <1> USE DEF PunctualInvariant, HistoryInvariant
  <1>1. /\ requests' = {} /\ ~Collecting' /\ cpc' = cpc
        /\ spc' = IF Over(log'[Server]) THEN "done" ELSE "round"
        /\ spc # "done"
    BY EverybodyHeard DEF Publish, Collecting, Pending
  <1>2. Len(published') \in Nat /\ log'[Server] \in Seq(Seq(Action))
    BY ProcFacts, NextPublished DEF TypeOK
  <1>3. /\ Len(log'[Server]) = Len(published')
        /\ \A i \in 1 .. Len(published') : log'[Server][i] = published'[i].actions
    BY <1>1 DEF ServerHistory
  <1>4. ASSUME spc' # "done"
        PROVE  /\ Len(published') < Limit
               /\ \A i \in 1 .. Len(published') :
                     \A a \in ToSet(published'[i].actions) : ~a.ends
    <2>1. ~Over(log'[Server]) /\ DOMAIN log'[Server] = 1 .. Len(published')
      BY <1>1, <1>2, <1>3, <1>4, LenProperties
    <2> QED
      BY <1>2, <1>3, <2>1, LimitAssumption DEF Over
  <1>5. \A c \in Client : cpc[c] # "done"
    BY <1>1 DEF DealInvariant
  <1> QED
    BY <1>1, <1>4, <1>5 DEF DealInvariant

LEMMA DealClient ==
    ASSUME PunctualInvariant, StepInvariant', DealInvariant,
           NEW c \in Client, ClientStep(c) \/ Die(c)
    PROVE  DealInvariant'
  <1> USE DEF PunctualInvariant, HistoryInvariant, OnceInvariant
  <1>1. \A r \in requests : r.from \in Client
    BY DEF TypeOK
  <1>2. CASE Acknowledged(c) \/ Die(c)
    <2>1. /\ UNCHANGED <<published, log, serverVars>> /\ requests' \subseteq requests
          /\ \A d \in Client : cpc'[d] = "done" => cpc[d] = "done"
      BY <1>2 DEF Acknowledged, Die, TypeOK
    <2> QED
      BY <2>1 DEF DealInvariant, serverVars, Collecting
  <1>3. CASE PlayRound(c)
    <2>1. PICK rounds \in Seq(Seq(Action)) : rounds = log[c]
      BY ProcFacts DEF TypeOK
    <2>2. /\ cpc[c] = "round" /\ UNCHANGED <<published, serverVars>>
          /\ cpc' = [cpc EXCEPT ![c] = "ack"]
          /\ Len(rounds) \in Nat /\ Len(rounds) + 1 \in 1 .. Limit
          /\ Len(rounds) = Len(published)
      BY <1>3, <2>1, LenProperties, LimitAssumption
         DEF PlayRound, ClientHistory, BarrierInvariant, ClientInRound
    <2>3. PICK n \in 1 .. Limit : n = Len(rounds) + 1
      BY <2>2
    <2>4. PICK actions \in IF c \in Player THEN ChampionActions(c, n) ELSE {<<>>} :
             /\ SendActions(c, actions)
             /\ log' = [log EXCEPT ![c] = Applied(OpenRound(@), actions)]
      BY <1>3, <2>1, <2>3 DEF PlayRound
    <2>5. actions \in Seq(Action)
      BY PlayedActions
    <2>6. /\ Len(log'[c]) = Len(published) + 1
          /\ log'[c][Len(published) + 1] = actions
          /\ \A d \in Client \ {c} : log'[d] = log[d]
      <3>1. PICK after : /\ after = Applied(OpenRound(rounds), actions)
                         /\ Len(after) = Len(rounds) + 1
                         /\ after[Len(rounds) + 1] = actions
        BY <2>5, PlayedRounds
      <3> QED
        BY <2>1, <2>2, <2>4, <3>1, ProcFacts DEF TypeOK
    <2>7. \A r \in requests : r.from # c
      BY <2>2 DEF RequestsOnce, Pending
    <2>8. \A r \in requests' : /\ Len(log'[r.from]) = Len(published) + 1
                               /\ r.actions = log'[r.from][Len(published) + 1]
      BY <1>1, <2>4, <2>6, <2>7 DEF DealInvariant, SendActions
    <2>9. Collecting => Own(c, received) = {}
      BY <2>1, <2>2 DEF DealInvariant
    <2>10. \A d \in Client : cpc'[d] = "done" => cpc[d] = "done"
      BY <2>2 DEF TypeOK
    <2> QED
      BY <2>2, <2>6, <2>8, <2>9, <2>10 DEF DealInvariant, serverVars, Collecting
  <1>4. CASE PullRound(c)
    <2>1. /\ cpc[c] = "actions" /\ UNCHANGED <<requests, published, serverVars>>
          /\ cpc' = [cpc EXCEPT ![c] = IF Over(log'[c]) THEN "done" ELSE "round"]
      BY <1>4 DEF PullRound
    <2>2. PICK k \in 1 .. Len(published) :
             /\ k = cursor[c] + 1 /\ Len(log[c]) = k /\ cursor'[c] = k /\ Len(log'[c]) = k
             /\ \A d \in Proc \ {c} : log'[d] = log[d]
      BY <1>4, HistoryPull
    <2>3. k = Len(published)
      <3>1. cursor[c] \in Nat /\ Len(published) \in Nat
        BY LenProperties DEF TypeOK
      <3> QED
        BY <2>1, <2>2, <3>1 DEF BarrierInvariant, ClientInRound
    <2>4. \A r \in requests : r.from # c
      BY <2>1 DEF RequestsOnce, Pending
    <2>5. Collecting => Own(c, received) = {}
      BY <2>2, <2>3 DEF DealInvariant
    <2>6. ASSUME cpc'[c] = "done"
          PROVE  spc = "done"
      <3>1. Over(log'[c]) /\ cpc'[c] # "dead"
        BY <2>1, <2>6 DEF TypeOK
      <3>2. \A i \in 1 .. k : ToSet(log'[c][i]) = ToSet(published[i].actions)
        BY <2>1, <2>2, <3>1 DEF StepInvariant, SameRounds
      <3>3. DOMAIN log'[c] = 1 .. k
        <4>1. log'[c] \in Seq(Seq(Action))
          BY <1>4, HistoryPull, ProcFacts, SMTT(30) DEF TypeOK
        <4> QED
          BY <2>2, <4>1, LenProperties
      <3> QED
        BY <2>2, <2>3, <3>1, <3>2, <3>3, LimitAssumption DEF Over, DealInvariant
    <2>7. \A d \in Client \ {c} : cpc'[d] = cpc[d] /\ log'[d] = log[d]
      BY <2>1, <2>2, ProcFacts DEF TypeOK
    <2> QED
      BY <1>1, <2>1, <2>4, <2>5, <2>6, <2>7 DEF DealInvariant, serverVars, Collecting
  <1> QED
    BY <1>2, <1>3, <1>4 DEF ClientStep

LEMMA DealHolds ==
    ASSUME Slow = {}
    PROVE  Spec => [](PunctualInvariant /\ DealInvariant)
  <1>1. Init => DealInvariant
    BY DealInit
  <1>2. PunctualInvariant /\ PunctualInvariant' /\ DealInvariant /\ [Next]_vars => DealInvariant'
    <2> SUFFICES ASSUME PunctualInvariant, PunctualInvariant', DealInvariant, [Next]_vars
                 PROVE  DealInvariant'
      OBVIOUS
    <2>1. HistoryInvariant' /\ StepInvariant'
      BY DEF PunctualInvariant
    <2>2. CASE ServerStep
      BY <2>1, <2>2, DealServer, DealPublish
    <2>3. CASE \E c \in Client : ClientStep(c) \/ Die(c)
      BY <2>1, <2>3, DealClient
    <2>4. CASE UNCHANGED vars
      BY <2>4 DEF vars, serverVars, socketVars, DealInvariant, Collecting
    <2> QED
      BY <2>2, <2>3, <2>4 DEF Next, Terminated
  <1> QED
    BY <1>1, <1>2, PunctualHolds, PTL DEF Spec

View == [c \in Client |-> IF c \in Dead THEN <<>> ELSE Known(c)]

Choice == [c \in Client |-> IF c \in Playing THEN ToSet(log[c][Len(log[c])]) ELSE {}]

\* The rounds that are decided, and those a live client has completed, as lists.
LEMMA DecidedLists ==
    ASSUME HistoryInvariant
    PROVE  /\ Len(published) \in Nat
           /\ Decided \in Seq(SUBSET Action) /\ Len(Decided) = Len(published)
           /\ \A i \in 1 .. Len(published) :
                 /\ Decided[i] = ToSet(log[Server][i])
                 /\ Decided[i] = ToSet(published[i].actions)
  <1> USE DEF HistoryInvariant
  <1>1. Len(published) \in Nat
    BY LenProperties DEF TypeOK
  <1>2. ASSUME NEW i \in 1 .. Len(published)
        PROVE  /\ ToSet(log[Server][i]) = ToSet(published[i].actions)
               /\ ToSet(log[Server][i]) \in SUBSET Action
    BY <1>2, ActionsTyped DEF ServerHistory
  <1>3. Decided \in [1 .. Len(published) -> SUBSET Action]
    BY <1>2 DEF Decided
  <1>4. PICK f \in [1 .. Len(published) -> SUBSET Action] : f = Decided
    BY <1>3
  <1>5. f \in Seq(SUBSET Action) /\ Len(f) = Len(published)
    BY <1>1, ListOf
  <1> QED
    BY <1>1, <1>2, <1>4, <1>5 DEF Decided

LEMMA KnownLists ==
    ASSUME HistoryInvariant, StepInvariant, NEW c \in Client \ Dead
    PROVE  /\ cursor[c] \in Nat /\ Complete(c) = cursor[c] /\ cursor[c] <= Len(published)
           /\ Known(c) \in Seq(SUBSET Action) /\ Len(Known(c)) = cursor[c]
           /\ \A i \in 1 .. cursor[c] : /\ Known(c)[i] = ToSet(log[c][i])
                                        /\ Known(c)[i] = Decided[i]
  <1> USE DEF HistoryInvariant
  <1>1. /\ ClientHistory(c) /\ SameRounds(c) /\ cursor[c] \in Nat
        /\ cpc[c] \in {"round", "ack", "actions", "done"}
    BY DEF StepInvariant, TypeOK, Dead
  <1>2. Complete(c) = cursor[c] /\ cursor[c] <= Len(published)
    BY <1>1 DEF ClientHistory, Complete
  <1>3. ASSUME NEW i \in 1 .. cursor[c]
        PROVE  /\ ToSet(log[c][i]) = Decided[i]
               /\ ToSet(log[c][i]) \in SUBSET Action
    <2>1. i \in 1 .. Len(published)
      BY <1>1, <1>2, DecidedLists
    <2>2. ToSet(log[c][i]) = ToSet(published[i].actions)
      BY <1>1 DEF SameRounds
    <2> QED
      BY <2>1, <2>2, DecidedLists, ActionsTyped
  <1>4. Known(c) \in [1 .. cursor[c] -> SUBSET Action]
    BY <1>2, <1>3 DEF Known
  <1>5. PICK f \in [1 .. cursor[c] -> SUBSET Action] : f = Known(c)
    BY <1>4
  <1>6. f \in Seq(SUBSET Action) /\ Len(f) = cursor[c]
    BY <1>1, ListOf
  <1> QED
    BY <1>1, <1>2, <1>3, <1>5, <1>6 DEF Known

\* Rounds does not see the other steps.
LEMMA RoundsStutter ==
    ASSUME UNCHANGED <<published>>,
           \A i \in 1 .. Len(published) : log'[Server][i] = log[Server][i],
           \A c \in Client : /\ log'[c] = log[c] /\ Complete(c)' = Complete(c)
                             /\ cpc'[c] = "dead" <=> cpc[c] = "dead"
    PROVE  UNCHANGED R!vars
  <1>1. Decided' = Decided
    BY DEF Decided
  <1>2. Dead' = Dead /\ Playing' = Playing
    BY DEF Dead, Playing
  <1>3. \A c \in Client : Known(c)' = Known(c)
    BY DEF Known
  <1>4. View' = View
    BY <1>2, <1>3 DEF View
  <1>5. Choice' = Choice
    BY <1>2 DEF Choice
  <1> QED
    BY <1>1, <1>2, <1>4, <1>5 DEF R!vars, View, Choice

LEMMA RoundsQuiet ==
    ASSUME PunctualInvariant, PunctualInvariant', [Next]_vars,
           \/ ServerStep /\ ~Publish
           \/ \E c \in Client : Acknowledged(c)
           \/ UNCHANGED vars
    PROVE  UNCHANGED R!vars
  <1> USE DEF PunctualInvariant, HistoryInvariant
  <1>1. CASE ServerStep /\ ~Publish
    <2>1. /\ UNCHANGED <<published, cpc>> /\ \A c \in Client : log'[c] = log[c]
      BY <1>1, ProcFacts DEF ServerStep, StartRound, ReceiveAnswer, ReceiveRevived,
         CloseCollection, ReceiveSpectator, TypeOK, socketVars
    <2>2. \A i \in 1 .. Len(published) : log'[Server][i] = log[Server][i]
      BY <2>1 DEF ServerHistory
    <2>3. \A c \in Client : Complete(c)' = Complete(c)
      BY <2>1 DEF Complete
    <2> QED
      BY <2>1, <2>2, <2>3, RoundsStutter
  <1>2. CASE \E c \in Client : Acknowledged(c)
    <2>1. PICK c \in Client : Acknowledged(c)
      BY <1>2
    <2>2. /\ UNCHANGED <<published, log>> /\ cpc[c] = "ack" /\ cpc'[c] = "actions"
          /\ \A d \in Client \ {c} : cpc'[d] = cpc[d]
      BY <2>1 DEF Acknowledged, TypeOK
    <2>3. \A d \in Client : Complete(d)' = Complete(d) /\ (cpc'[d] = "dead" <=> cpc[d] = "dead")
      BY <2>2 DEF Complete
    <2> QED
      BY <2>2, <2>3, RoundsStutter
  <1>3. CASE UNCHANGED vars
    <2>1. \A c \in Client : Complete(c)' = Complete(c)
      BY <1>3 DEF vars, Complete
    <2> QED
      BY <1>3, <2>1, RoundsStutter DEF vars, socketVars
  <1> QED
    BY <1>1, <1>2, <1>3

\* A round more is decided.
LEMMA DecidedNext ==
    ASSUME HistoryInvariant, HistoryInvariant', Publish
    PROVE  Decided' = Append(Decided, ToSet(received))
  <1>1. /\ Len(published) \in Nat /\ Len(published') = Len(published) + 1
        /\ \A i \in 1 .. Len(published) : published'[i].actions = published[i].actions
        /\ published'[Len(published) + 1].actions = received
    BY NextPublished DEF HistoryInvariant
  <1>2. PICK s \in Seq(SUBSET Action) :
           /\ s = Decided /\ Len(s) = Len(published)
           /\ \A i \in 1 .. Len(published) : s[i] = ToSet(published[i].actions)
    BY DecidedLists
  <1>3. /\ \A i \in 1 .. Len(published') : log'[Server][i] = published'[i].actions
        /\ Decided' = [i \in 1 .. Len(published') |-> ToSet(log'[Server][i])]
    BY DEF HistoryInvariant, ServerHistory, Decided
  <1>4. PICK x \in SUBSET Action : x = ToSet(received)
    BY ActionsTyped DEF HistoryInvariant
  <1>5. PICK u \in Seq(SUBSET Action) :
           /\ u = Append(s, x) /\ Len(u) = Len(s) + 1 /\ u[Len(s) + 1] = x
           /\ \A i \in 1 .. Len(s) : u[i] = s[i]
    <2>1. PICK Sets : Sets = SUBSET Action
      OBVIOUS
    <2>2. s \in Seq(Sets) /\ x \in Sets
      BY <2>1
    <2>3. /\ Append(s, x) \in Seq(Sets) /\ Len(Append(s, x)) = Len(s) + 1
          /\ Append(s, x)[Len(s) + 1] = x
          /\ \A i \in 1 .. Len(s) : Append(s, x)[i] = s[i]
      BY <2>2, AppendProperties
    <2> QED
      BY <2>1, <2>3
  <1>6. ASSUME NEW i \in 1 .. Len(published')
        PROVE  ToSet(log'[Server][i]) = u[i]
    <2>1. CASE i = Len(published) + 1
      BY <1>1, <1>2, <1>3, <1>4, <1>5, <2>1
    <2>2. CASE i # Len(published) + 1
      <3>1. i \in 1 .. Len(published)
        BY <1>1, <2>2
      <3> QED
        BY <1>1, <1>2, <1>3, <1>5, <3>1
    <2> QED
      BY <2>1, <2>2
  <1>7. u = [i \in 1 .. Len(published') |-> u[i]]
    <2>1. DOMAIN u = 1 .. Len(u) /\ u \in [1 .. Len(u) -> SUBSET Action]
      BY LenProperties
    <2> QED
      BY <1>1, <1>2, <1>5, <2>1
  <1>8. Decided' = u
    BY <1>3, <1>6, <1>7
  <1> QED
    BY <1>2, <1>4, <1>5, <1>8

\* The server publishes: a round is decided, by all those that are still there.
\* What a dead client had chosen is lost when it has not been received.
LEMMA RoundsDecide ==
    ASSUME PunctualInvariant, PunctualInvariant', DealInvariant, Publish
    PROVE  R!Next
  <1> USE DEF PunctualInvariant, HistoryInvariant
  <1> DEFINE lost == {c \in Dead : Own(c, received) = {}}
  <1>1. /\ UNCHANGED <<cursor, cpc, received>> /\ Collecting /\ spc # "done"
        /\ \A c \in Client : log'[c] = log[c]
    BY ProcFacts DEF Publish, Collecting, TypeOK
  <1>2. /\ Len(published) \in Nat /\ Len(published') = Len(published) + 1
        /\ published'[Len(published) + 1].actions = received
    BY NextPublished
  <1>3. ASSUME NEW c \in Client
        PROVE  Len(log[c]) \in Nat /\ Len(log[c]) <= Len(published) + 1
    <2>1. cursor[c] \in Nat /\ ClientHistory(c)
      BY DEF TypeOK
    <2> QED
      BY <1>2, <2>1 DEF ClientHistory
  <1>4. ASSUME NEW c \in Client \ Dead
        PROVE  /\ c \in Playing /\ Len(log[c]) = Len(published) + 1
               /\ Own(c, received) = ToSet(log[c][Len(log[c])])
    <2>1. cpc[c] \notin {"done", "dead"}
      BY <1>1 DEF DealInvariant, Dead
    <2>2. Pending = {} /\ cpc[c] \in {"ack", "actions"} /\ cursor[c] = Len(published)
      BY <2>1, EverybodyHeard DEF Gone
    <2>3. Len(log[c]) = Len(published) + 1
      BY <2>2 DEF ClientHistory
    <2>4. Own(c, received) = ToSet(log[c][cursor[c] + 1])
      BY <2>1, <2>2 DEF StepInvariant, Sent
    <2> QED
      BY <2>2, <2>3, <2>4 DEF Playing
  <1>5. ASSUME NEW c \in Client, Own(c, received) # {}
        PROVE  /\ c \in Playing /\ Own(c, received) = ToSet(log[c][Len(log[c])])
    BY <1>1, <1>5 DEF DealInvariant, Playing
  <1>6. ToSet(received) = UNION {Choice[c] : c \in Playing \ lost}
    <2>1. ASSUME NEW a \in ToSet(received)
          PROVE  a \in UNION {Choice[c] : c \in Playing \ lost}
      <3>1. a \in Action
        BY ActionsTyped
      <3>2. PICK c \in Client : c = a.player
        BY <3>1, ClientFacts DEF Action
      <3>3. a \in Own(c, received)
        BY <3>2 DEF Own
      <3>4. c \in Playing \ lost /\ Choice[c] = Own(c, received)
        BY <1>5, <3>3 DEF Choice
      <3> QED
        BY <3>3, <3>4
    <2>2. ASSUME NEW c \in Playing \ lost
          PROVE  Choice[c] \subseteq ToSet(received)
      <3>1. c \in Client /\ Choice[c] = ToSet(log[c][Len(log[c])])
        BY DEF Playing, Choice
      <3>2. Own(c, received) = ToSet(log[c][Len(log[c])])
        <4>1. CASE Own(c, received) # {}
          BY <1>5, <3>1, <4>1
        <4>2. CASE Own(c, received) = {}
          <5>1. c \in Client \ Dead
            BY <3>1, <4>2
          <5> QED
            BY <1>4, <5>1
        <4> QED
          BY <4>1, <4>2
      <3> QED
        BY <3>1, <3>2 DEF Own
    <2> QED
      BY <2>1, <2>2
  <1>7. Decided' = Append(Decided, ToSet(received))
    BY DecidedNext
  <1>8. Playing' = {}
    BY <1>1, <1>2, <1>3 DEF Playing
  <1>9. Choice' = [c \in Client |-> {}]
    BY <1>8 DEF Choice
  <1>10. Dead' = Dead
    BY <1>1 DEF Dead
  <1>11. \A c \in Client : Known(c)' = Known(c)
    BY <1>1 DEF Known, Complete
  <1>12. View' = View
    BY <1>10, <1>11 DEF View
  <1>13. Client \ Dead \subseteq Playing /\ lost \in SUBSET Dead
    BY <1>4
  <1>14. PICK l \in SUBSET Dead : l = lost
    BY <1>13
  <1> HIDE DEF lost
  <1>15. R!Decide(l)
    BY <1>6, <1>7, <1>8, <1>9, <1>10, <1>12, <1>13, <1>14 DEF R!Decide, View, Choice
  <1> QED
    BY <1>15 DEF R!Next

\* A client plays: it knows every round that is decided.
LEMMA RoundsPlay ==
    ASSUME PunctualInvariant, NEW c \in Client, PlayRound(c)
    PROVE  R!Next
  <1> USE DEF PunctualInvariant, HistoryInvariant
  <1>1. PICK rounds \in Seq(Seq(Action)) : rounds = log[c]
    BY ProcFacts DEF TypeOK
  <1>2. /\ cpc[c] = "round" /\ UNCHANGED <<published, cursor>>
        /\ cpc' = [cpc EXCEPT ![c] = "ack"]
        /\ Len(rounds) \in Nat /\ Len(rounds) + 1 \in 1 .. Limit
        /\ Len(rounds) = Len(published) /\ cursor[c] = Len(published)
    BY <1>1, LenProperties, LimitAssumption
       DEF PlayRound, ClientHistory, BarrierInvariant, ClientInRound
  <1>3. PICK n \in 1 .. Limit : n = Len(rounds) + 1
    BY <1>2
  <1>4. PICK actions \in IF c \in Player THEN ChampionActions(c, n) ELSE {<<>>} :
           /\ SendActions(c, actions)
           /\ log' = [log EXCEPT ![c] = Applied(OpenRound(@), actions)]
    BY <1>1, <1>3 DEF PlayRound
  <1>5. /\ actions \in Seq(Action)
        /\ \/ actions = <<>>
           \/ \E a \in Action : actions = <<a>>
    BY PlayedActions
  <1>6. PICK action \in {{}} \union {{a} : a \in Action} : action = ToSet(actions)
    <2>1. CASE actions = <<>>
      <3>1. ToSet(actions) = {}
        BY <2>1 DEF ToSet
      <3> QED
        BY <3>1
    <2>2. CASE actions # <<>>
      <3>1. PICK a \in Action : actions = <<a>>
        BY <1>5, <2>2
      <3>2. ToSet(<<a>>) = {a}
        BY DEF ToSet
      <3> QED
        BY <3>1, <3>2
    <2> QED
      BY <2>1, <2>2
  <1>7. PICK after \in Seq(Seq(Action)) :
           /\ after = Applied(OpenRound(rounds), actions)
           /\ Len(after) = Len(rounds) + 1
           /\ \A i \in 1 .. Len(rounds) : after[i] = rounds[i]
           /\ after[Len(rounds) + 1] = actions
    BY <1>5, PlayedRounds
  <1>8. /\ log'[c] = after /\ cpc'[c] = "ack"
        /\ \A d \in Client \ {c} : log'[d] = log[d] /\ cpc'[d] = cpc[d]
        /\ log'[Server] = log[Server]
    BY <1>1, <1>2, <1>4, <1>7, ProcFacts DEF TypeOK
  <1>9. Dead' = Dead /\ c \notin Dead
    BY <1>2, <1>8 DEF Dead
  <1>10. Playing' = Playing \union {c} /\ c \notin Playing
    BY <1>1, <1>2, <1>7, <1>8 DEF Playing
  <1>11. Decided' = Decided
    BY <1>2, <1>8 DEF Decided
  <1>12. Choice' = [Choice EXCEPT ![c] = action]
    <2>1. \A d \in Client : Choice'[d] = IF d = c THEN action ELSE Choice[d]
      BY <1>2, <1>6, <1>7, <1>8, <1>10 DEF Choice, Playing
    <2>2. /\ Choice' = [d \in Client |-> Choice'[d]]
          /\ DOMAIN Choice = Client
      BY DEF Choice
    <2> QED
      BY <2>1, <2>2
  <1>13. View' = View
    <2>1. ASSUME NEW d \in Client \ {c} PROVE Known(d)' = Known(d)
      BY <1>8, <2>1 DEF Known, Complete
    <2>2. Known(c)' = Known(c)
      <3>1. Complete(c) = Len(rounds) /\ Complete(c)' = Len(rounds)
        BY <1>1, <1>2, <1>7, <1>8 DEF Complete
      <3>2. \A i \in 1 .. Len(rounds) : ToSet(log'[c][i]) = ToSet(log[c][i])
        BY <1>1, <1>7, <1>8
      <3> QED
        BY <3>1, <3>2 DEF Known
    <2>3. \A d \in Client : Known(d)' = Known(d)
      BY <2>1, <2>2
    <2> QED
      BY <1>9, <2>3 DEF View
  <1>14. View[c] = Decided
    <2>1. PICK Sets : Sets = SUBSET Action
      OBVIOUS
    <2>2. PICK s \in Seq(Sets) : s = Decided
      BY <2>1, DecidedLists
    <2>3. PICK t \in Seq(Sets) : t = Known(c)
      BY <1>9, <2>1, KnownLists
    <2>4. Len(s) = Len(t) /\ \A i \in 1 .. Len(s) : s[i] = t[i]
      BY <1>2, <1>9, <2>2, <2>3, DecidedLists, KnownLists
    <2>5. s = t
      BY <2>4, SeqEqual
    <2> QED
      BY <1>9, <2>2, <2>3, <2>5 DEF View
  <1>15. R!Play(c, action)
    BY <1>9, <1>10, <1>11, <1>12, <1>13, <1>14 DEF R!Play, View, Choice
  <1> QED
    BY <1>15 DEF R!Next

\* A client applies a round: it is the one that has been decided last.
LEMMA RoundsObserve ==
    ASSUME PunctualInvariant, PunctualInvariant', NEW c \in Client, PullRound(c)
    PROVE  R!Next
  <1> USE DEF PunctualInvariant, HistoryInvariant
  <1>1. PICK k \in 1 .. Len(published) :
           /\ k = cursor[c] + 1 /\ Len(log[c]) = k /\ cursor'[c] = k /\ Len(log'[c]) = k
           /\ \A i \in 1 .. cursor[c] : log'[c][i] = log[c][i]
           /\ \A d \in Proc \ {c} : log'[d] = log[d]
           /\ \A d \in Client \ {c} : cpc'[d] = cpc[d]
           /\ cpc'[c] \in {"done", "round"}
    BY HistoryPull
  <1>2. cpc[c] = "actions" /\ published' = published
    BY DEF PullRound
  <1>3. cursor[c] \in Nat /\ Len(published) \in Nat
    BY LenProperties DEF TypeOK
  <1>4. k = Len(published)
    BY <1>1, <1>2, <1>3 DEF BarrierInvariant, ClientInRound
  <1>5. Dead' = Dead /\ c \notin Dead
    BY <1>1, <1>2 DEF Dead
  <1>6. \A d \in Client \ {c} : log'[d] = log[d]
    BY <1>1, ProcFacts
  <1>7. Playing' = Playing /\ c \notin Playing
    BY <1>1, <1>2, <1>4, <1>6 DEF Playing
  <1>8. Choice' = Choice
    <2>1. \A d \in Client : Choice'[d] = Choice[d]
      BY <1>6, <1>7 DEF Choice, Playing
    <2> QED
      BY <2>1 DEF Choice
  <1>9. Decided' = Decided
    BY <1>1, <1>2, ProcFacts DEF Decided
  <1>10. Known(c)' = Append(Known(c), Decided[k])
    <2>1. PICK Sets : Sets = SUBSET Action
      OBVIOUS
    <2>2. PICK s \in Seq(Sets) :
             /\ s = Known(c) /\ Len(s) = cursor[c]
             /\ \A i \in 1 .. cursor[c] : s[i] = ToSet(log[c][i])
      BY <1>5, <2>1, KnownLists
    <2>3. PICK x \in Sets : x = Decided[k] /\ x = ToSet(published[k].actions)
      BY <2>1, DecidedLists, ActionsTyped
    <2>4. PICK u \in Seq(Sets) :
             /\ u = Append(s, x) /\ Len(u) = Len(s) + 1 /\ u[Len(s) + 1] = x
             /\ \A i \in 1 .. Len(s) : u[i] = s[i]
      <3>1. /\ Append(s, x) \in Seq(Sets) /\ Len(Append(s, x)) = Len(s) + 1
            /\ Append(s, x)[Len(s) + 1] = x
            /\ \A i \in 1 .. Len(s) : Append(s, x)[i] = s[i]
        BY AppendProperties
      <3> QED
        BY <3>1
    <2>5. ToSet(log'[c][k]) = x
      <3>1. SameRounds(c)' /\ k \in 1 .. cursor'[c]
        BY <1>1, <1>3 DEF StepInvariant
      <3> QED
        BY <1>2, <2>3, <3>1 DEF SameRounds
    <2>6. ASSUME NEW i \in 1 .. k PROVE ToSet(log'[c][i]) = u[i]
      <3>1. CASE i = k
        BY <1>1, <2>2, <2>4, <2>5, <3>1
      <3>2. CASE i # k
        <4>1. i \in 1 .. cursor[c]
          BY <1>1, <1>3, <3>2
        <4> QED
          BY <1>1, <2>2, <2>4, <4>1
      <3> QED
        BY <3>1, <3>2
    <2>7. u = [i \in 1 .. k |-> u[i]]
      <3>1. DOMAIN u = 1 .. Len(u) /\ u \in [1 .. Len(u) -> Sets]
        BY LenProperties
      <3> QED
        BY <1>1, <2>2, <2>4, <3>1
    <2>8. Complete(c)' = k
      BY <1>1 DEF Complete
    <2>9. Known(c)' = u
      BY <2>6, <2>7, <2>8 DEF Known
    <2> QED
      BY <2>2, <2>3, <2>4, <2>9
  <1>11. ASSUME NEW d \in Client \ {c} PROVE Known(d)' = Known(d)
    BY <1>1, <1>6 DEF Known, Complete
  <1>12. Len(Known(c)) = cursor[c] /\ Len(Decided) = Len(published)
    BY <1>5, DecidedLists, KnownLists
  <1>13. View[c] = Known(c)
    BY <1>5 DEF View
  <1>14. View' = [View EXCEPT ![c] = Append(View[c], Decided[Len(View[c]) + 1])]
    <2>1. Decided[Len(View[c]) + 1] = Decided[k]
      BY <1>1, <1>12, <1>13
    <2>2. PICK new : new = Append(View[c], Decided[Len(View[c]) + 1])
      OBVIOUS
    <2>3. \A d \in Client : View'[d] = IF d = c THEN new ELSE View[d]
      BY <1>5, <1>10, <1>11, <1>13, <2>1, <2>2 DEF View
    <2>4. View' = [d \in Client |-> View'[d]] /\ DOMAIN View = Client
      BY DEF View
    <2>5. View' = [View EXCEPT ![c] = new]
      BY <2>3, <2>4
    <2> QED
      BY <2>2, <2>5
  <1>15. Len(View[c]) < Len(Decided)
    BY <1>1, <1>3, <1>12, <1>13
  <1>16. R!Observe(c)
    BY <1>5, <1>7, <1>8, <1>9, <1>14, <1>15 DEF R!Observe, View, Choice
  <1> QED
    BY <1>16 DEF R!Next

LEMMA RoundsLeave ==
    ASSUME PunctualInvariant, NEW c \in Client, Die(c)
    PROVE  R!Next
  <1> USE DEF PunctualInvariant, HistoryInvariant
  <1>1. /\ cpc[c] # "dead" /\ cpc'[c] = "dead"
        /\ \A d \in Client \ {c} : cpc'[d] = cpc[d]
        /\ UNCHANGED <<published, log>>
    BY DEF Die, Gone, TypeOK
  <1>2. c \notin Dead /\ Dead' = Dead \union {c}
    BY <1>1 DEF Dead
  <1>3. Playing' = Playing /\ Choice' = Choice /\ Decided' = Decided
    BY <1>1 DEF Playing, Choice, Decided
  <1>4. View' = [View EXCEPT ![c] = <<>>]
    <2>1. \A d \in Client \ {c} : Known(d)' = Known(d)
      BY <1>1 DEF Known, Complete
    <2>2. \A d \in Client : View'[d] = IF d = c THEN <<>> ELSE View[d]
      BY <1>2, <2>1 DEF View
    <2>3. View' = [d \in Client |-> View'[d]] /\ DOMAIN View = Client
      BY DEF View
    <2> QED
      BY <2>2, <2>3
  <1>5. R!Leave(c)
    BY <1>2, <1>3, <1>4 DEF R!Leave, View, Choice
  <1> QED
    BY <1>5 DEF R!Next

\* When no player is slow, a synchronous match is one sequence of rounds, each
\* of them decided when every participant that is still there has played it,
\* knowing all the earlier ones: no answer is counted in another round, and
\* nobody leaves the loop before the server.
THEOREM RoundsImplemented ==
    ASSUME Slow = {}
    PROVE  Spec => ImplementsRounds
  <1>1. Init => R!Init
    <2> SUFFICES ASSUME Init PROVE R!Init
      OBVIOUS
    <2>1. /\ published = <<>> /\ \A c \in Client : log[c] = <<>> /\ cpc[c] = "round"
      BY ProcFacts DEF Init, SocketsInit
    <2>2. Len(<<>>) = 0 /\ 1 .. 0 = {}
      BY EmptySeq
    <2>3. Decided = <<>>
      BY <2>1, <2>2 DEF Decided
    <2>4. ASSUME NEW c \in Client PROVE Known(c) = <<>>
      <3>1. 1 .. Complete(c) = {}
        BY <2>1, <2>2 DEF Complete
      <3> QED
        BY <3>1 DEF Known
    <2>5. Dead = {} /\ Playing = {}
      BY <2>1, <2>2 DEF Dead, Playing
    <2> QED
      BY <2>3, <2>4, <2>5 DEF R!Init
  <1>2. PunctualInvariant /\ PunctualInvariant' /\ DealInvariant /\ [Next]_vars
            => [R!Next]_(R!vars)
    <2> SUFFICES ASSUME PunctualInvariant, PunctualInvariant', DealInvariant, [Next]_vars
                 PROVE  R!Next \/ UNCHANGED R!vars
      OBVIOUS
    <2>1. CASE ServerStep
      BY <2>1, RoundsQuiet, RoundsDecide
    <2>2. CASE \E c \in Client : ClientStep(c) \/ Die(c)
      BY <2>2, RoundsQuiet, RoundsPlay, RoundsObserve, RoundsLeave DEF ClientStep
    <2>3. CASE UNCHANGED vars
      BY <2>3, RoundsQuiet
    <2> QED
      BY <2>1, <2>2, <2>3 DEF Next, Terminated
  <1>3. PunctualInvariant /\ DealInvariant => PunctualInvariant
    OBVIOUS
  <1> QED
    BY <1>1, <1>2, <1>3, DealHolds, PTL DEF Spec, ImplementsRounds, R!Spec

-----------------------------------------------------------------------------
(* The replay of a finished match, whatever the delays and the deaths: the   *)
(* file has the rounds of the server, none of which but the last one is      *)
(* followed by the end of the game.                                          *)

RecordInvariant ==
    /\ Len(replay) = Len(published)
    /\ \A i \in 1 .. Len(published) : replay[i] = published[i].actions
    /\ Len(published) <= Limit
    /\ \A i \in 1 .. Len(published) : (spc # "done" \/ i < Len(published)) =>
          \A a \in ToSet(published[i].actions) : ~a.ends
    /\ IF spc = "done" THEN Over(log[Server]) ELSE Len(published) < Limit

LEMMA RecordInit ==
    ASSUME Init
    PROVE  RecordInvariant
  <1>1. published = <<>> /\ replay = <<>> /\ spc = "round"
    BY DEF Init, SocketsInit
  <1>2. Len(<<>>) = 0 /\ 1 .. 0 = {}
    BY EmptySeq
  <1> QED
    BY <1>1, <1>2, LimitAssumption DEF RecordInvariant

LEMMA RecordNext ==
    ASSUME HistoryInvariant, HistoryInvariant', RecordInvariant, [Next]_vars
    PROVE  RecordInvariant'
  <1> USE DEF HistoryInvariant
  <1>1. CASE Publish
    <2>1. /\ spc = "spectators" /\ replay' = Append(replay, received)
          /\ spc' = IF Over(log'[Server]) THEN "done" ELSE "round"
      BY <1>1 DEF Publish, Saved
    <2>2. /\ Len(published) \in Nat /\ Len(published') = Len(published) + 1
          /\ \A n \in 1 .. Len(published) : published'[n].actions = published[n].actions
          /\ published'[Len(published) + 1].actions = received
      BY <1>1, NextPublished
    <2>3. /\ Len(replay') = Len(replay) + 1 /\ replay'[Len(replay) + 1] = received
          /\ \A i \in 1 .. Len(replay) : replay'[i] = replay[i]
      <3>1. replay \in Seq(Seq(Action)) /\ received \in Seq(Action)
        BY DEF TypeOK
      <3>2. PICK lists : lists = Seq(Action)
        OBVIOUS
      <3>3. replay \in Seq(lists) /\ received \in lists
        BY <3>1, <3>2
      <3> QED
        BY <2>1, <3>3, AppendProperties
    <2>4. ASSUME NEW i \in 1 .. Len(published')
          PROVE  replay'[i] = published'[i].actions
      <3>1. CASE i = Len(published) + 1
        BY <2>2, <2>3, <3>1 DEF RecordInvariant
      <3>2. CASE i # Len(published) + 1
        <4>1. i \in 1 .. Len(published)
          BY <2>2, <3>2
        <4> QED
          BY <2>2, <2>3, <4>1 DEF RecordInvariant
      <3> QED
        BY <3>1, <3>2
    <2>5. Len(published) < Limit
      BY <2>1 DEF RecordInvariant
    <2>6. /\ Len(log'[Server]) = Len(published') /\ DOMAIN log'[Server] = 1 .. Len(published')
          /\ \A i \in 1 .. Len(published') : log'[Server][i] = published'[i].actions
      <3>1. log'[Server] \in Seq(Seq(Action)) /\ ~Collecting'
        BY <2>1, ProcFacts DEF TypeOK, Collecting
      <3> QED
        BY <3>1, LenProperties DEF ServerHistory
    <2>7. ASSUME NEW i \in 1 .. Len(published'), spc' # "done" \/ i < Len(published'),
                 NEW a \in ToSet(published'[i].actions)
          PROVE  ~a.ends
      <3>1. CASE spc' # "done"
        <4>1. ~Over(log'[Server])
          BY <2>1, <3>1
        <4> QED
          BY <2>6, <4>1 DEF Over
      <3>2. CASE i < Len(published')
        <4>1. i \in 1 .. Len(published)
          BY <2>2, <3>2
        <4> QED
          BY <2>1, <2>2, <4>1 DEF RecordInvariant
      <3> QED
        BY <2>7, <3>1, <3>2
    <2>8. IF spc' = "done" THEN Over(log'[Server]) ELSE Len(published') < Limit
      BY <2>1, <2>2, <2>6, LimitAssumption DEF Over
    <2> QED
      BY <2>2, <2>3, <2>4, <2>5, <2>7, <2>8, LimitAssumption DEF RecordInvariant
  <1>2. CASE ~Publish
    <2>1. /\ UNCHANGED <<published, replay>>
          /\ spc' = "done" <=> spc = "done"
          /\ spc = "done" => log'[Server] = log[Server]
      <3>1. CASE ServerStep
        BY <1>2, <3>1 DEF ServerStep, StartRound, ReceiveAnswer, ReceiveRevived,
           CloseCollection, ReceiveSpectator, socketVars
      <3>2. CASE \E c \in Client : ClientStep(c) \/ Die(c)
        BY <3>2, ProcFacts, SMTT(30) DEF ClientStep, PlayRound, Acknowledged, PullRound, Die,
           serverVars, TypeOK
      <3>3. CASE UNCHANGED vars
        BY <3>3 DEF vars, serverVars, socketVars
      <3> QED
        BY <3>1, <3>2, <3>3 DEF Next, Terminated
    <2> QED
      BY <2>1 DEF RecordInvariant
  <1> QED
    BY <1>1, <1>2

\* f gives where the replay of a file is after each round, up to the last one.
IsReplay(f, saved, last) ==
    f = [n \in 0 .. last |->
            IF n = 0 THEN ReplayInit(saved)
            ELSE IF f[n - 1].error \/ Over(f[n - 1].rounds) THEN f[n - 1]
            ELSE ReplayRound(f[n - 1])]

LEMMA ReplayExists ==
    ASSUME NEW saved, NEW last \in Nat
    PROVE  \E f : IsReplay(f, saved, last)
  <1> DEFINE Fits(f, m) == IsReplay(f, saved, m)
             T == {m \in Nat : \E f : Fits(f, m)}
  <1>1. 0 \in T
    <2>1. Fits([n \in 0 .. 0 |-> ReplayInit(saved)], 0)
      BY DEF IsReplay
    <2> HIDE DEF Fits
    <2> QED
      BY <2>1
  <1>2. ASSUME NEW m \in Nat, m \in T PROVE m + 1 \in T
    <2>1. PICK f : Fits(f, m)
      BY <1>2
    <2> DEFINE end == IF f[m].error \/ Over(f[m].rounds) THEN f[m] ELSE ReplayRound(f[m])
               g == [n \in 0 .. m + 1 |-> IF n <= m THEN f[n] ELSE end]
    <2>2. ASSUME NEW n \in 0 .. m + 1
          PROVE  g[n] = IF n = 0 THEN ReplayInit(saved)
                        ELSE IF g[n - 1].error \/ Over(g[n - 1].rounds) THEN g[n - 1]
                        ELSE ReplayRound(g[n - 1])
      <3>1. CASE n <= m
        <4>1. n \in 0 .. m
          BY <3>1
        <4>2. f[n] = IF n = 0 THEN ReplayInit(saved)
                     ELSE IF f[n - 1].error \/ Over(f[n - 1].rounds) THEN f[n - 1]
                     ELSE ReplayRound(f[n - 1])
          BY <2>1, <4>1 DEF IsReplay
        <4>3. g[n] = f[n] /\ (n # 0 => g[n - 1] = f[n - 1])
          BY <3>1
        <4> QED
          BY <4>2, <4>3
      <3>2. CASE ~(n <= m)
        <4>1. n = m + 1 /\ n # 0 /\ n - 1 = m
          BY <3>2
        <4>2. g[n] = end /\ g[n - 1] = f[m]
          BY <4>1
        <4> QED
          BY <4>1, <4>2
      <3> QED
        BY <3>1, <3>2
    <2>3. g = [n \in 0 .. m + 1 |-> g[n]]
      OBVIOUS
    <2>4. Fits(g, m + 1)
      <3> HIDE DEF g
      <3> QED
        BY <2>2, <2>3 DEF IsReplay
    <2> HIDE DEF Fits
    <2> QED
      BY <2>4
  <1>3. Nat \subseteq T
    <2> HIDE DEF T
    <2> QED
      BY <1>1, <1>2, SetInduction
  <1> QED
    BY <1>3

LEMMA ReplaySteps ==
    ASSUME NEW saved
    PROVE  \E f : /\ IsReplay(f, saved, Limit)
                  /\ ReplayLoop(saved) = f[Limit]
  <1> DEFINE after == CHOOSE f : IsReplay(f, saved, Limit)
  <1>1. \E f : IsReplay(f, saved, Limit)
    BY LimitAssumption, ReplayExists
  <1>2. IsReplay(after, saved, Limit)
    BY <1>1
  <1>3. ReplayLoop(saved) = after[Limit]
    BY DEF ReplayLoop, IsReplay
  <1> HIDE DEF after
  <1> QED
    BY <1>2, <1>3

\* Where a replay is once it has applied the first m rounds of the server.
ReplayedTo(r, m) ==
    \E file, rounds \in Seq(Seq(Action)) :
        /\ r = [file |-> file, rounds |-> rounds, error |-> FALSE]
        /\ Len(file) = Len(replay) - m
        /\ \A i \in 1 .. Len(replay) - m : file[i] = replay[m + i]
        /\ Len(rounds) = m
        /\ \A i \in 1 .. m : rounds[i] = log[Server][i]

\* Before the last round of the server the game is not over, and there is a
\* list left in the file: the one of the next round.
LEMMA ReplayedOnce ==
    ASSUME HistoryInvariant, RecordInvariant, spc = "done",
           NEW m \in Nat, m < Len(published), NEW r, ReplayedTo(r, m)
    PROVE  ~Over(r.rounds) /\ ReplayedTo(ReplayRound(r), m + 1)
  <1> USE DEF HistoryInvariant
  <1>1. /\ Len(published) \in Nat /\ Len(replay) = Len(published)
        /\ \A i \in 1 .. Len(published) : /\ log[Server][i] = published[i].actions
                                          /\ replay[i] = published[i].actions
    BY LenProperties DEF RecordInvariant, ServerHistory, TypeOK
  <1>2. PICK file \in Seq(Seq(Action)), rounds \in Seq(Seq(Action)) :
           /\ r = [file |-> file, rounds |-> rounds, error |-> FALSE]
           /\ Len(file) = Len(published) - m /\ Len(rounds) = m
           /\ \A i \in 1 .. Len(published) - m : file[i] = replay[m + i]
           /\ \A i \in 1 .. m : rounds[i] = log[Server][i]
    BY <1>1 DEF ReplayedTo
  <1>3. ~Over(rounds)
    <2>1. DOMAIN rounds = 1 .. m
      BY <1>2, LenProperties
    <2>2. ASSUME NEW i \in 1 .. m, NEW a \in ToSet(rounds[i])
          PROVE  ~a.ends
      <3>1. i \in 1 .. Len(published) /\ i < Len(published)
        BY <1>1
      <3>2. rounds[i] = published[i].actions
        BY <1>1, <1>2, <3>1
      <3> QED
        BY <3>1, <3>2 DEF RecordInvariant
    <2>3. ~(m >= Limit)
      BY <1>1, LimitAssumption DEF RecordInvariant
    <2> QED
      BY <1>2, <2>1, <2>2, <2>3 DEF Over
  <1>4. /\ file # <<>> /\ Head(file) = replay[m + 1] /\ Head(file) \in Seq(Action)
        /\ Tail(file) \in Seq(Seq(Action)) /\ Len(Tail(file)) = Len(file) - 1
        /\ \A i \in 1 .. Len(file) - 1 : Tail(file)[i] = file[i + 1]
    <2>1. Len(file) \in Nat \ {0} /\ 1 \in 1 .. Len(published) - m
      BY <1>1, <1>2
    <2>2. PICK lists : lists = Seq(Action)
      OBVIOUS
    <2>3. file \in Seq(lists) /\ file # <<>>
      BY <2>1, <2>2, EmptySeq
    <2>4. /\ Head(file) = file[1] /\ Head(file) \in lists /\ Tail(file) \in Seq(lists)
          /\ Len(Tail(file)) = Len(file) - 1
          /\ \A i \in 1 .. Len(file) - 1 : Tail(file)[i] = file[i + 1]
      BY <2>3, HeadTailProperties
    <2>5. file[1] = replay[m + 1]
      BY <1>2, <2>1
    <2> QED
      BY <2>2, <2>3, <2>4, <2>5
  <1>5. PICK after \in Seq(Seq(Action)) :
           /\ after = Applied(OpenRound(rounds), Head(file))
           /\ Len(after) = m + 1
           /\ \A i \in 1 .. m : after[i] = rounds[i]
           /\ after[m + 1] = Head(file)
    BY <1>2, <1>4, PlayedRounds, ZenonT(30)
  <1>6. PICK rest \in Seq(Seq(Action)) : rest = Tail(file)
    BY <1>4
  <1>7. ReplayRound(r) = [file |-> rest, rounds |-> after, error |-> FALSE]
    BY <1>2, <1>4, <1>5, <1>6 DEF ReplayRound
  <1>8. ASSUME NEW i \in 1 .. m + 1 PROVE after[i] = log[Server][i]
    <2>1. CASE i = m + 1
      <3>1. i \in 1 .. Len(published)
        BY <1>1, <2>1
      <3> QED
        BY <1>1, <1>4, <1>5, <2>1, <3>1
    <2>2. CASE i # m + 1
      <3>1. i \in 1 .. m
        BY <2>2
      <3> QED
        BY <1>2, <1>5, <3>1
    <2> QED
      BY <2>1, <2>2
  <1>9. ASSUME NEW i \in 1 .. Len(published) - (m + 1)
        PROVE  rest[i] = replay[(m + 1) + i]
    <2>1. i \in 1 .. Len(file) - 1 /\ i + 1 \in 1 .. Len(published) - m
      BY <1>1, <1>2
    <2>2. rest[i] = file[i + 1] /\ file[i + 1] = replay[m + (i + 1)]
      BY <1>2, <1>4, <1>6, <2>1
    <2>3. m + (i + 1) = (m + 1) + i
      BY <1>1
    <2> QED
      BY <2>2, <2>3
  <1>10. Len(rest) = Len(published) - (m + 1)
    BY <1>1, <1>2, <1>4, <1>6
  <1>11. PICK next \in Nat : next = m + 1
    OBVIOUS
  <1>12. PICK round : round = ReplayRound(r)
    OBVIOUS
  <1>13. /\ Len(rest) = Len(replay) - next /\ Len(after) = next
         /\ \A i \in 1 .. Len(replay) - next : rest[i] = replay[next + i]
         /\ \A i \in 1 .. next : after[i] = log[Server][i]
    BY <1>1, <1>5, <1>8, <1>9, <1>10, <1>11
  <1>14. ReplayedTo(round, next)
    BY <1>7, <1>12, <1>13 DEF ReplayedTo
  <1>15. ~Over(r.rounds)
    BY <1>2, <1>3
  <1> QED
    BY <1>11, <1>12, <1>14, <1>15

\* A match that is over is played again by its file, round by round and up to
\* the result: the replay stops after the round in which the server stopped,
\* because no earlier round has ended the game, and finds a list for each.
THEOREM ReplayFollows == Spec => []ReplayRebuilds
  <1>1. ASSUME HistoryInvariant, RecordInvariant PROVE ReplayRebuilds
    <2> USE <1>1
    <2> SUFFICES ASSUME spc = "done"
                 PROVE  /\ ~ReplayLoop(replay).error /\ ReplayLoop(replay).file = <<>>
                        /\ ReplayLoop(replay).rounds = log[Server]
      BY DEF ReplayRebuilds
    <2>1. PICK f : IsReplay(f, replay, Limit) /\ ReplayLoop(replay) = f[Limit]
      BY ReplaySteps
    <2>2. PICK len \in Nat : len = Len(published) /\ len = Len(replay) /\ len <= Limit
      BY LenProperties DEF HistoryInvariant, TypeOK, RecordInvariant
    <2>3. /\ log[Server] \in Seq(Seq(Action)) /\ Len(log[Server]) = len /\ Over(log[Server])
          /\ replay \in Seq(Seq(Action))
      BY <2>2, ProcFacts
         DEF HistoryInvariant, TypeOK, ServerHistory, Collecting, RecordInvariant
    <2> DEFINE Reached(n) == IF n <= len THEN n ELSE len
               T == {n \in Nat : n <= Limit => ReplayedTo(f[n], Reached(n))}
    <2>4. ASSUME NEW r, ReplayedTo(r, len)
          PROVE  r.rounds = log[Server] /\ r.file = <<>> /\ ~r.error
      <3>1. PICK file \in Seq(Seq(Action)), rounds \in Seq(Seq(Action)) :
               /\ r = [file |-> file, rounds |-> rounds, error |-> FALSE]
               /\ Len(file) = Len(replay) - len /\ Len(rounds) = len
               /\ \A i \in 1 .. len : rounds[i] = log[Server][i]
        BY <2>4 DEF ReplayedTo
      <3>2. file = <<>>
        <4>1. Len(file) = 0
          BY <2>2, <3>1
        <4>2. PICK lists : lists = Seq(Action)
          OBVIOUS
        <4>3. file \in Seq(lists)
          BY <4>2
        <4> QED
          BY <4>1, <4>3, EmptySeq
      <3>3. rounds = log[Server]
        <4>1. PICK s \in Seq(Seq(Action)) : s = log[Server]
          BY <2>3
        <4>2. Len(s) = Len(rounds) /\ \A i \in 1 .. Len(rounds) : rounds[i] = s[i]
          BY <2>3, <3>1, <4>1
        <4>3. PICK lists : lists = Seq(Action)
          OBVIOUS
        <4>4. s \in Seq(lists) /\ rounds \in Seq(lists)
          BY <4>3
        <4>5. rounds = s
          BY <4>2, <4>4, SeqEqual
        <4> QED
          BY <4>1, <4>5
      <3> QED
        BY <3>1, <3>2, <3>3
    <2>5. 0 \in T
      <3>1. 0 \in 0 .. Limit /\ Reached(0) = 0
        BY <2>2, LimitAssumption
      <3>2. f[0] = [file |-> replay, rounds |-> <<>>, error |-> FALSE]
        BY <2>1, <3>1 DEF IsReplay, ReplayInit
      <3>3. <<>> \in Seq(Seq(Action)) /\ Len(<<>>) = 0
        BY EmptySeq
      <3>4. /\ Len(replay) = Len(replay) - 0
            /\ \A i \in 1 .. Len(replay) - 0 : replay[i] = replay[0 + i]
            /\ \A i \in 1 .. 0 : <<>>[i] = log[Server][i]
        BY <2>2
      <3>5. ReplayedTo(f[0], 0)
        BY <2>3, <3>2, <3>3, <3>4 DEF ReplayedTo
      <3> QED
        BY <3>1, <3>5
    <2>6. ASSUME NEW n \in Nat, n \in T PROVE n + 1 \in T
      <3>1. PICK m \in Nat : m = n + 1
        OBVIOUS
      <3> SUFFICES ASSUME m <= Limit PROVE ReplayedTo(f[m], Reached(m))
        BY <3>1
      <3>2. m \in 0 .. Limit /\ m # 0 /\ m - 1 = n /\ n <= Limit
        BY <3>1, LimitAssumption
      <3>3. f[m] = IF f[n].error \/ Over(f[n].rounds) THEN f[n] ELSE ReplayRound(f[n])
        BY <2>1, <3>2 DEF IsReplay
      <3>4. ReplayedTo(f[n], Reached(n))
        BY <2>6, <3>2
      <3>5. CASE n < len
        <4>1. Reached(n) = n /\ Reached(m) = n + 1
          BY <2>2, <3>1, <3>5
        <4>2. /\ ~Over(f[n].rounds) /\ ReplayedTo(ReplayRound(f[n]), n + 1)
          <5>1. PICK r : r = f[n] /\ ReplayedTo(r, n)
            BY <3>4, <4>1
          <5>2. ~Over(r.rounds) /\ ReplayedTo(ReplayRound(r), n + 1)
            BY <2>2, <3>5, <5>1, ReplayedOnce
          <5> QED
            BY <5>1, <5>2
        <4>3. ~f[n].error
          BY <3>4 DEF ReplayedTo
        <4> QED
          BY <3>3, <4>1, <4>2, <4>3
      <3>6. CASE ~(n < len)
        <4>1. Reached(n) = len /\ Reached(m) = len
          BY <2>2, <3>1, <3>6
        <4>2. Over(f[n].rounds)
          BY <2>3, <2>4, <3>4, <4>1
        <4> QED
          BY <3>3, <3>4, <4>1, <4>2
      <3> QED
        BY <3>5, <3>6
    <2>7. Nat \subseteq T
      <3> HIDE DEF T
      <3> QED
        BY <2>5, <2>6, SetInduction
    <2>8. ReplayedTo(f[Limit], len)
      <3>1. Limit \in Nat /\ Reached(Limit) = len
        BY <2>2, LimitAssumption
      <3> QED
        BY <2>7, <3>1
    <2> QED
      BY <2>1, <2>4, <2>8
  <1>2. Init => RecordInvariant
    BY RecordInit
  <1>3. HistoryInvariant /\ HistoryInvariant' /\ RecordInvariant /\ [Next]_vars
            => RecordInvariant'
    BY RecordNext
  <1> QED
    BY <1>1, <1>2, <1>3, HistoryHolds, PTL DEF Spec
=============================================================================
