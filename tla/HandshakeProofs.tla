-------------------------- MODULE HandshakeProofs --------------------------
(***************************************************************************)
(* Theorems about Handshake, for any number of seats, any clients naming   *)
(* any ids, stale requests and late subscriptions.                         *)
(***************************************************************************)
EXTENDS Handshake, FiniteSetTheorems, SequenceTheorems, TLAPS

-----------------------------------------------------------------------------
(* The inductive invariant: each list holds ids of its own range, each      *)
(* once, and the match does not start before there are enough of them.      *)

OncePerId(list) == \A m1, m2 \in list : m1.id = m2.id => m1 = m2

SeatInvariant ==
    /\ players \subseteq [id : PlayerIds, from : Applicant]
    /\ spectators \subseteq [id : SpectatorIds, from : Applicant]
    /\ OncePerId(players)
    /\ OncePerId(spectators)
    /\ phase # "waiting" => Complete

\* A list that holds every id at most once is no longer than its range, and
\* fills it when it is as long.
LEMMA ListFits ==
    ASSUME NEW S, IsFiniteSet(S), NEW list \in SUBSET [id : S, from : Applicant],
           OncePerId(list)
    PROVE  /\ IsFiniteSet(list)
           /\ Cardinality(list) \in Nat
           /\ Cardinality(list) <= Cardinality(S)
           /\ Cardinality(list) = Cardinality(S) => Ids(list) = S
  <1> DEFINE f == [m \in list |-> m.id]
  <1>1. f \in Injection(list, S)
    BY DEF OncePerId, Injection, IsInjective
  <1>2. /\ IsFiniteSet(list)
        /\ Cardinality(list) <= Cardinality(S)
        /\ Cardinality(list) = Cardinality(S) <=> f \in Surjection(list, S)
    BY <1>1, FS_Injection
  <1>3. Cardinality(list) \in Nat
    BY <1>2, FS_CardinalityType
  <1>4. ASSUME f \in Surjection(list, S) PROVE Ids(list) = S
    <2>1. \A i \in S : \E m \in list : f[m] = i
      BY <1>4 DEF Surjection
    <2>2. Ids(list) \subseteq S
      BY DEF Ids
    <2>3. S \subseteq Ids(list)
      BY <2>1 DEF Ids
    <2> QED
      BY <2>2, <2>3
  <1> QED
    BY <1>2, <1>3, <1>4

\* The number of seats of each kind.
LEMMA SeatCount ==
    /\ IsFiniteSet(PlayerIds) /\ Cardinality(PlayerIds) = NbPlayers
    /\ IsFiniteSet(SpectatorIds) /\ Cardinality(SpectatorIds) = NbSpectators
  <1>1. IsFiniteSet(PlayerIds) /\ Cardinality(PlayerIds) = NbPlayers
    <2>1. 0 \in Int /\ NbPlayers - 1 \in Int /\ ~(0 > NbPlayers - 1)
      BY SeatAssumption
    <2>2. Cardinality(PlayerIds) = (NbPlayers - 1) - 0 + 1 /\ IsFiniteSet(PlayerIds)
      BY <2>1, FS_Interval DEF PlayerIds
    <2> QED
      BY <2>2, SeatAssumption
  <1>2. IsFiniteSet(SpectatorIds) /\ Cardinality(SpectatorIds) = NbSpectators
    <2>1. /\ NbPlayers \in Int /\ NbClients - 1 \in Int
          /\ (IF NbPlayers > NbClients - 1 THEN 0 ELSE (NbClients - 1) - NbPlayers + 1)
                 = NbSpectators
      BY SeatAssumption DEF NbClients
    <2> QED
      BY <2>1, FS_Interval DEF SpectatorIds
  <1> QED
    BY <1>1, <1>2

\* Enough clients in all is enough clients of each kind: neither list can
\* hold more than its share.
LEMMA CompleteFillsSeats ==
    ASSUME SeatInvariant, Complete
    PROVE  /\ Ids(players) = PlayerIds /\ Cardinality(players) = NbPlayers
           /\ Ids(spectators) = SpectatorIds /\ Cardinality(spectators) = NbSpectators
  <1>1. /\ Cardinality(players) \in Nat /\ Cardinality(players) <= NbPlayers
        /\ Cardinality(players) = NbPlayers => Ids(players) = PlayerIds
    BY ListFits, SeatCount DEF SeatInvariant
  <1>2. /\ Cardinality(spectators) \in Nat /\ Cardinality(spectators) <= NbSpectators
        /\ Cardinality(spectators) = NbSpectators => Ids(spectators) = SpectatorIds
    BY ListFits, SeatCount DEF SeatInvariant
  <1>3. Cardinality(players) = NbPlayers /\ Cardinality(spectators) = NbSpectators
    BY <1>1, <1>2, SeatAssumption DEF Complete, NbClients
  <1> QED
    BY <1>1, <1>2, <1>3

LEMMA SeatInit == Init => SeatInvariant
  BY DEF Init, SeatInvariant, OncePerId

LEMMA SeatConnect ==
    ASSUME SeatInvariant, ReceiveConnect
    PROVE  SeatInvariant'
  <1> USE DEF SeatInvariant
  <1>1. PICK a \in Applicant :
         /\ players' = IF Granted(a) # Invalid /\ kind[a] = "player"
                       THEN players \union {[id |-> Granted(a), from |-> a]}
                       ELSE players
         /\ spectators' = IF Granted(a) # Invalid /\ kind[a] = "spectator"
                          THEN spectators \union {[id |-> Granted(a), from |-> a]}
                          ELSE spectators
    BY DEF ReceiveConnect
  <1>2. Granted(a) # Invalid => ~Used(Granted(a)) /\ SeatOf(a, Granted(a))
    BY DEF Granted
  <1>3. /\ players' \subseteq [id : PlayerIds, from : Applicant]
        /\ OncePerId(players)'
    BY <1>1, <1>2 DEF SeatOf, Used, OncePerId
  <1>4. /\ spectators' \subseteq [id : SpectatorIds, from : Applicant]
        /\ OncePerId(spectators)'
    BY <1>1, <1>2 DEF SeatOf, Used, OncePerId
  <1>5. phase' = "waiting"
    BY DEF ReceiveConnect
  <1> QED
    BY <1>3, <1>4, <1>5

LEMMA SeatNext ==
    ASSUME SeatInvariant, [Next]_vars
    PROVE  SeatInvariant'
  <1>1. CASE ReceiveConnect
    BY <1>1, SeatConnect
  <1>2. CASE ~ReceiveConnect
    <2>1. UNCHANGED <<players, spectators>>
      BY <1>2 DEF Next, ServerStep, IgnoreRequest, PushPlayers, PushSpectators,
         PushGameStart, LateConnect, ClientStep, Connect, Subscribe, GetId,
         PullMessage, vars
    <2>2. phase' # "waiting" => Complete
      BY <1>2 DEF Next, ServerStep, IgnoreRequest, PushPlayers, PushSpectators,
         PushGameStart, LateConnect, ClientStep, Connect, Subscribe, GetId,
         PullMessage, vars, SeatInvariant
    <2> QED
      BY <2>1, <2>2 DEF SeatInvariant, OncePerId, Complete
  <1> QED
    BY <1>1, <1>2

\* The match never starts before every seat, of a player as of a spectator,
\* is taken by exactly one client: the server counts them together only, and
\* the ranges of their ids do the rest.
THEOREM EverySeatIsTaken == Spec => []SeatsFilled
  <1>1. SeatInvariant => SeatsFilled
    BY CompleteFillsSeats DEF SeatInvariant, SeatsFilled
  <1>2. SeatInvariant /\ [Next]_vars => SeatInvariant'
    BY SeatNext
  <1> QED
    BY <1>1, <1>2, SeatInit, PTL DEF Spec

-----------------------------------------------------------------------------
(* Seats and ids: what a client believes, or will when its reply reaches   *)
(* it, is what the server has in its lists.                                *)

Seated == {"wait_players", "wait_spectators", "wait_start", "playing"}

Members == players \union spectators

Request(a) == [from |-> a, type |-> "connect"]

\* The client has that seat in the list of its kind and no other seat.
Holds(a, i) ==
    /\ [id |-> i, from |-> a] \in IF kind[a] = "player" THEN players ELSE spectators
    /\ \A m \in Members : m.from = a => m.id = i

NoSeat(a) == \A m \in Members : m.from # a

HeldOrRefused(a, i) == IF i = Invalid THEN NoSeat(a) ELSE Holds(a, i)

ReplyInvariant ==
    /\ replies \subseteq [to : Applicant, id : Int]
    /\ cst \in [Applicant -> {"new", "wait_id", "fatal"} \union Seated]
    /\ id \in [Applicant -> Int]
    /\ kind \in [Applicant -> {"player", "spectator"}]
    /\ \A a \in Applicant :
          /\ cst[a] = "new" => Request(a) \notin requests /\ NoSeat(a)
          /\ Request(a) \in requests =>
                /\ cst[a] = "wait_id"
                /\ NoSeat(a)
                /\ \A reply \in replies : reply.to # a
          /\ cst[a] \in Seated => id[a] # Invalid /\ Holds(a, id[a])
    /\ \A reply \in replies :
          cst[reply.to] = "wait_id" /\ HeldOrRefused(reply.to, reply.id)
    /\ \A r1, r2 \in replies : r1.to = r2.to => r1 = r2

\* A connection gives a seat nobody has to a client that has none.
LEMMA ReplyConnect ==
    ASSUME SeatInvariant, ReplyInvariant, ReceiveConnect
    PROVE  ReplyInvariant'
  <1> USE DEF ReplyInvariant
  <1>a. PICK a \in Applicant :
          /\ Request(a) \in requests
          /\ requests' = requests \ {Request(a)}
          /\ replies' = replies \union {[to |-> a, id |-> Granted(a)]}
          /\ players' = IF Granted(a) # Invalid /\ kind[a] = "player"
                        THEN players \union {[id |-> Granted(a), from |-> a]}
                        ELSE players
          /\ spectators' = IF Granted(a) # Invalid /\ kind[a] = "spectator"
                           THEN spectators \union {[id |-> Granted(a), from |-> a]}
                           ELSE spectators
    BY DEF ReceiveConnect, Request
  <1>b. PICK i : i = Granted(a)
    OBVIOUS
  <1>1. /\ i = Granted(a)
        /\ Request(a) \in requests
        /\ requests' = requests \ {Request(a)}
        /\ replies' = replies \union {[to |-> a, id |-> i]}
        /\ players' = IF i # Invalid /\ kind[a] = "player"
                      THEN players \union {[id |-> i, from |-> a]} ELSE players
        /\ spectators' = IF i # Invalid /\ kind[a] = "spectator"
                         THEN spectators \union {[id |-> i, from |-> a]}
                         ELSE spectators
    BY <1>a, <1>b
  <1>2. UNCHANGED <<kind, cst, id>>
    BY DEF ReceiveConnect, flags
  <1>3. /\ cst[a] = "wait_id" /\ NoSeat(a)
        /\ \A reply \in replies : reply.to # a
    BY <1>1
  <1>4. i \in Int
    BY <1>1, SeatAssumption
       DEF Granted, SeatOf, PlayerIds, SpectatorIds, Invalid, NbClients
  <1>5. ASSUME NEW b \in Applicant \ {a}
        PROVE  /\ Request(b) \in requests' <=> Request(b) \in requests
               /\ NoSeat(b)' <=> NoSeat(b)
               /\ \A j : Holds(b, j) => Holds(b, j)'
    BY <1>1, <1>2 DEF Request, NoSeat, Holds, Members
  <1>6. HeldOrRefused(a, i)'
    <2>1. CASE i = Invalid
      BY <1>1, <1>3, <2>1 DEF HeldOrRefused, NoSeat, Members
    <2>2. CASE i # Invalid
      <3>1. kind[a] \in {"player", "spectator"}
        OBVIOUS
      <3>2. Members' = Members \union {[id |-> i, from |-> a]}
        BY <1>1, <2>2, <3>1 DEF Members
      <3>3. \A m \in Members' : m.from = a => m.id = i
        BY <1>3, <3>2 DEF NoSeat
      <3>4. [id |-> i, from |-> a] \in
               IF kind'[a] = "player" THEN players' ELSE spectators'
        BY <1>1, <1>2, <2>2, <3>1
      <3> QED
        BY <2>2, <3>3, <3>4 DEF HeldOrRefused, Holds
    <2> QED
      BY <2>1, <2>2
  <1>7. ASSUME NEW b \in Applicant
        PROVE  /\ cst'[b] = "new" => Request(b) \notin requests' /\ NoSeat(b)'
               /\ Request(b) \in requests' =>
                    /\ cst'[b] = "wait_id"
                    /\ NoSeat(b)'
                    /\ \A reply \in replies' : reply.to # b
               /\ cst'[b] \in Seated => id'[b] # Invalid /\ Holds(b, id[b])'
    <2>1. CASE b = a
      BY <1>1, <1>2, <1>3, <2>1 DEF Seated
    <2>2. CASE b # a
      <3>1. \A reply \in replies' : reply.to = b => reply \in replies
        BY <1>1, <2>2
      <3>2. Holds(b, id[b]) => Holds(b, id[b])'
        BY <1>2, <1>5, <2>2
      <3> QED
        BY <1>2, <1>5, <2>2, <3>1, <3>2
    <2> QED
      BY <2>1, <2>2
  <1>8. ASSUME NEW reply \in replies'
        PROVE  cst'[reply.to] = "wait_id" /\ HeldOrRefused(reply.to, reply.id)'
    <2>1. CASE reply \in replies
      BY <1>2, <1>3, <1>5, <2>1 DEF HeldOrRefused
    <2>2. CASE reply = [to |-> a, id |-> i]
      BY <1>2, <1>3, <1>6, <2>2
    <2> QED
      BY <1>1, <2>1, <2>2
  <1>9. \A r1, r2 \in replies' : r1.to = r2.to => r1 = r2
    BY <1>1, <1>3
  <1> QED
    BY <1>1, <1>2, <1>4, <1>7, <1>8, <1>9

\* The reply is what the client believes from then on.
LEMMA ReplyGetId ==
    ASSUME ReplyInvariant, NEW a \in Applicant, GetId(a)
    PROVE  ReplyInvariant'
  <1> USE DEF ReplyInvariant
  <1>1. PICK reply \in replies :
          /\ reply.to = a
          /\ replies' = replies \ {reply}
          /\ id' = [id EXCEPT ![a] = reply.id]
          /\ cst' = [cst EXCEPT ![a] =
                        IF reply.id = Invalid THEN "fatal" ELSE "wait_players"]
    BY DEF GetId
  <1>2. UNCHANGED <<kind, players, spectators, requests>>
    BY DEF GetId, flags
  <1>3. \A b \in Applicant : \A i :
          (NoSeat(b)' <=> NoSeat(b)) /\ (Holds(b, i)' <=> Holds(b, i))
    BY <1>2 DEF NoSeat, Holds, Members
  <1>4. \A r \in replies' : r.to # a /\ HeldOrRefused(r.to, r.id)'
    BY <1>1, <1>3 DEF HeldOrRefused
  <1>5. reply.id # Invalid => Holds(a, reply.id)
    BY <1>1 DEF HeldOrRefused
  <1>6. cst[a] = "wait_id" /\ Request(a) \notin requests
    BY <1>1
  <1>7. Holds(a, reply.id) => Holds(a, id[a])'
    BY <1>1, <1>2 DEF Holds, Members
  <1>8. \A b \in Applicant \ {a} : Holds(b, id[b]) => Holds(b, id[b])'
    BY <1>1, <1>2 DEF Holds, Members
  <1> QED
    BY <1>1, <1>2, <1>3, <1>4, <1>5, <1>6, <1>7, <1>8 DEF Seated

LEMMA ReplyNext ==
    ASSUME SeatInvariant, ReplyInvariant, [Next]_vars
    PROVE  ReplyInvariant'
  <1> USE DEF ReplyInvariant
  <1>1. CASE ReceiveConnect
    BY <1>1, ReplyConnect
  <1>2. CASE \E a \in Applicant : GetId(a)
    BY <1>2, ReplyGetId
  <1>3. ASSUME NEW a \in Applicant, Connect(a) PROVE ReplyInvariant'
    <2>1. /\ requests' = requests \union {Request(a)}
          /\ cst[a] = "new"
          /\ cst' = [cst EXCEPT ![a] = "wait_id"]
          /\ UNCHANGED <<kind, id, players, spectators, replies>>
      BY <1>3 DEF Connect, Request, flags
    <2>2. \A b \in Applicant : \A i :
            /\ NoSeat(b)' <=> NoSeat(b)
            /\ Holds(b, i)' <=> Holds(b, i)
            /\ HeldOrRefused(b, i)' <=> HeldOrRefused(b, i)
      BY <2>1 DEF NoSeat, Holds, HeldOrRefused, Members
    <2>3. \A b \in Applicant : Holds(b, id[b])' <=> Holds(b, id[b])
      BY <2>1 DEF Holds, Members
    <2>4. \A reply \in replies : reply.to # a
      BY <2>1
    <2> QED
      BY <2>1, <2>2, <2>3, <2>4 DEF Request, Seated
  <1>4. ASSUME NEW a \in Applicant, PullMessage(a) PROVE ReplyInvariant'
    <2>1. /\ UNCHANGED <<kind, id, players, spectators, replies, requests>>
          /\ cst[a] \in Seated
          /\ cst' = cst \/ (\E state \in Seated : cst' = [cst EXCEPT ![a] = state])
      BY <1>4 DEF PullMessage, After, Seated, flags
    <2>2. \A b \in Applicant : \A i :
            /\ NoSeat(b)' <=> NoSeat(b)
            /\ Holds(b, i)' <=> Holds(b, i)
            /\ HeldOrRefused(b, i)' <=> HeldOrRefused(b, i)
      BY <2>1 DEF NoSeat, Holds, HeldOrRefused, Members
    <2>3. \A b \in Applicant : Holds(b, id[b])' <=> Holds(b, id[b])
      BY <2>1 DEF Holds, Members
    <2>4. \A b \in Applicant :
            /\ cst'[b] \in Seated <=> cst[b] \in Seated
            /\ cst[b] \notin Seated => cst'[b] = cst[b]
      BY <2>1
    <2> QED
      BY <2>1, <2>2, <2>3, <2>4 DEF Seated
  <1>5. CASE /\ UNCHANGED <<kind, id, cst, players, spectators, replies>>
             /\ requests' \subseteq requests
    BY <1>5 DEF NoSeat, Holds, HeldOrRefused, Members
  <1>6. CASE ~ReceiveConnect /\ ServerStep
    BY <1>5, <1>6 DEF ServerStep, IgnoreRequest, PushPlayers, PushSpectators,
                      PushGameStart, LateConnect, flags
  <1>7. CASE (\E a \in Applicant : Subscribe(a)) \/ UNCHANGED vars
    BY <1>5, <1>7 DEF Subscribe, vars, flags
  <1> QED
    BY <1>1, <1>2, <1>3, <1>4, <1>6, <1>7 DEF Next, ClientStep

\* A client that has an id is the only one with that seat, in the list of its
\* kind, and has no other: whatever the ids that clients ask for, the order of
\* requests and replies, and the requests left by an earlier match.
THEOREM EverySeatIsItsOwners == Spec => []SeatIsMine
  <1>1. Init => ReplyInvariant
    BY ApplicantAssumption
       DEF Init, ReplyInvariant, Request, NoSeat, Members, Seated, Invalid
  <1>2. SeatInvariant /\ ReplyInvariant => SeatIsMine
    <2> SUFFICES ASSUME SeatInvariant, ReplyInvariant,
                        NEW a \in Applicant, cst[a] \in Seated
                 PROVE  /\ {m \in Members : m.id = id[a] \/ m.from = a} =
                              {[id |-> id[a], from |-> a]}
                        /\ [id |-> id[a], from |-> a] \in
                              IF kind[a] = "player" THEN players ELSE spectators
      BY DEF SeatIsMine, Seated, Members
    <2>1. Holds(a, id[a])
      BY DEF ReplyInvariant
    <2>2. \A m1, m2 \in Members : m1.id = m2.id => m1 = m2
      BY SeatAssumption
         DEF SeatInvariant, OncePerId, Members, PlayerIds, SpectatorIds, NbClients
    <2>3. [id |-> id[a], from |-> a] \in Members
      BY <2>1 DEF Holds, Members
    <2>4. \A m \in Members : m.from = a => m = [id |-> id[a], from |-> a]
      BY <2>1, <2>2, <2>3 DEF Holds
    <2> QED
      BY <2>1, <2>2, <2>3, <2>4 DEF Holds
  <1>3. SeatInvariant /\ ReplyInvariant /\ [Next]_vars => SeatInvariant' /\ ReplyInvariant'
    BY SeatNext, ReplyNext
  <1> QED
    BY <1>1, <1>2, <1>3, SeatInit, PTL DEF Spec
-----------------------------------------------------------------------------
(* What a client knows of the others: what it has not pulled yet is the end *)
(* of what the server has published, from some message on, and what it has  *)
(* kept depends on how far it is in that stream only.                       *)

\* The three messages of the server, and how many of them it has published.
Message(i) ==
    IF i = 1 THEN [type |-> "players", list |-> players]
    ELSE IF i = 2 THEN [type |-> "players", list |-> spectators]
    ELSE [type |-> "gamestart"]

Sent == IF phase = "waiting" THEN 0
        ELSE IF phase = "spectators" THEN 1
        ELSE IF phase = "rules_init" THEN 2 ELSE 3

Messages == [type : {"players"}, list : SUBSET Member] \union [type : {"gamestart"}]

\* Client a has pulled or missed the first k messages.
HasPassed(a, k) ==
    /\ Len(inbox[a]) = Sent - k
    /\ \A i \in 1 .. Sent - k : inbox[a][i] = Message(k + i)
    /\ a \notin subscribed => k = Sent
    /\ cst[a] \in {"new", "wait_id", "fatal", "wait_players"} => roster[a] = <<>>
    /\ cst[a] = "wait_spectators" => k >= 1 /\ (k = 1 => roster[a] = <<players>>)
    /\ cst[a] \in {"wait_start", "playing"} =>
            k >= 2 /\ roster[a] = <<players, spectators>>

RosterInvariant ==
    /\ phase \in {"waiting", "spectators", "rules_init", "game", "dead"}
    /\ subscribed \subseteq Applicant
    /\ inbox \in [Applicant -> Seq(Messages)]
    /\ roster \in [Applicant -> Seq(SUBSET Member)]
    /\ \A a \in Applicant : \E k \in 0 .. Sent : HasPassed(a, k)

LEMMA ListsAreMembers ==
    ASSUME SeatInvariant
    PROVE  players \in SUBSET Member /\ spectators \in SUBSET Member
  BY DEF SeatInvariant, Member

\* What a sequence of one element becomes with a second one.
LEMMA AppendToSingle ==
    ASSUME NEW S, NEW s \in Seq(S), NEW y \in S, Len(s) = 1
    PROVE  /\ Append(s, y) \in Seq(S) /\ Len(Append(s, y)) = 2
           /\ Append(s, y)[1] = s[1] /\ Append(s, y)[2] = y
  <1>1. Append(s, y)[1] = s[1]
    OBVIOUS
  <1>2. Append(s, y) \in Seq(S)
    OBVIOUS
  <1>3. Len(Append(s, y)) = 2
    OBVIOUS
  <1>4. Append(s, y)[2] = y
    <2>1. Append(s, y)[Len(s) + 1] = y
      BY AppendProperties
    <2>2. Len(s) + 1 = 2
      OBVIOUS
    <2> QED
      BY <2>1, <2>2
  <1> QED
    BY <1>1, <1>2, <1>3, <1>4

LEMMA AppendToPair ==
    ASSUME NEW S, NEW s \in Seq(S), NEW y \in S, Len(s) = 1,
           NEW pair \in Seq(S), Len(pair) = 2, pair[1] = s[1], pair[2] = y
    PROVE  Append(s, y) = pair
  <1>1. \A i \in 1 .. Len(Append(s, y)) : Append(s, y)[i] = pair[i]
    BY AppendToSingle
  <1> QED
    BY <1>1, AppendToSingle, SeqEqual

LEMMA AppendToOne ==
    ASSUME NEW S, NEW x \in S, NEW y \in S
    PROVE  Append(<<x>>, y) = <<x, y>>
  <1>1. <<x>> \in Seq(S) /\ <<x, y>> \in Seq(S) /\ Len(<<x>>) = 1 /\ Len(<<x, y>>) = 2
    OBVIOUS
  <1>2. <<x, y>>[1] = <<x>>[1] /\ <<x, y>>[2] = y
    OBVIOUS
  <1> DEFINE s == <<x>>
             pair == <<x, y>>
  <1>3. s \in Seq(S) /\ pair \in Seq(S) /\ Len(s) = 1 /\ Len(pair) = 2
        /\ pair[1] = s[1] /\ pair[2] = y
    BY <1>1, <1>2
  <1> HIDE DEF s, pair
  <1>4. Append(s, y) = pair
    BY <1>3, AppendToPair
  <1> QED
    BY <1>4 DEF s, pair

\* A message that is published is the next one, for those who get it and for
\* those who do not.
LEMMA PublishNext ==
    ASSUME RosterInvariant, SeatInvariant,
           Publish(Message(Sent + 1)), phase' \in {"spectators", "rules_init", "game"},
           Sent' = Sent + 1, Sent \in 0 .. 2,
           UNCHANGED <<players, spectators, subscribed, cst, roster>>
    PROVE  RosterInvariant'
  <1> USE DEF RosterInvariant
  <1> DEFINE message == Message(Sent + 1)
  <1>1. message \in Messages
    BY ListsAreMembers DEF Message, Messages
  <1>2. ASSUME NEW a \in Applicant
        PROVE  inbox'[a] = IF a \in subscribed THEN Append(inbox[a], message) ELSE inbox[a]
    BY DEF Publish
  <1> HIDE DEF message
  <1>3. ASSUME NEW a \in Applicant
        PROVE  inbox'[a] \in Seq(Messages)
    <2>1. inbox[a] \in Seq(Messages)
      OBVIOUS
    <2>2. Append(inbox[a], message) \in Seq(Messages)
      BY <1>1, <2>1, AppendProperties
    <2> QED
      BY <1>2, <2>1, <2>2
  <1>4. inbox' \in [Applicant -> Seq(Messages)]
    BY <1>3 DEF Publish
  <1>5. \A i : Message(i)' = Message(i)
    BY DEF Message
  <1>6. ASSUME NEW a \in Applicant
        PROVE  \E k \in 0 .. Sent' : HasPassed(a, k)'
    <2>1. PICK k \in 0 .. Sent : HasPassed(a, k)
      OBVIOUS
    <2>2. inbox[a] \in Seq(Messages)
      OBVIOUS
    <2>3. CASE a \in subscribed
      <3>1. inbox'[a] = Append(inbox[a], message)
        BY <1>2, <2>3
      <3>2. /\ Len(inbox'[a]) = Len(inbox[a]) + 1
            /\ \A i \in 1 .. Len(inbox[a]) : inbox'[a][i] = inbox[a][i]
            /\ inbox'[a][Len(inbox[a]) + 1] = message
        BY <1>1, <2>2, <3>1, AppendProperties
      <3>3. Len(inbox[a]) = Sent - k
        BY <2>1 DEF HasPassed
      <3>4. Len(inbox'[a]) = Sent' - k
        BY <3>2, <3>3
      <3>5. ASSUME NEW i \in 1 .. Sent' - k
            PROVE  inbox'[a][i] = Message(k + i)'
        <4>1. CASE i \in 1 .. Sent - k
          BY <1>5, <2>1, <3>2, <3>3, <4>1 DEF HasPassed
        <4>2. CASE i = Sent - k + 1
          <5>1. k + i = Sent + 1
            BY <4>2
          <5> QED
            BY <1>5, <3>2, <3>3, <4>2, <5>1 DEF message
        <4> QED
          BY <4>1, <4>2
      <3> QED
        BY <2>1, <2>3, <3>4, <3>5 DEF HasPassed
    <2>4. CASE a \notin subscribed
      <3>1. inbox'[a] = inbox[a] /\ k = Sent
        BY <1>2, <2>1, <2>4 DEF HasPassed
      <3>2. HasPassed(a, k + 1)'
        BY <2>1, <2>4, <3>1 DEF HasPassed
      <3> QED
        BY <3>2
    <2> QED
      BY <2>3, <2>4
  <1> QED
    BY <1>4, <1>6

\* Pulling a message takes a client past it.
LEMMA PullNext ==
    ASSUME RosterInvariant, SeatInvariant, NEW a \in Applicant, PullMessage(a),
           cst \in [Applicant -> {"new", "wait_id", "fatal"} \union Seated]
    PROVE  RosterInvariant'
  <1> USE DEF RosterInvariant
  <1> DEFINE message == Head(inbox[a])
  <1>1. PICK k \in 0 .. Sent : HasPassed(a, k)
    OBVIOUS
  <1>2. inbox[a] \in Seq(Messages) /\ inbox[a] # <<>>
    BY DEF PullMessage
  <1>3. /\ inbox' = [inbox EXCEPT ![a] = Tail(@)]
        /\ UNCHANGED <<phase, players, spectators, subscribed>>
    BY DEF PullMessage
  <1>4. /\ Len(inbox[a]) \in Nat /\ Len(inbox[a]) >= 1
        /\ message = inbox[a][1]
        /\ Tail(inbox[a]) \in Seq(Messages)
        /\ Len(Tail(inbox[a])) = Len(inbox[a]) - 1
        /\ \A i \in 1 .. Len(inbox[a]) - 1 : Tail(inbox[a])[i] = inbox[a][i + 1]
    BY <1>2, EmptySeq, LenProperties, HeadTailProperties
  <1>5. Sent \in 0 .. 3 /\ Sent' = Sent
    BY <1>3 DEF Sent
  <1>6. /\ k + 1 \in 0 .. Sent /\ Len(inbox[a]) = Sent - k
        /\ message = Message(k + 1)
    BY <1>1, <1>4, <1>5 DEF HasPassed
  <1>7. \A i : Message(i)' = Message(i)
    BY <1>3 DEF Message
  <1>8. /\ Len(inbox'[a]) = Sent' - (k + 1)
        /\ \A i \in 1 .. Sent' - (k + 1) : inbox'[a][i] = Message((k + 1) + i)'
    <2>1. inbox'[a] = Tail(inbox[a])
      BY <1>3
    <2>2. Len(inbox'[a]) = Sent' - (k + 1)
      BY <1>4, <1>5, <1>6, <2>1
    <2>3. ASSUME NEW i \in 1 .. Sent - (k + 1)
          PROVE  inbox'[a][i] = Message((k + 1) + i)'
      <3>1. i + 1 \in 1 .. Sent - k /\ k + (i + 1) = (k + 1) + i
        BY <1>5
      <3>2. inbox'[a][i] = inbox[a][i + 1]
        BY <1>4, <1>5, <1>6, <2>1
      <3>3. inbox[a][i + 1] = Message(k + (i + 1))
        BY <1>1, <3>1 DEF HasPassed
      <3> QED
        BY <1>7, <3>1, <3>2, <3>3
    <2> QED
      BY <1>5, <2>2, <2>3
  <1>9. /\ a \in subscribed
        /\ cst[a] \in {"wait_players", "wait_spectators", "wait_start"}
    BY <1>1, <1>5, <1>6 DEF HasPassed, PullMessage
  <1>10. HasPassed(a, k + 1)' /\ roster' \in [Applicant -> Seq(SUBSET Member)]
    <2> USE <1>3, <1>8, <1>9
    <2>1. CASE message.type # Awaited(a)
      <3>1. cst' = cst /\ roster' = roster
        BY <2>1 DEF PullMessage
      <3>2. cst[a] = "wait_spectators" => k >= 1
        BY <1>1 DEF HasPassed
      <3> QED
        BY <1>1, <3>1, <3>2 DEF HasPassed
    <2>2. CASE message.type = Awaited(a) /\ cst[a] = "wait_start"
      <3>1. message.type = "gamestart"
        BY <2>2 DEF Awaited
      <3>2. cst'[a] = "playing" /\ roster' = roster
        BY <2>2, <3>1 DEF PullMessage, After
      <3> QED
        BY <1>1, <2>2, <3>2 DEF HasPassed
    <2>3. CASE message.type = Awaited(a) /\ cst[a] # "wait_start"
      <3>1. message.type = "players" /\ k + 1 \in {1, 2}
        <4>1. message.type = "players"
          BY <2>3 DEF Awaited
        <4> QED
          BY <1>5, <1>6, <4>1 DEF Message
      <3>2. message.list = IF k = 0 THEN players ELSE spectators
        BY <1>6, <3>1 DEF Message
      <3>3. /\ roster' = [roster EXCEPT ![a] = Append(@, message.list)]
            /\ cst' = [cst EXCEPT ![a] = After(@)]
        BY <2>3, <3>1 DEF PullMessage
      <3>4. roster'[a] = Append(roster[a], message.list)
        BY <3>3
      <3>5. message.list \in SUBSET Member
        BY <3>2, ListsAreMembers
      <3>6. roster' \in [Applicant -> Seq(SUBSET Member)]
        <4>1. roster[a] \in Seq(SUBSET Member)
          OBVIOUS
        <4>2. Append(roster[a], message.list) \in Seq(SUBSET Member)
          BY <3>5, <4>1, AppendProperties
        <4> QED
          BY <3>3, <4>2
      <3>7. CASE cst[a] = "wait_players"
        <4>1. roster[a] = <<>>
          BY <1>1, <3>7 DEF HasPassed
        <4>2. k = 0 => roster'[a] = <<players>>
          BY <3>2, <3>4, <4>1
        <4>3. cst'[a] = "wait_spectators"
          BY <3>3, <3>7 DEF After
        <4>4. k + 1 >= 1 /\ (k + 1 = 1 => k = 0)
          BY <1>5
        <4>5. HasPassed(a, k + 1)'
          BY <4>2, <4>3, <4>4 DEF HasPassed
        <4> QED
          BY <3>6, <4>5
      <3>8. CASE cst[a] = "wait_spectators"
        <4>1. k = 1 /\ roster[a] = <<players>>
          BY <1>1, <3>1, <3>8 DEF HasPassed
        <4>2. Append(<<players>>, spectators) = <<players, spectators>>
          BY ListsAreMembers, AppendToOne
        <4>3. roster'[a] = <<players, spectators>>
          BY <3>2, <3>4, <4>1, <4>2
        <4>4. cst'[a] = "wait_start"
          BY <3>3, <3>8 DEF After
        <4>5. HasPassed(a, k + 1)'
          BY <4>1, <4>3, <4>4 DEF HasPassed
        <4> QED
          BY <3>6, <4>5
      <3> QED
        BY <1>9, <2>3, <3>7, <3>8
    <2> QED
      BY <2>1, <2>2, <2>3
  <1>11. ASSUME NEW b \in Applicant \ {a}, NEW j \in 0 .. Sent, HasPassed(b, j)
         PROVE  HasPassed(b, j)'
    <2>1. inbox'[b] = inbox[b] /\ cst'[b] = cst[b] /\ roster'[b] = roster[b]
      BY <1>3 DEF PullMessage
    <2> QED
      BY <1>3, <1>5, <1>7, <1>11, <2>1 DEF HasPassed
  <1>12. inbox' \in [Applicant -> Seq(Messages)]
    BY <1>3, <1>4
  <1> QED
    BY <1>3, <1>5, <1>6, <1>10, <1>11, <1>12

\* Nothing is published while clients connect.
LEMMA RosterConnect ==
    ASSUME RosterInvariant, ReceiveConnect
    PROVE  RosterInvariant'
  <1> USE DEF RosterInvariant
  <1>1. /\ phase = "waiting"
        /\ UNCHANGED <<phase, subscribed, inbox, cst, roster>>
    BY DEF ReceiveConnect
  <1>2. Sent = 0 /\ Sent' = 0
    BY <1>1 DEF Sent
  <1>3. ASSUME NEW a \in Applicant
        PROVE  HasPassed(a, 0)'
    BY <1>1, <1>2 DEF HasPassed
  <1> QED
    BY <1>1, <1>2, <1>3

\* A client that subscribes has missed what was published before.
LEMMA RosterSubscribe ==
    ASSUME RosterInvariant, NEW a \in Applicant, Subscribe(a)
    PROVE  RosterInvariant'
  <1> USE DEF RosterInvariant
  <1>1. /\ subscribed' = subscribed \union {a}
        /\ UNCHANGED <<phase, players, spectators, inbox, cst, roster>>
    BY DEF Subscribe
  <1>2. Sent' = Sent /\ \A i : Message(i)' = Message(i)
    BY <1>1 DEF Sent, Message
  <1>3. \A b \in Applicant, k \in 0 .. Sent : HasPassed(b, k) => HasPassed(b, k)'
    BY <1>1, <1>2 DEF HasPassed
  <1> QED
    BY <1>1, <1>2, <1>3

\* Neither asking for a seat nor getting one shows a client any list.
LEMMA RosterSeat ==
    ASSUME RosterInvariant, ReplyInvariant, NEW a \in Applicant,
           Connect(a) \/ GetId(a)
    PROVE  RosterInvariant'
  <1> USE DEF RosterInvariant
  <1>1. /\ UNCHANGED <<phase, players, spectators, subscribed, inbox, roster>>
        /\ cst[a] \in {"new", "wait_id"}
        /\ \E state \in {"wait_id", "fatal", "wait_players"} :
               cst' = [cst EXCEPT ![a] = state]
    BY DEF Connect, GetId, ReplyInvariant
  <1>2. Sent' = Sent /\ \A i : Message(i)' = Message(i)
    BY <1>1 DEF Sent, Message
  <1>3. cst'[a] \in {"wait_id", "fatal", "wait_players"}
    BY <1>1 DEF ReplyInvariant
  <1>4. \A b \in Applicant \ {a} : cst'[b] = cst[b]
    BY <1>1
  <1>5. \A b \in Applicant, k \in 0 .. Sent : HasPassed(b, k) => HasPassed(b, k)'
    BY <1>1, <1>2, <1>3, <1>4 DEF HasPassed
  <1> QED
    BY <1>1, <1>2, <1>5

LEMMA RosterNext ==
    ASSUME SeatInvariant, ReplyInvariant, RosterInvariant, [Next]_vars
    PROVE  RosterInvariant'
  <1>1. CASE ReceiveConnect
    BY <1>1, RosterConnect
  <1>2. CASE PushPlayers
    <2>1. Sent = 0 /\ Sent' = 1
      BY <1>2 DEF PushPlayers, Sent
    <2>2. Publish(Message(Sent + 1))
      BY <1>2, <2>1 DEF PushPlayers, Message
    <2>3. Sent' = Sent + 1 /\ Sent \in 0 .. 2
      BY <2>1
    <2> QED
      BY <1>2, <2>2, <2>3, PublishNext DEF PushPlayers
  <1>3. CASE PushSpectators
    <2>1. Sent = 1 /\ Sent' = 2
      BY <1>3 DEF PushSpectators, Sent
    <2>2. Publish(Message(Sent + 1))
      BY <1>3, <2>1 DEF PushSpectators, Message
    <2>3. Sent' = Sent + 1 /\ Sent \in 0 .. 2
      BY <2>1
    <2> QED
      BY <1>3, <2>2, <2>3, PublishNext DEF PushSpectators
  <1>4. CASE PushGameStart
    <2>1. Sent = 2 /\ Sent' = 3
      BY <1>4 DEF PushGameStart, Sent
    <2>2. Publish(Message(Sent + 1))
      BY <1>4, <2>1 DEF PushGameStart, Message
    <2>3. Sent' = Sent + 1 /\ Sent \in 0 .. 2
      BY <2>1
    <2> QED
      BY <1>4, <2>2, <2>3, PublishNext DEF PushGameStart
  <1>5. CASE IgnoreRequest \/ LateConnect \/ UNCHANGED vars
    <2>1. UNCHANGED <<players, spectators, subscribed, inbox, cst, roster>>
      BY <1>5 DEF IgnoreRequest, LateConnect, vars
    <2>2. phase' = phase \/ (phase = "game" /\ phase' = "dead")
      BY <1>5 DEF IgnoreRequest, LateConnect, vars
    <2>3. Sent' = Sent /\ \A i : Message(i)' = Message(i)
      BY <2>1, <2>2 DEF Sent, Message
    <2>4. \A a \in Applicant, k \in 0 .. Sent : HasPassed(a, k) => HasPassed(a, k)'
      BY <2>1, <2>3 DEF HasPassed
    <2> QED
      BY <2>1, <2>2, <2>3, <2>4 DEF RosterInvariant
  <1>6. ASSUME NEW a \in Applicant, PullMessage(a) PROVE RosterInvariant'
    BY <1>6, PullNext DEF ReplyInvariant
  <1>7. ASSUME NEW a \in Applicant, Subscribe(a) PROVE RosterInvariant'
    BY <1>7, RosterSubscribe
  <1>8. ASSUME NEW a \in Applicant, Connect(a) \/ GetId(a) PROVE RosterInvariant'
    BY <1>8, RosterSeat
  <1> QED
    BY <1>1, <1>2, <1>3, <1>4, <1>5, <1>6, <1>7, <1>8
       DEF Next, ServerStep, ClientStep

LEMMA RosterInit == Init => RosterInvariant
  <1> SUFFICES ASSUME Init PROVE RosterInvariant
    OBVIOUS
  <1>1. Sent = 0 /\ subscribed = {}
    BY DEF Init, Sent
  <1>2. ASSUME NEW a \in Applicant
        PROVE  HasPassed(a, 0)
    BY <1>1 DEF Init, HasPassed
  <1> QED
    BY <1>1, <1>2 DEF Init, RosterInvariant

\* A client that waits for the start of the game, or plays, knows the players
\* and the spectators of the server, however late its subscription came: one
\* that has missed the list of players takes the list of spectators for it and
\* waits for ever, so that it never plays with the wrong lists.
THEOREM RosterIsShared == Spec => []RosterShared
  <1>1. Init => RosterInvariant
    BY RosterInit
  <1>2. RosterInvariant => RosterShared
    BY DEF RosterInvariant, HasPassed, RosterShared
  <1>3. Init => ReplyInvariant
    BY ApplicantAssumption
       DEF Init, ReplyInvariant, Request, NoSeat, Members, Seated, Invalid
  <1>4. SeatInvariant /\ ReplyInvariant /\ RosterInvariant /\ [Next]_vars =>
            SeatInvariant' /\ ReplyInvariant' /\ RosterInvariant'
    BY SeatNext, ReplyNext, RosterNext
  <1> QED
    BY <1>1, <1>2, <1>3, <1>4, SeatInit, PTL DEF Spec

-----------------------------------------------------------------------------
(* What the invariants leave of the types.                                  *)

RequestTypes ==
    /\ wanted \in [Applicant -> Wanted]
    /\ rep \in {"recv", "send"}
    /\ requests \subseteq [from : Applicant \union Stale, type : {"connect", "rules"}]

LEMMA RequestTypesNext ==
    ASSUME RequestTypes, [Next]_vars
    PROVE  RequestTypes'
  <1> USE DEF RequestTypes
  <1>1. CASE ServerStep
    BY <1>1 DEF ServerStep, ReceiveConnect, IgnoreRequest, PushPlayers,
                PushSpectators, PushGameStart, LateConnect, flags
  <1>2. ASSUME NEW a \in Applicant, Connect(a) PROVE RequestTypes'
    BY <1>2 DEF Connect, flags
  <1>3. ASSUME NEW a \in Applicant, Subscribe(a) \/ GetId(a) \/ PullMessage(a)
        PROVE  RequestTypes'
    BY <1>3 DEF Subscribe, GetId, PullMessage, flags
  <1>4. CASE UNCHANGED vars
    BY <1>4 DEF vars
  <1> QED
    BY <1>1, <1>2, <1>3, <1>4 DEF Next, ClientStep

\* The variables keep their types: what a client pulls is a list of seats or
\* the start of the game, and every seat given away is in range.
THEOREM TypeCorrect == Spec => []TypeOK
  <1>1. Init => RequestTypes
    BY DEF Init, RequestTypes
  <1>2. Init => ReplyInvariant
    BY ApplicantAssumption
       DEF Init, ReplyInvariant, Request, NoSeat, Members, Seated, Invalid
  <1>3. SeatInvariant /\ ReplyInvariant /\ RosterInvariant /\ RequestTypes => TypeOK
    BY ListsAreMembers
       DEF ReplyInvariant, RosterInvariant, RequestTypes, Seated, Messages, TypeOK
  <1>4. SeatInvariant /\ ReplyInvariant /\ RosterInvariant /\ RequestTypes /\ [Next]_vars =>
            SeatInvariant' /\ ReplyInvariant' /\ RosterInvariant' /\ RequestTypes'
    BY SeatNext, ReplyNext, RosterNext, RequestTypesNext
  <1> QED
    BY <1>1, <1>2, <1>3, <1>4, SeatInit, RosterInit, PTL DEF Spec
=============================================================================
