----------------------------- MODULE ApiProofs -----------------------------
(***************************************************************************)
(* Proofs about Api, for a game that clears its history after each turn    *)
(* and refuses actions before the first one; and about Sandbox: whatever   *)
(* the timing of the two threads, a sandboxed champion does to its client  *)
(* what Api says and nothing else.                                         *)
(***************************************************************************)
EXTENDS Sandbox, SequenceTheorems, TLAPS

-----------------------------------------------------------------------------
(* Actions and cancel: Api *)

\* What holds between turns, and the property of a turn that cancel rests on.
Inv ==
    /\ TypeOK
    /\ phase \in {"init", "idle"} => state = official /\ versions = <<>>
    /\ SentRebuildsState
    /\ CancelIsExact
    /\ NoEmptyPop

\* A copy of the state is worth one action of the list: appending to the list
\* is appending to what the server will have.
LEMMA ConcatAppend ==
  ASSUME NEW S, NEW s \in Seq(S), NEW t \in Seq(S), NEW e \in S
  PROVE  s \o Append(t, e) = Append(s \o t, e)
  BY AppendIsConcat, ConcatAssociative, ConcatProperties, IsASeq

\* The first actions of a list do not change when one is appended.
LEMMA PrefixOfAppend ==
  ASSUME NEW S, NEW s \in Seq(S), NEW e \in S, NEW i \in 0 .. Len(s)
  PROVE  SubSeq(Append(s, e), 1, i) = SubSeq(s, 1, i)
  OBVIOUS

\* Nor when the last one is dropped.
LEMMA PrefixOfFront ==
  ASSUME NEW S, NEW s \in Seq(S), s # <<>>, NEW i \in 0 .. Len(s) - 1
  PROVE  /\ Front(s) \in Seq(S)
         /\ Len(Front(s)) = Len(s) - 1
         /\ \A k \in 1 .. Len(s) - 1 : Front(s)[k] = s[k]
         /\ SubSeq(Front(s), 1, i) = SubSeq(s, 1, i)
  <1>1. Len(s) \in Nat /\ Len(s) >= 1
    BY EmptySeq, LenProperties
  <1>2. Front(s) = SubSeq(s, 1, Len(s) - 1)
    BY DEF Front
  <1>3. \A k \in 1 .. Len(s) - 1 : s[k] \in S
    BY <1>1, ElementOfSeq
  <1>4. /\ Front(s) \in Seq(S) /\ Len(Front(s)) = Len(s) - 1
        /\ \A k \in 1 .. Len(s) - 1 : Front(s)[k] = s[k]
    <2>1. /\ SubSeq(s, 1, Len(s) - 1) \in Seq(S)
          /\ Len(SubSeq(s, 1, Len(s) - 1)) =
                  IF 1 <= Len(s) - 1 THEN Len(s) - 1 - 1 + 1 ELSE 0
          /\ \A k \in 1 .. Len(s) - 1 - 1 + 1 :
                  SubSeq(s, 1, Len(s) - 1)[k] = s[1 + k - 1]
      BY <1>1, <1>3, SubSeqProperties
    <2>2. Len(SubSeq(s, 1, Len(s) - 1)) = Len(s) - 1
      <3>1. CASE Len(s) = 1
        <4>1. SubSeq(s, 1, Len(s) - 1) = <<>>
          BY <3>1, SubSeqEmpty
        <4> QED
          BY <3>1, <4>1
      <3>2. CASE 1 <= Len(s) - 1
        <4> DEFINE l == Len(s)
        <4>1. Len(SubSeq(s, 1, l - 1)) = l - 1 - 1 + 1
          BY <2>1, <3>2
        <4> HIDE DEF l
        <4>2. l \in Nat
          BY <1>1 DEF l
        <4>3. l - 1 - 1 + 1 = l - 1
          BY <4>2
        <4> QED
          BY <4>1, <4>3 DEF l
      <3>3. Len(s) = 1 \/ 1 <= Len(s) - 1
        <4>1. \A n \in Nat : n >= 1 => n = 1 \/ 1 <= n - 1
          OBVIOUS
        <4> QED
          BY <1>1, <4>1
      <3> QED
        BY <3>1, <3>2, <3>3
    <2>3. ASSUME NEW k \in 1 .. Len(s) - 1
          PROVE  SubSeq(s, 1, Len(s) - 1)[k] = s[k]
      <3>1. k \in 1 .. Len(s) - 1 - 1 + 1 /\ 1 + k - 1 = k
        BY <1>1
      <3> QED
        BY <2>1, <3>1
    <2> QED
      BY <1>2, <2>1, <2>2, <2>3
  <1>5. CASE i = 0
    BY <1>1, <1>4, <1>5, SubSeqEmpty
  <1>6. CASE i \in 1 .. Len(s) - 1
    <2>1. SubSeq(SubSeq(s, 1, Len(s) - 1), 1, i) = SubSeq(s, 1 + 1 - 1, 1 + i - 1)
      BY <1>1, <1>6, SubSeqOfSubSeq
    <2> QED
      BY <1>1, <1>2, <1>4, <1>6, <2>1
  <1> QED
    BY <1>1, <1>4, <1>5, <1>6

\* In every reachable state, for a game whose hooks clear the history and
\* whose check refuses to play before the first turn, cancel goes back to
\* the state before the last action of the turn and never further.
THEOREM Undo ==
  ASSUME ClearsHistory, ~PlaysInInit
  PROVE  Spec => []Inv
  <1>1. Init => Inv
    BY EmptySeq DEF Init, Inv, TypeOK, SentRebuildsState, CancelIsExact, NoEmptyPop
  <1>2. Inv /\ [Next]_vars => Inv'
    <2> SUFFICES ASSUME Inv, [Next]_vars PROVE Inv'
      OBVIOUS
    <2> USE DEF Inv, SentRebuildsState, CancelIsExact, NoEmptyPop
    <2>1. ASSUME NEW action \in [mine : {TRUE}, cell : Cell], Call(action)
          PROVE  Inv'
      <3>1. /\ phase = "turn" /\ action \in Action
            /\ state' = Append(state, action)
            /\ versions' = Append(versions, state)
            /\ official' = official
        BY <2>1 DEF Call, Act, Check, Save, Action
      <3>2. TypeOK'
        <4>1. Append(state, action) \in Seq(Action)
          BY <3>1, AppendProperties DEF TypeOK
        <4>2. Append(versions, state) \in Seq(Seq(Action))
          BY AppendProperties DEF TypeOK
        <4>3. Append(actions, action) \in Seq(Action)
          BY <3>1, AppendProperties DEF TypeOK
        <4> QED
          BY <2>1, <3>1, <4>1, <4>2, <4>3 DEF TypeOK, Call, Act
      <3>3. CASE Len(actions) >= MaxActions
        BY <2>1, <3>2, <3>3 DEF Call, Act
      <3>4. CASE ~(Len(actions) >= MaxActions)
        <4>1. actions' = Append(actions, action) /\ phase' = "turn"
          BY <2>1, <3>1, <3>4 DEF Call, Act
        <4>2. SentRebuildsState'
          <5>1. official \in Seq(Action) /\ actions \in Seq(Action)
            BY DEF TypeOK
          <5>2. official \o Append(actions, action) = Append(official \o actions, action)
            BY <3>1, <5>1, ConcatAppend
          <5> QED
            BY <3>1, <4>1, <5>2
        <4>3. Len(versions') = Len(actions')
          BY <3>1, <4>1 DEF TypeOK
        <4>4. ASSUME NEW i \in DOMAIN versions'
              PROVE  versions'[i] = official' \o SubSeq(actions', 1, i - 1)
          <5>1. i \in 1 .. Len(actions) + 1
            BY <3>1, <4>4 DEF TypeOK
          <5>2. SubSeq(actions', 1, i - 1) = SubSeq(actions, 1, i - 1)
            BY <3>1, <4>1, <5>1, PrefixOfAppend DEF TypeOK
          <5>3. CASE i = Len(actions) + 1
            <6>1. versions'[i] = state
              <7>1. Append(versions, state)[Len(versions) + 1] = state
                BY AppendProperties DEF TypeOK
              <7> QED
                BY <3>1, <5>3, <7>1
            <6>2. SubSeq(actions, 1, i - 1) = actions
              BY <5>3, SubSeqFull DEF TypeOK
            <6> QED
              BY <3>1, <5>2, <6>1, <6>2
          <5>4. CASE i \in 1 .. Len(actions)
            <6>1. versions'[i] = versions[i] /\ i \in DOMAIN versions
              BY <3>1, <5>4 DEF TypeOK
            <6> QED
              BY <3>1, <5>2, <6>1
          <5>5. i = Len(actions) + 1 \/ i \in 1 .. Len(actions)
            <6>1. Len(actions) \in Nat
              BY LenProperties DEF TypeOK
            <6> QED
              BY <5>1, <6>1
          <5> QED
            BY <5>3, <5>4, <5>5
        <4> QED
          BY <3>2, <4>1, <4>2, <4>3, <4>4
      <3> QED
        BY <3>3, <3>4
    <2>2. CASE Cancel
      <3>1. phase = "turn"
        BY <2>2 DEF Cancel, Revert
      <3>2. Len(versions) \in Nat /\ Len(versions) >= 1 /\ actions # <<>>
        BY <2>2, <3>1, EmptySeq, LenProperties DEF Cancel, Revert, TypeOK
      <3>3. /\ phase' = "turn"
            /\ actions' = Front(actions)
            /\ versions' = Front(versions)
            /\ state' = versions[Len(versions)]
            /\ official' = official
        BY <2>2, <3>1, <3>2 DEF Cancel, Revert, DropAction, Last
      <3>4. /\ actions' \in Seq(Action) /\ Len(actions') = Len(actions) - 1
            /\ versions' \in Seq(Seq(Action)) /\ Len(versions') = Len(versions) - 1
        <4>1. /\ versions # <<>> /\ versions \in Seq(Seq(Action))
              /\ actions \in Seq(Action) /\ Len(actions) = Len(versions)
          BY <2>2, <3>1 DEF TypeOK, Cancel, Revert
        <4>2. 0 \in 0 .. Len(versions) - 1
          BY <3>2
        <4>3. Front(actions) \in Seq(Action) /\ Len(Front(actions)) = Len(actions) - 1
          BY <3>2, <4>1, <4>2, PrefixOfFront
        <4>4. /\ Front(versions) \in Seq(Seq(Action))
              /\ Len(Front(versions)) = Len(versions) - 1
          BY <4>1, <4>2, PrefixOfFront
        <4> QED
          BY <3>3, <4>3, <4>4
      <3>5. TypeOK'
        <4>1. Len(versions) \in 1 .. Len(versions)
          BY <3>2
        <4>2. versions[Len(versions)] \in Seq(Action)
          BY <4>1, ElementOfSeq DEF TypeOK
        <4> QED
          BY <3>3, <3>4, <4>2 DEF TypeOK
      <3>6. SentRebuildsState'
        <4>1. state' = official \o SubSeq(actions, 1, Len(actions) - 1)
          <5>1. Len(versions) \in DOMAIN versions
            BY <3>2, LenProperties DEF TypeOK
          <5> QED
            BY <3>1, <3>3, <5>1
        <4> QED
          BY <3>3, <4>1 DEF Front
      <3>7. ASSUME NEW i \in DOMAIN versions'
            PROVE  versions'[i] = official' \o SubSeq(actions', 1, i - 1)
        <4>1. i \in 1 .. Len(versions) - 1 /\ i \in DOMAIN versions
          <5>1. versions' \in Seq(Seq(Action)) /\ Len(versions) \in Nat
            BY <3>5, LenProperties DEF TypeOK
          <5>2. DOMAIN versions' = 1 .. Len(versions') /\ DOMAIN versions = 1 .. Len(versions)
            BY <5>1, LenProperties DEF TypeOK
          <5> QED
            BY <3>2, <3>4, <3>7, <5>1, <5>2
        <4>2. versions'[i] = versions[i]
          <5>1. versions \in Seq(Seq(Action)) /\ versions # <<>>
            BY <2>2 DEF TypeOK, Cancel, Revert
          <5>2. 0 \in 0 .. Len(versions) - 1
            BY <3>2
          <5> QED
            BY <3>3, <4>1, <5>1, <5>2, PrefixOfFront
        <4>3. SubSeq(actions', 1, i - 1) = SubSeq(actions, 1, i - 1)
          <5>1. actions \in Seq(Action) /\ actions # <<>>
            BY <3>2 DEF TypeOK
          <5>2. i - 1 \in 0 .. Len(actions) - 1
            BY <3>1, <3>2, <4>1
          <5> QED
            BY <3>3, <5>1, <5>2, PrefixOfFront
        <4> QED
          BY <3>1, <3>3, <4>1, <4>2, <4>3
      <3> QED
        BY <3>1, <3>3, <3>4, <3>5, <3>6, <3>7
    <2>3. CASE StartMatch
      BY <2>3 DEF StartMatch, TypeOK
    <2>4. CASE StartTurn
      <3>1. official \o <<>> = official
        BY ConcatEmptySeq DEF TypeOK
      <3>2. TypeOK'
        BY <2>4, EmptySeq DEF StartTurn, ClearActions, TypeOK
      <3> QED
        BY <2>4, <3>1, <3>2 DEF StartTurn, ClearActions
    <2>5. CASE EndTurn
      <3>1. official \o actions \in Seq(Action)
        BY ConcatProperties DEF TypeOK
      <3>2. TypeOK'
        BY <2>5, <3>1, EmptySeq DEF EndTurn, ClearHistory, TypeOK
      <3> QED
        BY <2>5, <3>2 DEF EndTurn, ClearHistory
    <2>6. CASE ForeignTurn
      <3>1. TypeOK'
        <4>1. PICK action \in [mine : {FALSE}, cell : Cell] :
                /\ actions' = <<action>>
                /\ state' = Append(state, action)
                /\ official' = Append(official, action)
          BY <2>6 DEF ForeignTurn
        <4>2. action \in Action
          BY DEF Action
        <4>3. Append(state, action) \in Seq(Action)
          BY <4>2, AppendProperties DEF TypeOK
        <4>4. Append(official, action) \in Seq(Action)
          BY <4>2, AppendProperties DEF TypeOK
        <4>5. <<action>> \in Seq(Action)
          BY <4>2
        <4>6. versions' \in Seq(Seq(Action)) /\ phase' = phase
          BY <2>6, EmptySeq DEF ForeignTurn, ClearHistory, TypeOK
        <4> QED
          BY <4>1, <4>3, <4>4, <4>5, <4>6 DEF TypeOK
      <3> QED
        BY <2>6, <3>1 DEF ForeignTurn, ClearHistory
    <2>7. CASE GiveUp
      BY <2>7 DEF GiveUp, TypeOK
    <2>8. CASE UNCHANGED vars
      BY <2>8 DEF vars, TypeOK
    <2> QED
      BY <2>1, <2>2, <2>3, <2>4, <2>5, <2>6, <2>7, <2>8 DEF Next
  <1> QED
    BY <1>1, <1>2, PTL DEF Spec

\* The cancel of a game that clears its history goes back one action of the
\* turn, exactly.
THEOREM CancelGoesBackOneAction ==
  ASSUME ClearsHistory, ~PlaysInInit
  PROVE  Spec => []CancelIsExact
  <1>1. Inv => CancelIsExact
    BY DEF Inv
  <1> QED
    BY Undo, <1>1, PTL

\* What a champion has played and not cancelled is what its client sends.
THEOREM SentActionsRebuildTheState ==
  ASSUME ClearsHistory, ~PlaysInInit
  PROVE  Spec => []SentRebuildsState
  <1>1. Inv => SentRebuildsState
    BY DEF Inv
  <1> QED
    BY Undo, <1>1, PTL

\* Between turns the client and the server have the same game state.
THEOREM ClientAgreesWithServer ==
  ASSUME ClearsHistory, ~PlaysInInit
  PROVE  Spec => []AgreesWithServer
  <1>1. Inv => AgreesWithServer
    BY DEF Inv, AgreesWithServer
  <1> QED
    BY Undo, <1>1, PTL

\* In such a game cancel never removes an action from an empty list.
THEOREM NeverPopsEmpty ==
  ASSUME ClearsHistory, ~PlaysInInit
  PROVE  Spec => []NoEmptyPop
  <1>1. Inv => NoEmptyPop
    BY DEF Inv
  <1> QED
    BY Undo, <1>1, PTL

-----------------------------------------------------------------------------
(* The thread of the champion: Sandbox *)

\* The champion has a thread only while execute waits for it or unwinds, and
\* both are inside init_game or a turn.
SandboxInv ==
    /\ caller \in {"before", "joining", "throwing", "back", "stopped"}
    /\ thread \in {"none", "running", "returned", "ended"}
    /\ thread # "none" => caller \in {"joining", "throwing"}
    /\ caller \in {"before", "joining", "throwing"} => phase \in {"init", "turn"}

\* The thread of a champion never outlives the call that has created it, as
\* long as the process runs.
THEOREM ThreadHasACaller == SandboxSpec => []SandboxInv
  <1>1. SandboxInit => SandboxInv
    BY DEF SandboxInit, Init, SandboxInv
  <1>2. SandboxInv /\ [SandboxNext]_sandboxVars => SandboxInv'
    <2> SUFFICES ASSUME SandboxInv, [SandboxNext]_sandboxVars
                 PROVE  SandboxInv'
      OBVIOUS
    <2> USE DEF SandboxInv
    <2>1. CASE Execute
      BY <2>1 DEF Execute, vars
    <2>2. CASE Join
      BY <2>2 DEF Join, vars
    <2>3. CASE Expire
      BY <2>3 DEF Expire, vars
    <2>4. CASE Abort
      BY <2>4 DEF Abort
    <2>5. CASE GoOn
      BY <2>5 DEF GoOn
    <2>6. CASE EnterTurn
      BY <2>6 DEF EnterTurn, StartTurn
    <2>7. CASE SeeForeignTurn
      BY <2>7 DEF SeeForeignTurn, ForeignTurn
    <2>8. CASE ChampionActs
      <3>1. CASE phase' = phase
        BY <2>8, <3>1 DEF ChampionActs
      <3>2. CASE phase' # phase
        BY <2>8, <3>2 DEF ChampionActs
      <3> QED
        BY <3>1, <3>2
    <2>9. CASE ChampionReturns \/ WriteResult \/ CancelTakesEffect
      BY <2>9 DEF ChampionReturns, WriteResult, CancelTakesEffect, vars
    <2>10. CASE UNCHANGED sandboxVars
      BY <2>10 DEF sandboxVars, vars
    <2> QED
      BY <2>1, <2>2, <2>3, <2>4, <2>5, <2>6, <2>7, <2>8, <2>9, <2>10
      DEF SandboxNext, CallerStep, ThreadStep
  <1> QED
    BY <1>1, <1>2, PTL DEF SandboxSpec

\* Every step of the two threads is a step of Api or leaves its state alone:
\* a champion that is late, cancelled, or still running while its client stops
\* does nothing to the game that a champion without a sandbox could not do.
THEOREM SandboxImplementsApi == SandboxSpec => ImplementsApi
  <1>1. SandboxInit => Init
    BY DEF SandboxInit
  <1>2. SandboxInv /\ [SandboxNext]_sandboxVars => [Next]_vars
    <2> SUFFICES ASSUME SandboxInv, [SandboxNext]_sandboxVars
                 PROVE  [Next]_vars
      OBVIOUS
    <2>1. CASE Execute \/ Join \/ Expire
      BY <2>1 DEF Execute, Join, Expire
    <2>2. CASE Abort
      BY <2>2 DEF Abort, Next
    <2>3. CASE GoOn
      BY <2>3 DEF GoOn, Next
    <2>4. CASE EnterTurn
      BY <2>4 DEF EnterTurn, Next
    <2>5. CASE SeeForeignTurn
      BY <2>5 DEF SeeForeignTurn, Next
    <2>6. CASE ChampionActs
      <3>1. phase \in {"init", "turn"}
        BY <2>6 DEF ChampionActs, SandboxInv
      <3>2. CASE Revert
        BY <3>1, <3>2 DEF Cancel, Next
      <3>3. ASSUME NEW action \in [mine : {TRUE}, cell : Cell], Act(action)
            PROVE  Next
        BY <3>1, <3>3 DEF Call, Next
      <3> QED
        BY <2>6, <3>2, <3>3 DEF ChampionActs
    <2>7. CASE ChampionReturns \/ WriteResult \/ CancelTakesEffect
      BY <2>7 DEF ChampionReturns, WriteResult, CancelTakesEffect
    <2>8. CASE UNCHANGED sandboxVars
      BY <2>8 DEF sandboxVars
    <2> QED
      BY <2>1, <2>2, <2>3, <2>4, <2>5, <2>6, <2>7, <2>8
      DEF SandboxNext, CallerStep, ThreadStep
  <1> QED
    BY <1>1, <1>2, ThreadHasACaller, PTL DEF SandboxSpec, ImplementsApi, Spec

\* What the server and the other clients are told of a turn is final: when it
\* is sent, the code of the champion cannot run any more.
THEOREM ChampionIsDoneWhenSent == SandboxSpec => NothingSentEarly
  <1>1. SandboxInv /\ [SandboxNext]_sandboxVars
          => [official' # official => thread = "none"]_sandboxVars
    <2> SUFFICES ASSUME SandboxInv, SandboxNext, official' # official
                 PROVE  thread = "none"
      BY DEF sandboxVars, vars
    <2>1. CASE GoOn
      BY <2>1 DEF GoOn, SandboxInv
    <2>2. CASE SeeForeignTurn
      BY <2>2 DEF SeeForeignTurn, ForeignTurn, SandboxInv
    <2>3. CASE Execute \/ Join \/ Expire
      BY <2>3 DEF Execute, Join, Expire, vars
    <2>4. CASE Abort
      BY <2>4 DEF Abort, GiveUp
    <2>5. CASE EnterTurn
      BY <2>5 DEF EnterTurn, StartTurn
    <2>6. CASE ChampionActs
      BY <2>6 DEF ChampionActs, Act, Revert
    <2>7. CASE ChampionReturns \/ WriteResult \/ CancelTakesEffect
      BY <2>7 DEF ChampionReturns, WriteResult, CancelTakesEffect, vars
    <2> QED
      BY <2>1, <2>2, <2>3, <2>4, <2>5, <2>6, <2>7
      DEF SandboxNext, CallerStep, ThreadStep
  <1> QED
    BY <1>1, ThreadHasACaller, PTL DEF SandboxSpec, NothingSentEarly

\* Hence what is proved of cancel holds of a champion that runs in its sandbox,
\* with a deadline or without.
THEOREM SandboxedCancelGoesBackOneAction ==
  ASSUME ClearsHistory, ~PlaysInInit
  PROVE  SandboxSpec => []CancelIsExact
  BY SandboxImplementsApi, CancelGoesBackOneAction, PTL DEF ImplementsApi
=============================================================================
