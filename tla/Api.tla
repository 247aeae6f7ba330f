-------------------------------- MODULE Api --------------------------------
(***************************************************************************)
(* What a champion does to its client: rules::Api, Actions and             *)
(* GameStateHistory, driven by the hooks and loops of the rules.  The      *)
(* champion acts and cancels; every action it makes is checked and applied *)
(* to the local game state at once, a copy of the state being kept for     *)
(* cancel.  When its turn is over the list of actions is what the server   *)
(* and the other clients are told of.                                      *)
(*                                                                         *)
(* A game state is the sequence of the actions that led to it.             *)
(***************************************************************************)
EXTENDS Integers, SequencesExt

CONSTANTS
    Cell,           \* what an action takes; nobody takes it twice
    MaxActions,     \* MAX_ACTIONS
    ClearsHistory,  \* end_of_player_turn clears the old states (tictactoe)
    PlaysInInit     \* check() accepts actions before the first turn (plusminus)

ASSUME MaxAssumption == MaxActions \in Nat
ASSUME RulesAssumption == ClearsHistory \in BOOLEAN /\ PlaysInInit \in BOOLEAN

Action == [mine : BOOLEAN, cell : Cell]

VARIABLES
    phase,      \* what the client is doing
    state,      \* GameStateHistory::current_
    versions,   \* GameStateHistory::versions_
    actions,    \* Api::actions_
    official    \* the game state of the server

vars == <<phase, state, versions, actions, official>>

Init ==
    /\ phase = "init"
    /\ state = <<>>
    /\ versions = <<>>
    /\ actions = <<>>
    /\ official = <<>>

-----------------------------------------------------------------------------
\* game_state_check
Check(action) ==
    /\ phase = "turn" \/ PlaysInInit
    /\ \A i \in DOMAIN state : state[i].cell # action.cell

\* Mutant: the state is saved once it is changed.
SaveLate(action) == versions' = Append(versions, Append(state, action))

Save(action) == versions' = Append(versions, state)

\* An action of the API is called; one that does not pass the check changes
\* nothing.
Act(action) ==
    /\ Check(action)
    /\ Save(action)
    /\ state' = Append(state, action)
    /\ IF Len(actions) >= MaxActions
       THEN phase' = "fatal" /\ UNCHANGED actions
       ELSE actions' = Append(actions, action) /\ UNCHANGED phase
    /\ UNCHANGED official

\* The champion calls actions from init_game and play_turn.
Call(action) == phase \in {"init", "turn"} /\ Act(action)

\* Mutant: the action stays in the list.
KeepAction == UNCHANGED actions

DropAction == actions' = Front(actions)

\* cancel(), which returns false when no state is saved.  pop_back of an
\* empty list has no defined behaviour.
Revert ==
    /\ versions # <<>>
    /\ IF actions = <<>>
       THEN phase' = "undefined" /\ UNCHANGED actions
       ELSE DropAction /\ UNCHANGED phase
    /\ state' = Last(versions)
    /\ versions' = Front(versions)
    /\ UNCHANGED official

Cancel == phase \in {"init", "turn"} /\ Revert

\* The champion exceeds the time limit of init_game or play_turn: the client
\* stops, whatever it has done so far.
GiveUp ==
    /\ phase \in {"init", "turn"}
    /\ phase' = "fatal"
    /\ UNCHANGED <<state, versions, actions, official>>

\* at_player_start is over, the first turn is not there yet.
StartMatch ==
    /\ phase = "init"
    /\ phase' = "idle"
    /\ UNCHANGED <<state, versions, actions, official>>

\* Mutant: the list still holds the actions of the previous turn.
KeepActions == UNCHANGED actions

ClearActions == actions' = <<>>

\* The loops clear the list of actions before they run the champion.
StartTurn ==
    /\ phase = "idle"
    /\ phase' = "turn"
    /\ ClearActions
    /\ UNCHANGED <<state, versions, official>>

\* Mutant: end_of_player_turn does not clear the old states.
KeepHistory == UNCHANGED versions

ClearHistory == versions' = IF ClearsHistory THEN <<>> ELSE versions

\* The turn is over: the actions are sent, acknowledged, pulled back and
\* thrown away.
EndTurn ==
    /\ phase = "turn"
    /\ official' = official \o actions
    /\ actions' = <<>>
    /\ ClearHistory
    /\ phase' = "idle"
    /\ UNCHANGED state

\* Another player's turn: its actions are pulled into the same list and
\* applied, without a copy of the state.  The server has checked them.
ForeignTurn ==
    /\ phase = "idle"
    /\ \E action \in [mine : {FALSE}, cell : Cell] :
         /\ \A i \in DOMAIN official : official[i].cell # action.cell
         /\ actions' = <<action>>
         /\ state' = Append(state, action)
         /\ official' = Append(official, action)
    /\ ClearHistory
    /\ UNCHANGED phase

Next ==
    \/ \E action \in [mine : {TRUE}, cell : Cell] : Call(action)
    \/ Cancel \/ GiveUp \/ StartMatch \/ StartTurn \/ EndTurn \/ ForeignTurn

Spec == Init /\ [][Next]_vars

-----------------------------------------------------------------------------
(* Properties. *)

TypeOK ==
    /\ phase \in {"init", "idle", "turn", "fatal", "undefined"}
    /\ state \in Seq(Action)
    /\ versions \in Seq(Seq(Action))
    /\ actions \in Seq(Action)
    /\ official \in Seq(Action)

\* "The actions are the only objects sent on the network": at any moment of
\* a turn, whatever the champion has played and cancelled, the actions that
\* would be sent lead the server from its state to the client's.
SentRebuildsState == phase = "turn" => state = official \o actions

\* "cancel the last action": the states that cancel can go back to are those
\* before each action of the current turn, and nothing before the turn, even
\* if the turns of others have been applied since the previous one.
CancelIsExact ==
    phase = "turn" =>
        /\ Len(versions) = Len(actions)
        /\ \A i \in DOMAIN versions :
                versions[i] = official \o SubSeq(actions, 1, i - 1)

\* "make sure the gamestate is always consistent across the clients and the
\* server" (apply_action): between turns both have applied the same actions.
AgreesWithServer == phase = "idle" => state = official

\* cancel() removes the last action together with its state (Api::cancel):
\* there is one to remove.
NoEmptyPop == phase # "undefined"
=============================================================================
