------------------------------- MODULE Match -------------------------------
(***************************************************************************)
(* What a turn-based match promises, without sockets, acknowledgements or  *)
(* hooks: one history of turns, decided in round-robin order, that every   *)
(* participant watches from its beginning and without a gap.               *)
(***************************************************************************)
EXTENDS Integers, Sequences

CONSTANTS NbPlayers, Client, Payload

Player == 0 .. NbPlayers - 1

VARIABLES
    history,    \* the turns decided so far
    view,       \* the turns each participant knows of
    left        \* participants that have gone

vars == <<history, view, left>>

Due == Len(history) % NbPlayers

Init ==
    /\ history = <<>>
    /\ view = [c \in Client |-> <<>>]
    /\ left = {}

\* The turn of the player that is due is decided.  If it made the choice
\* itself, it knows; nobody else does yet.
Decide(payload) ==
    /\ history' = Append(history, [player |-> Due, actions |-> payload])
    /\ \/ UNCHANGED view
       \/ /\ Due \notin left
          /\ view[Due] = history
          /\ view' = [view EXCEPT ![Due] = history']
    /\ UNCHANGED left

\* A participant learns of the next turn it does not know of.
Observe(c) ==
    /\ c \notin left
    /\ Len(view[c]) < Len(history)
    /\ view' = [view EXCEPT ![c] = Append(@, history[Len(@) + 1])]
    /\ UNCHANGED <<history, left>>

Leave(c) ==
    /\ c \notin left
    /\ left' = left \union {c}
    /\ view' = [view EXCEPT ![c] = <<>>]
    /\ UNCHANGED history

Next ==
    \/ \E payload \in Payload : Decide(payload)
    \/ \E c \in Client : Observe(c) \/ Leave(c)

Spec == Init /\ [][Next]_vars
=============================================================================
