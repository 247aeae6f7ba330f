------------------------------- MODULE Rounds -------------------------------
(***************************************************************************)
(* What a synchronous match promises, without sockets or timeouts: rounds  *)
(* decided one after the other, each of them once every participant that   *)
(* is still there has taken part in it, knowing all the earlier ones.      *)
(***************************************************************************)
EXTENDS Integers, Sequences

CONSTANTS Client, Action

VARIABLES
    history,    \* the sets of actions of the rounds decided so far
    view,       \* the rounds each participant knows of
    ready,      \* participants that have played the next round
    choice,     \* and the actions each of them chose
    left        \* participants that have gone

vars == <<history, view, ready, choice, left>>

Init ==
    /\ history = <<>>
    /\ view = [c \in Client |-> <<>>]
    /\ ready = {}
    /\ choice = [c \in Client |-> {}]
    /\ left = {}

\* A participant that knows all the rounds plays the next one.
Play(c, action) ==
    /\ c \notin left \union ready
    /\ view[c] = history
    /\ ready' = ready \union {c}
    /\ choice' = [choice EXCEPT ![c] = action]
    /\ UNCHANGED <<history, view, left>>

\* The barrier: a round is decided when every participant that has not gone
\* has played it.  What one that has gone since had chosen may be lost.
Decide(lost) ==
    /\ Client \ left \subseteq ready
    /\ history' = Append(history, UNION {choice[c] : c \in ready \ lost})
    /\ ready' = {}
    /\ choice' = [c \in Client |-> {}]
    /\ UNCHANGED <<view, left>>

Observe(c) ==
    /\ c \notin left
    /\ Len(view[c]) < Len(history)
    /\ view' = [view EXCEPT ![c] = Append(@, history[Len(@) + 1])]
    /\ UNCHANGED <<history, ready, choice, left>>

Leave(c) ==
    /\ c \notin left
    /\ left' = left \union {c}
    /\ view' = [view EXCEPT ![c] = <<>>]
    /\ UNCHANGED <<history, ready, choice>>

Next ==
    \/ \E lost \in SUBSET left : Decide(lost)
    \/ \E c \in Client :
         \/ \E action \in {{}} \union {{a} : a \in Action} : Play(c, action)
         \/ Observe(c)
         \/ Leave(c)

Spec == Init /\ [][Next]_vars
=============================================================================
