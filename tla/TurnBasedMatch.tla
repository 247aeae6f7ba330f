--------------------------- MODULE TurnBasedMatch ---------------------------
(***************************************************************************)
(* The turn-based loops implement a Match.  The history is the server's    *)
(* game state; a client knows the turns it has applied, except the one it  *)
(* has just played and the server has not received yet.                    *)
(***************************************************************************)
EXTENDS TurnBased

Known(c) == SubSeq(log[c], 1, Shorter(log[c], log[Server]))

Dead == {c \in Client : cpc[c] = "dead"}

M == INSTANCE Match WITH
        Payload <- {<<>>} \union {<<a>> : a \in Action},
        history <- log[Server],
        view <- [c \in Client |-> IF c \in Dead THEN <<>> ELSE Known(c)],
        left <- Dead

\* Every step of the server and of the clients is a step of a Match, or
\* changes nothing a Match can see.
ImplementsMatch == M!Spec
=============================================================================
