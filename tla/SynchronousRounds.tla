------------------------- MODULE SynchronousRounds -------------------------
(***************************************************************************)
(* The synchronous loops implement Rounds: the rounds decided are those    *)
(* the server has published, a client knows those it has completed, and    *)
(* has played the next one when its log is ahead of what is published.     *)
(***************************************************************************)
EXTENDS Synchronous

Decided == [i \in 1 .. Len(published) |-> ToSet(log[Server][i])]

Known(c) == [i \in 1 .. Complete(c) |-> ToSet(log[c][i])]

Dead == {c \in Client : cpc[c] = "dead"}

Playing == {c \in Client : Len(log[c]) = Len(published) + 1}

R == INSTANCE Rounds WITH
        history <- Decided,
        view <- [c \in Client |-> IF c \in Dead THEN <<>> ELSE Known(c)],
        ready <- Playing,
        choice <- [c \in Client |-> IF c \in Playing
                                    THEN ToSet(log[c][Len(log[c])]) ELSE {}],
        left <- Dead

\* Every step of the server and of the clients is a step of Rounds, or
\* changes nothing Rounds can see: in particular no round is decided before
\* every player still there has played it.
ImplementsRounds == R!Spec
=============================================================================
