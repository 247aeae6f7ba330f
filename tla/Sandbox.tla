------------------------------ MODULE Sandbox ------------------------------
(***************************************************************************)
(* The champion runs in a thread of its own: Sandbox::execute              *)
(* (src/lib/utils/sandbox.inl) around init_game and play_turn.  The loops   *)
(* of the client read the game state and the list of actions without a     *)
(* lock, and the API does not look at who calls it nor when: all that      *)
(* keeps the two threads apart is that execute comes back once the         *)
(* champion has returned, and not at all when it is late.                  *)
(*                                                                         *)
(* A thread that is late is cancelled and not joined.  Until that takes    *)
(* effect, or the process stops, it still runs.                            *)
(*                                                                         *)
(* With a timeout of 0 execute makes no thread and calls the champion      *)
(* itself (sandbox.inl:122-123).  Here it makes one, whose end it waits    *)
(* for without doing anything else: the steps and their order are the      *)
(* same.                                                                   *)
(***************************************************************************)
EXTENDS Api

CONSTANT HasDeadline    \* whether the timeout of the sandbox is other than 0
ASSUME DeadlineAssumption == HasDeadline \in BOOLEAN

VARIABLES
    caller,     \* where the thread that calls execute is
    thread      \* what is left to do in the thread of the champion

sandboxVars == <<vars, caller, thread>>

SandboxInit ==
    /\ Init
    /\ caller = "before"
    /\ thread = "none"
-----------------------------------------------------------------------------
(* The caller *)

\* at_player_start and player_turn: the thread is created.
Execute ==
    /\ caller = "before"
    /\ caller' = "joining"
    /\ thread' = "running"
    /\ UNCHANGED vars

\* The thread has ended in time.
Join ==
    /\ caller = "joining" /\ thread = "ended"
    /\ caller' = "back"
    /\ thread' = "none"
    /\ UNCHANGED vars

\* Mutant: a late champion only loses the rest of its turn.
ReturnAnyway ==
    /\ caller = "joining" /\ thread # "ended" /\ HasDeadline
    /\ caller' = "back"
    /\ UNCHANGED <<vars, thread>>

\* Mutant: pthread_join.
NeverExpires == FALSE /\ UNCHANGED sandboxVars

\* The deadline passes first: the thread is cancelled and SandboxTimeout is
\* thrown, which ends the frame the result is written to.
Expire ==
    /\ caller = "joining" /\ thread # "ended" /\ HasDeadline
    /\ caller' = "throwing"
    /\ UNCHANGED <<vars, thread>>

\* Mutant: the rules catch it and give the turn up, as the server does.
LoseTurn ==
    /\ caller = "throwing"
    /\ phase' = "idle"
    /\ actions' = <<>>
    /\ ClearHistory
    /\ caller' = "back"
    /\ thread' = "none"
    /\ UNCHANGED <<state, official>>

\* The rules catch it and abort.
Abort ==
    /\ caller = "throwing"
    /\ GiveUp
    /\ caller' = "stopped"
    /\ thread' = "none"

\* The loop goes on, in the match or after the turn.
GoOn == caller = "back" /\ (StartMatch \/ EndTurn) /\ UNCHANGED <<caller, thread>>

EnterTurn == StartTurn /\ caller' = "before" /\ UNCHANGED thread

SeeForeignTurn == ForeignTurn /\ UNCHANGED <<caller, thread>>

CallerStep ==
    Execute \/ Join \/ Expire \/ Abort \/ GoOn

-----------------------------------------------------------------------------
(* The thread: thread_proc *)

\* The champion acts or cancels, whatever the client is doing.  What is FATAL
\* in one thread stops them both.
ChampionActs ==
    /\ thread = "running"
    /\ Revert \/ \E action \in [mine : {TRUE}, cell : Cell] : Act(action)
    /\ IF phase' = phase THEN UNCHANGED <<caller, thread>>
                         ELSE caller' = "stopped" /\ thread' = "none"

\* The champion returns, then what it returned is written through retptr: into
\* a frame that is gone when the caller has thrown in between.
ChampionReturns ==
    /\ thread = "running"
    /\ thread' = "returned"
    /\ UNCHANGED <<vars, caller>>

WriteResult ==
    /\ thread = "returned"
    /\ thread' = "ended"
    /\ UNCHANGED <<vars, caller>>

\* PTHREAD_CANCEL_ASYNCHRONOUS: at any instruction.
CancelTakesEffect ==
    /\ caller = "throwing" /\ thread \in {"running", "returned"}
    /\ thread' = "none"
    /\ UNCHANGED <<vars, caller>>

ThreadStep == ChampionActs \/ ChampionReturns \/ WriteResult \/ CancelTakesEffect

SandboxNext == CallerStep \/ EnterTurn \/ SeeForeignTurn \/ ThreadStep

SandboxSpec == SandboxInit /\ [][SandboxNext]_sandboxVars

\* The caller runs and time passes; nothing makes a champion return.
SandboxFairSpec == SandboxSpec /\ WF_sandboxVars(CallerStep)

-----------------------------------------------------------------------------
(* Properties. *)

\* Only a turn has a champion running: what it does and when it does it are
\* those of Api, where actions come from the current turn of the client and
\* from nowhere else (SandboxTimeout is FATAL, rules.cc:91-96 of tictactoe).
ImplementsApi == Spec

\* No list of actions is sent, and no action of another player applied, while
\* the code of the champion may still run and change both (execute joins the
\* thread before it returns, sandbox.inl:138-154).
NothingSentEarly == [][official' # official => thread = "none"]_sandboxVars

\* A champion that never returns does not hold its client for ever: the turn
\* ends, or the client does.
TurnsEnd == HasDeadline => (phase = "turn" ~> phase # "turn")
=============================================================================
