# A model of stechec2

stechec2 runs matches between *champions*: programs that play a turn-based or
a simultaneous game. A match is one server process and one client process per
player and per spectator, over ZeroMQ. The server never sends a game state:
every process loads the same rules, and rebuilds the state from the actions it
sees. Whatever makes two processes see different actions, or the same ones at
different places, makes them disagree silently. That agreement, and the end of
the match for everybody, is what the first half of these specifications is
about. The second half is about what comes before a match: the tools that turn
a game file into interfaces for a dozen languages, into the environment all
champions are compiled against, and into a build that runs the tests of the
game.

Paths below are relative to the repository; line numbers are those of the
commit the models were written from.

## 1. The system

| Part | Sources | State | Operations |
|---|---|---|---|
| Server program | `src/server/server.cc` | `players_`, `spectators_`, the REP socket | `wait_for_clients` (seats clients), pushes of the two lists and of the start, then the rules' `server_loop` |
| Client program | `src/client/client.cc` | its id, the two lists | `sckt_init`, `wait_for_players`, `wait_for_game_start`, then `player_loop` or `spectator_loop` |
| Turn-based rules | `src/lib/rules/rules.cc:287-629` | one action buffer per process, `nb_timeout`, `playing_id`, `last_player_id`, `last_round` | `server_loop`, `player_loop`, `spectator_loop`, `replay_loop` |
| Synchronous rules | `src/lib/rules/rules.cc:84-276` | the buffer, `players_ids`, `players_count`, `players_timeouting`, `spectators_count`, `nb_timeout` | the same four loops |
| Sockets and messengers | `src/lib/net`, `src/lib/rules/*-messenger.cc` | PUB/SUB stream, REQ/REP exchange | `push_*`, `pull_*`, `send_actions`, `recv_actions`, `poll`, `ack`, `wait_for_ack` |
| Champion API | `src/lib/rules/api.hh`, `actions.*`, `game-state-history.hh` | current game state, older versions, list of actions | an action, `cancel`, `clear`, `clear_old_version` |
| Players | `src/lib/rules/player.hh` | ids, kinds, timeouts, scores | `sort`, serialisation |
| Sandbox | `src/lib/utils/sandbox.*` | a thread and its deadline | `execute` |
| Buffer | `src/lib/utils/buffer.hh` | bytes and a read position | `handle`, `handle_mem` |
| Replay | `src/replay/replay.cc`, `replay_loop` | the saved stream | `run`, `compare_results` |
| Launcher | `src/tools/stechec2-run` | the processes of a match | start, wait, interrupt |
| Games | `games/tictactoe`, `games/plusminus` | board, guesses | `check`, `apply`, hooks |
| Game file loader | `tools/generator/game.py` | the game, `types`, `used_types` | the passes of `Game.load` |
| Language filters | `tools/generator/filters`, `templates/player/*/interface.cc.jinja2` | none | types, prototypes and conversions of each language |
| Player environments | `tools/generator/player.py`, `generator.py`, `__main__.py` | files and links on the disk | `make_player`, `template`, `check_player` |
| Unit tests, game build | `tools/waf/unittest_gtest.py`, `wafgenerator.py`, `templates/rules/wscript.jinja2` | `utest_results`, `testlock`, `added_post_fun`, task signatures | one task per test and one for the environment, `summary` |
| Other generators, packaging | `rules.py`, `texdoc.py`, `sphinxdoc.py`, `rubygenerator`, `gendiff.py`, `pkg`, `wscript` | none | text, build scripts |

How they interact. A client sends requests (REQ) and pulls the published
stream (SUB); the server answers every request at once and publishes ids and
lists of actions. `MSG_RULES` messages carry no tag: what a message means comes
from where the receiver stands in its loop. Each loop calls the hooks of the
game, and each process decides by itself that the game is over. The API is
called by the champion, in the thread of a sandbox, inside the player's loop,
which reads the same game state and the same list of actions once that thread
is joined.

The generators meet on the disk. The build of a game writes the environment of
champions each time it runs; a champion generates its own directory with links
into that environment, edits its files, and may do so while a build runs.

What is hard about it:

- *ordering*: the server never checks who a request comes from; an answer that
  comes after the deadline is received in another turn;
- *protocol*: loops of three kinds must consume exactly the same stream;
- *timeouts*: a player that is given up after its deadline has nevertheless
  applied its actions, and may be heard again once eliminated;
- *death*: a champion that crashes or exceeds its sandbox takes its client
  process with it; the others must finish without it;
- *threads*: nothing but `pthread_timedjoin_np` keeps the champion's code and
  the loops apart, and a champion that is late is cancelled and not joined;
- *liveness*: the server waits for spectators for ever, clients wait for the
  server for ever;
- *stale state*: buffers, counters and saved states that live longer than the
  turn or round they are for; files, links and task signatures that live longer
  than the build that made them;
- *two translations of one type*: an interface converts a value with one filter
  and declares it with another, and both must agree for every type a game file
  can build;
- *interruption*: a build or a run of the generator stops between two steps of
  a file.

`PROJECT.json` lists the main ones at their lines, with the properties that
cover each of them.

What makes each part correct: everyone has the same seat table and nobody
shares a seat (start); every message is decoded as it was meant, the states
agree, the survivors finish (loops); what is sent rebuilds what was played, and
`cancel` undoes one action (API), whatever the timing of the champion's thread
(sandbox); the saved file leads to the server's state again (replay); a game is
accepted exactly when it is well formed (loader), and its interfaces agree with
what they call (filters); champions never write to the shared environment, which
is complete after every build (environments); no result of a test is lost and a
failure makes the build fail (unit tests).

## 2. The modules

| Module | Models | Extends |
|---|---|---|
| `Sockets` | the PUB/SUB stream and the REQ/REP exchange as the loops use them | |
| `TurnBased` | the three loops of `TurnBasedRules`, one process each | `Sockets` |
| `Match` | *abstract*: one history of turns in round-robin order, watched without a gap | |
| `TurnBasedMatch` | `TurnBased` implements `Match` (refinement mapping) | `TurnBased` |
| `Replay` | `replay_loop` of `TurnBasedRules` over the file a server saved | `TurnBased` |
| `TurnBasedProofs` | proofs about `TurnBased`: the stream and the sockets | `TurnBased` |
| `AgreementProofs` | proofs about `TurnBased`, `TurnBasedMatch` and `Replay`: what the processes agree on, the end, the spectators, `Match`, the replay | all three, `TurnBasedProofs`, `ListLemmas` |
| `Synchronous` | the three loops of `SynchronousRules` | `Sockets` |
| `Rounds` | *abstract*: a barrier; rounds decided once everyone present has played | |
| `SynchronousRounds` | `Synchronous` implements `Rounds` | `Synchronous` |
| `SynchronousReplay` | `replay_loop` of `SynchronousRules` | `Synchronous` |
| `SynchronousProofs` | proofs about `Synchronous`, `SynchronousRounds` and `SynchronousReplay` | both, `ListLemmas` |
| `Handshake` | `wait_for_clients` and what follows, against the clients | |
| `HandshakeProofs` | proofs about `Handshake` | `Handshake` |
| `Api` | actions, `cancel` and the action list of a champion through its turns | |
| `Sandbox` | the thread of the champion and the thread that waits for it, each calling `Api` | `Api` |
| `ApiProofs` | proofs about `Api` and `Sandbox` | `Sandbox` |
| `Game` | the loading of a game file | |
| `Languages` | the filters and interfaces of each language, over an accepted game | `Game` |
| `GameProofs` | proofs about `Game` and `Languages` | `Languages`, `ListLemmas` |
| `Players` | the generator of player environments, on a disk shared by a build and a champion | |
| `UnitTests` | the tests of a build: options, tasks, list of results, summary | |
| `Build` | builds of a game directory, one after the other, with its environment, its tests and a champion | `Players`, `UnitTests` |
| `BuildProofs` | proofs about `Build` | `Build`, `ListLemmas` |
| `ListLemmas` | induction on numbers and on lists; facts about lists | |
| `MCTurnBased`, `MCSynchronous`, `MCHandshake`, `MCGame`, `MCBuild` | instances for TLC | |

The loops start where `Handshake` ends: seats filled, ids numbered from 0,
every client subscribed. `SeatsFilled` (proved) is what justifies
`ClientAssumption` and the ranges of `Player` and `Spectator` in `TurnBased`
and `Synchronous`.

Operators whose comment starts with *Mutant* are wrong on purpose. Each stands
for a plausible bug and shows that some property notices it; the
specifications do not use them.

### Sockets

`published` is the whole stream and `cursor[c]` how much of it client `c` has
pulled: order is kept and nothing is lost once a client has subscribed (missing
the head of the stream is in `Handshake`). `requests` is a set: the REP socket
takes requests of different clients in any order, and a client has only one in
flight. That is not assumed but checked and proved (`LockStep`).
`--socket_timeout` is not modelled; its default is to wait for ever.

### TurnBased

| Action | Code (`src/lib/rules/rules.cc`) |
|---|---|
| `StartMatch` | push of the last player's id, first `start_of_round` |
| `BeginTurn` | `player_turn`, push of the id, `actions->clear()`; an eliminated player is skipped |
| `ReceiveAnswer` / `TimeoutAnswer` | `poll` true: receive, ack, apply; `poll` false: `nb_timeout` |
| `EndTurn` | `save_player_actions`, `push_actions`, on to the spectators |
| `BeginWatch`, `ReceiveWatch` | the turn of a spectator, without a deadline |
| `EndRound` | `end_of_round`, `is_finished`, `start_of_round` |
| `ClientStart` | `pull_id` of the last player, `start_of_round` |
| `PullOwnTurn`, `PullSpectatorTurn`, `PullPlayerTurn` | one iteration of `wait_for_turn` and what it leads to |
| `Answer`, `PlayerAck`, `PullOwnActions` | the champion's turn, `send_actions`, `wait_for_ack`, the actions pulled back |
| `PlayerPullActions`, `SpectatorPullActions` | another player's turn |
| `SpectatorAck` | a spectator's own turn, and the end of the round |
| `Die` | the process goes: crash, sandbox timeout (`FATAL`) |

A step of the model is what lies between two communications of a loop: the
process-local code in between touches nothing another process can see.

A game state is the log of turns a process has applied. The game is the
parameter `FinishHook`/`Limit`: the game is over once that hook has run that
often. `tictactoe` ends in the player's turn, `plusminus` at the end of a
round, and which hook it is decides at which line of each loop the end is seen.
`Strict` is a game whose `apply_action` rejects an illegal action with `FATAL`
(both games do for actions that fail `check`); otherwise the action is applied.

Faults: `Slow` players may answer after the deadline, `Mortal` clients may die
at any step, losing or not the request in flight. A player outside `Slow` that
is alive is heard before its deadline: that is the rule of `doc/faq.rst:5-6`
(the server's timeout exceeds the sandbox's). Properties that lateness breaks
by nature carry the condition `Punctual`: no player has missed a deadline so far.

### Replay and SynchronousReplay

The file of a match is the variable `replay` of `TurnBased` and of
`Synchronous`: what `save_player_actions` has appended, one list per turn or
round. Replaying is a function of that file, `ReplayLoop`: `replay_loop` run to
its end, with its own hooks and its own place for `is_finished()`; its nested
loops over rounds, players and spectators are `ReplayLoop`, `ReplayPlayers` and
`ReplayPlayer`. Behind the last list the file has the result; a list read there is the `error` of the
model. What `replay.cc` reads before (map, players) and compares afterwards
(scores) is left out.

### Synchronous

`ReceiveAnswer`, `ReceiveRevived` and `CloseCollection` are the counted loop of
`rules.cc:209-241` with its inner `do ... while`; `ReceiveSpectator` is the loop
of 243-249. The counters are those of the code, `SizeT` being the width of
`spectators_count`. `log` is a sequence of rounds, each with its actions in the
order in which the process applied them: a player applies its own first. An
action is tagged with the round in which it was played, which is what
`OncePerAction` speaks of: of the log of the server, which `ForeignActionsAgree`
then carries over to those of the clients. An action may end the game, as the right guess of
`plusminus` does.

### Handshake

`rep` is the state of the REP socket: after a message that is not
`MSG_CONNECT` nothing is replied and the socket cannot receive
(`IgnoreRequest`). `Subscribe` is the moment the subscription reaches the
server; `Settled` is what the 500 ms of `server.cc:248` are meant to ensure, for
all but the clients in `LateSubscriber`. A request that reaches the server in
the match and is not `MSG_RULES` ends it (`LateConnect`).

### Api

A game state is the sequence of the actions that led to it, and a cell may be
taken once: enough for `check` to depend on the state and for any two histories
to be told apart. `official` is the server's state, which the client never
sees. `ClearsHistory` tells a game whose `end_of_player_turn` calls
`clear_old_version` (`tictactoe`) from one that never does (`plusminus`), and
`PlaysInInit` one whose `check` accepts actions in `init_game` (`plusminus`).
The server receives every turn here; a turn that
misses its deadline is the concern of `TurnBased`. `GiveUp` is the sandbox
timeout, which is `FATAL` in the rules.

### Sandbox

`caller` is the thread of the loops, `thread` what the champion's thread still
has to do. `Execute` creates it, `Join` is `pthread_timedjoin_np` that succeeds,
`Expire` the one that does not: the thread is cancelled asynchronously, so that
until `CancelTakesEffect` it still acts (`ChampionActs`), returns, or writes its
result through `retptr` (`WriteResult`) while the exception unwinds the frame
that pointer leads to. `Abort` is the `FATAL` of the rules that catch it.
`HasDeadline` is a timeout other than 0; with 0 the code makes no thread and
calls the champion itself (`sandbox.inl:122-123`), where the model makes one and
does nothing until it has ended: the order of the steps is the same, and nothing
expires. The actions of the champion are those
of `Api` without their guard on `phase`: the API does not look at who calls it
nor when, and that nobody calls it at another time is what `ImplementsApi`
states.

### Game and Languages

A file is a record of lists, a name the sequence of its words, a type a name
and whether it is an array of it. Each action is a pass of `Game.load`; a pass
that finds a mistake ends in `Reject`. `MCGame` gives the files: every
combination of a few declarations of each kind, most in conflict with one
another, and files without conflict that mix structs, tuples, arrays, enums
and functions. `LoaderDecides` compares the passes with `WellFormed`, a
definition of what they accept that does not depend on their order.

`Languages` has no state of its own: its operators are functions of the accepted
`game`. There is one operator per filter (`CType`, `JavaType`, `RustPassed`...)
and one per set of templates that names conversions. A conversion is the pair
of types it goes between, a wrapper the list of what it passes on: enough to
say whether two texts generated apart fit each other.

The filters that recurse over types (`PythonType`, `RustIsCopy`,
`RustAutoTraits`) are recursive functions on `FoundedTypes`: the types that are
made of no struct that holds itself, at any depth and be it in an array, nor of
a struct of no field. On the others the filters do not end or fail, and the
loader accepts them. `FoundedStructs` is a least set, so that it is an induction
principle as well. `VoidIsHeld` names the games in which a field or an argument
is `void`, or an array of it is used: the loader accepts those too, and no
language has a conversion for them. `TypesAssumption` is what the schema
requires of types (`TYPE` and `IDENTIFIER`, `game.py:362-364`): a type is a name
or one array of it, and no name has a sign such as `[]` in it.

### Players, UnitTests and Build

`fs` is what is at each place of the two directories, and a link is a place of
the champion's directory that leads to the same place of the environment.
`Generator.template` is three steps (`UnlinkLeftover`, `OpenFile`,
`DumpTemplate`), as is a link (`SourceMissing` or `UnlinkOld`, `SymlinkTo`),
since a build and a champion interleave and either may be interrupted.
`version` counts the edits of the game file; a run writes the version it loaded.

`utask` follows a test from `Skip` or `Execute` to `Release`; between the
acquisition of `testlock` and its release each branch of `utest.run` is a step.
`sigs` is what waf keeps of a task between builds. `code` says whether a test
would pass. The options of a build are a record, since they combine: `Kept` and
`Forced` are the tests they ask for and those they run again. A pattern such as
`t.Case` names a test and has every test that runs do so for some cases only
(`cases`), and `--checkleak` may find a leak in a test that passes: `Outcomes` are
the results a test may then have.

`Build` runs them together: `StartBuild` opens a context with any options and
starts the generation of the environment, `BuildTask` is a step of any task,
`EndBuild` calls the post functions when all tasks are done, `InterruptBuild`,
`Edit` and `Champion` are what happens around it. `MCBuild` splits the instance
in two, because the tests and the champions share only the builds: a game with
tests nobody plays, and a game without tests.

## 3. What TLC checks

| Run | Instance | Shows |
|---|---|---|
| `tb_watched` | 2 players, 1 spectator, 3 rounds; player 0 may be late, player 1 may die | `TypeOK`, `LockStep`, `StreamAligned`, `RequestFromTurn`, `SharedFinalState`, `SpectatorsSeeEveryTurn`, `ForeignTurnsAgree`, `Termination` |
| `tb_crash` | 3 players, game decided by the 2nd player of round 2; player 0 may die | `GameStateAgrees`, `NoSyncError`, `ReplayRebuilds`, `ImplementsMatch` |
| `sync_crash` | 2 players, 1 spectator, 3 rounds; player 0 may die | `TypeOK`, `RoundsAgree`, `TimeoutsDeserved`, `SpectatorsCounted`, `Termination`, `ImplementsRounds` |
| `sync_late` | the same; player 0 may be late, eliminated, heard again | `ForeignActionsAgree`, `OncePerAction`, `ReplayRebuilds` |
| `hs_seats` | 3 clients for 1+1 seats, wrong ids, the same one or none, a late subscriber, a leftover request | `SeatIsMine`, `SeatsFilled`, `RosterShared`, `EveryoneSeated` |
| `api_turns` | 4 cells, at most 2 actions before the limit, as `tictactoe`, in a sandbox with a deadline | `CancelIsExact`, `AgreesWithServer`, `ImplementsApi`, `NothingSentEarly`, `TurnsEnd` |
| `game_load` | every combination of conflicting declarations, and mixed games without conflict | `LoaderDecides`, `TypesResolve`, `BindingsAgree`, `LanguageRulesKept` |
| `build` | 2 builds, each with one of 8 combinations of options, 2 tests; or 2 runs of a champion, 2 versions of the game | `FilesComplete`, `ResultsKept`, `FailureReported`, `CheckallConclusive`, `EnvIsolated`, `BuildEnds` |
| `tb_last_turn` | game found finished in the last player's turn | **violates** `SpectatorsSeeEveryTurn` |
| `sync_stolen` | a late player in a synchronous game | **violates** `TimeoutsDeserved` |
| `hs_auto_refused` | one client names a seat, another does not | **violates** `AutoIdGranted` |
| `api_cancel_past` | a game that never clears its history | **violates** `NoEmptyPop` |

Each property is stated in words above its definition, with the code it is
about.

Bounds, and why they are enough. Three clients give every pair of kinds (the
one that plays, another player, a spectator) or three players in a row. Rounds
are bounded by `Limit`: three are enough for a round with an eliminated player,
with `MaxConsecutiveTimeout = 1` in `tb_watched`, where a late player is
eliminated and heard again, and with `MaxTimeout = 2` in `sync_*`. In `tb_crash`
`MaxConsecutiveTimeout = 2` leaves the other case: a dead player that is
still polled until the end. A turn has at most one action, since only
an empty and a non-empty list differ for the loops, and one cell more than a
process needs to be refused one; a list with several actions is the concern of
`Api`. `SizeT = 16` is far above the number of spectators, so that a
countdown that wraps is noticed. `MaxActions = 2` lets a turn reach the limit
and be stopped by it. `ReplayRebuilds` is checked in `tb_crash` because a game decided in a turn is the
one whose file goes on after the end, here with the empty turns of a dead player;
section 4 says for which other games it is proved. Two builds are
what it takes for one to inherit signatures, files and links from another,
two tests for one to find the list of results or the lock taken, two runs for a
champion to generate over its own links, two versions to tell an old file from a
new one. The options of `MCBuild` are each option alone, for one test or for all
of them, and cases of a test, with `--checkall` and without: the others force
and run the same tests. In the half with tests the game does not change and its files are
generated before the tests run: a test and the generator have no variable in
common, and the order of their steps shows nothing more. `MCGame` has two structs, one of which may hold the other or an array of
it, which is as deep as the filters tell types apart (a type, its items, their
fields).

Deadlock is checked wherever the system must stop by itself
(`Terminated` stutters when every process has left, or a file is accepted or
rejected). It is not in `tb_watched` and `sync_late`, where a late player may be
left without an acknowledgement when the server stops; in `hs_*`, whose model
ends where the match begins and where refused clients stop; in `api_*`, where
cells run out; nor in `build`, where the bounds on builds, runs and versions do.

Fairness. `WF_vars(ServerStep)` and `WF_vars(ClientStep(c))` for every client:
each is an operating system process that runs when it can, and a message that
was sent arrives. There is no fairness on `Die` nor on being late, and no strong
fairness: no loop competes with another for a step. A deadline that nobody
beats eventually passes because `TimeoutAnswer` and `PollTimesOut` are among
the server's own steps. `Termination` is checked with spectators that stay:
a dead spectator blocks the server, which the code accepts ("No timeout for
spectators"). In `Sandbox` the caller is fair (`WF` of `CallerStep`) and
the champion is not: nothing makes it return, and the deadline passes because
`Expire` is a step of the caller. In `Build` the threads of the build run the
tasks they can (`WF` of `BuildTask` and `EndBuild`); nothing makes a champion
start, nor a build be interrupted.

The refinements are checked by TLC as properties: `ImplementsMatch` (a turn is
decided once, by the player whose turn it is or as empty, and everybody
observes the turns in order), `ImplementsRounds` (no round is decided before
every client still there has played it, and clients observe the rounds in
order) and `ImplementsApi` (the two threads of a client do together what `Api`
says one of them does). All three are proved as well.

## 4. What is proved

For any number of players, spectators, applicants, tests, languages and
builds, any game, any file and any cells.

`TurnBasedProofs`, from the assumptions of `TurnBased` only, with late and dead
clients included:

- `TypeCorrect`: `Spec => []TypeOK`.
- `StreamIsAligned`: `Spec => []StreamAligned`. `StreamAligned` is not
  inductive: it says nothing of a client that has caught up with the server.
  The strengthening is `StreamInvariant` (at the end of `TurnBased`): the shape
  of the stream (a list of actions follows exactly the id of a player, the first
  message excepted), where the server stands relative to its last message, and
  where each client stands relative to the last message it has pulled.
  `StreamSafety` is its invariance, one lemma per process
  (`StreamServer`, `StreamClientStep`), one step per action. `ServerInStream`
  also needs that a player that is polled has not been eliminated, for the bound
  on `nbTimeout`.
- `OneRequestAtATime`: `Spec => []LockStep`.

`AgreementProofs`. What holds whatever the delays and the deaths, from the
assumptions of `TurnBased` only:

- `OthersAgree`: `Spec => []ForeignTurnsAgree`. `LogInvariant` says where the
  turns of each process are in the stream: the i-th turn of the server is the
  i-th list of actions it has published, with the id before it, and a client has
  applied as many turns as it has pulled lists (`Turns`), and the one it has
  played if it is waiting for it to come back. From that, two processes
  compare their logs through the stream and never with each other.
- `TurnsInOrder`: the turns of the server go round the players in order,
  eliminated ones included (`RoundRobin`).

What holds as long as no player is late, for `MaxConsecutiveTimeout > 0` (it is
3 in `rules.hh:20`; with 0 the server would skip every turn while the
clients play theirs):

- `RequestsFromTurn`: `Spec => []RequestFromTurn`. `TurnInvariant` adds to the
  request the champion that is about to send one, and that no call of a client
  is left in the stream but the last message of the server: otherwise a client
  could still answer an earlier call. `AnswerInvariant` is what holds before that
  is known: only a player that has gone misses a deadline.
- `PunctualStatesAgree`, and `GameStatesAgree` and `NoProcessAborts` when `Slow`
  is empty: `Spec => []GameStateAgrees` and `Spec => []NoSyncError`.
  `StateInvariant` says that the state of a live client and that of the server
  are prefixes of each other, that the request in flight is what the client
  has applied after the turns of the server, and that no turn of the server
  takes a cell twice, so that each turn of a strict game that one process has
  accepted is accepted by the others at the same place.
- `MatchImplemented`: `Spec => ImplementsMatch`, when `Slow` is empty. A
  client that has left its loop stays a prefix of the history; the step of the
  server that decides a turn and the step of the player that plays it are told
  apart by whether the player's log is ahead of the server's.

What holds when the game ends at the start or the end of a round
(`FinishHook # "player_turn"`). When a game ends in a turn the clients leave their
loops there and the server goes through the rest of the round on its own, with an
empty turn for each player left, which the first of these two cannot hold for;
`tb_last_turn` is a counterexample to the second.

- `FinalStateIsShared`: `Spec => []SharedFinalState`. Each process finds the end
  of the game for itself. `FinishInvariant` counts the hooks a process has run
  against the stream: `TicksAt(i)` is what they must be after `i` messages
  (`RoundEnds` are those of the last player's turns), and each process is there,
  but for the one hook it runs after its last message (`Closing` of the server,
  `Owed` of a spectator). It needs to know that spectators are called between
  the turns in their order, for `previous_playing_id` decides when a spectator
  ends a round: `WatchInvariant`.
- `EveryTurnIsSeen`: `Spec => []SpectatorsSeeEveryTurn`. `SeenInvariant` says
  that the server has saved a turn of each spectator for each time it was
  called, that the turns a spectator has applied are as many as its calls, but
  the call it is about to get (`Behind`), and that the spectator the server
  waits for has not left.

What holds of the file when the game is not over at the start of a round
(`FinishHook # "start_of_round"`; else `replay_loop`, which asks `is_finished()`
before `start_of_round` and the server after it, plays one round too many):

- `ReplayUnwatched`: `Spec => []ReplayRebuilds` without spectators, whoever is
  late, eliminated or dead. `RoundInvariant` says in which round the server is,
  and from it the place of each player's turns and the hooks that have run
  (`RoundPlace`, `TurnPlaces`); `FileInvariant` where the file has the lists of
  each turn (`ListAt`). The three loops of `replay_loop`, recursive functions of
  the model, are then shown one after the other to go where they say:
  `ReplayPlayerOf`, `ReplayPlayersOf`, `ReplayOfFile`.
- `ReplayWatched`: the same with spectators, as long as no player is late
  (`MaxConsecutiveTimeout > 0`). What a late player sends may close the turn of a
  spectator and is then saved as that spectator's, while the server has applied
  nothing: `Quiet` is what that breaks.

`HandshakeProofs`:

- `EverySeatIsTaken`: `Spec => []SeatsFilled`. The server only compares the
  *sum* of the two lists with `--nb_clients`. `SeatInvariant` says that each id
  occurs once and in the range of its kind, so that neither list can exceed its
  share (`ListFits`, `CompleteFillsSeats`); when the sum is reached both are
  full, and their ids are all the ids.
- `EverySeatIsItsOwners`: `Spec => []SeatIsMine`. `ReplyInvariant` adds what a
  reply in flight and a client's own id have to do with the two lists.
- `RosterIsShared`: `Spec => []RosterShared`, whenever subscriptions reach the
  server. `RosterInvariant` says that what a client has not pulled yet is the end
  of the three messages the server publishes, after the `k` it has pulled or
  missed, and what it has kept given `k`: having taken the second list for the
  first one it can only wait.
- `TypeCorrect`: `Spec => []TypeOK`, from the three invariants.

`SynchronousProofs`, for any game and any deaths. Whatever the delays:

- `TypeCorrect`: `Spec => []TypeOK`, `ForeignRoundsAgree`:
  `Spec => []ForeignActionsAgree`. `HistoryInvariant` says that the rounds of the
  server are those it has published, with one more while it collects, and that a
  client has completed exactly the rounds it has pulled, each with the published
  actions of the others; what it has beyond them is its own.
- `ActionsAppliedOnce`: `Spec => []OncePerAction`. `OnceInvariant` follows an
  action from the request to the buffer and to the stream of the server, which
  applies what it publishes (the clients follow, by `ForeignRoundsAgree`): it is
  at one of those places, and those of a player are received and published in the order of
  the rounds it has played them in, since it plays the next round after its
  acknowledgement only.
- `ReplayFollows`: `Spec => []ReplayRebuilds`. `RecordInvariant` says that the
  file is the stream and that no round but the last one of a finished match ends
  the game; from there `ReplaySteps` is an induction on the rounds of
  `replay_loop`.
- `EliminatedOnce`: the number of answers expected is the
  number of clients not eliminated, and the players among them are those counted
  late fewer than `MaxTimeout` times. The counts of the others go on, so that it
  matters that the code compares with `==`.
When no player is slow:

- `RoundBarrier`, `NeverCountedLate` (`Spec => []TimeoutsDeserved`) and
  `CountdownNeverWraps` (`Spec => []SpectatorsCounted`): with a slow player the run
  `sync_stolen` is a counterexample to the second.
  `BarrierInvariant` names the set of clients heard in the round, which the code
  does not keep: it counts them (`answers`, `spectatorsCount`) and strikes the
  players off a set of its own (`timeouting`). The three agree (`Collected`) as
  long as a request is never left for the next round. A collection ends because
  as many answers came as are expected, and then those heard are all those not
  eliminated (`NobodyPending`), or because a deadline has passed, and then
  those not heard are gone; the requests of the spectators still to come
  are the only ones the second loop can find.
- `ConsistentRounds`: `Spec => []RoundsAgree`. `StepInvariant` says where what a
  live client has played in the open round is: in its request, then in the
  buffer, then in the round that is published, and nowhere else.
- `RoundsImplemented`: `Spec => ImplementsRounds`. `DealInvariant` adds what
  the requests of the dead hold, for the abstract barrier lets a dead client's
  last round count or not, and that no client leaves the loop before the server.

`ApiProofs`, for a game with `ClearsHistory` and without `PlaysInInit`:

- `CancelGoesBackOneAction`, `SentActionsRebuildTheState`,
  `ClientAgreesWithServer`, `NeverPopsEmpty`. The invariant is `Inv`: between turns nothing is
  saved and the state is the server's; in a turn the state is the server's
  followed by the actions, and the i-th version is the server's followed by the
  first i-1. The two hypotheses are necessary: without `ClearsHistory` the run
  `api_cancel_past` is a counterexample, and with `PlaysInInit` an action of
  `init_game` breaks the agreement of the first turn.

and about `Sandbox`, with a deadline or without, for any game:

- `SandboxImplementsApi`: `SandboxSpec => ImplementsApi`. `SandboxInv` says that
  a champion has a thread only while `execute` waits for it or unwinds, and that
  both are inside `init_game` or a turn; under it each step of either thread
  is a step of `Api` or leaves its variables alone.
- `ChampionIsDoneWhenSent`: `SandboxSpec => NothingSentEarly`, from the same
  invariant.
- `SandboxedCancelGoesBackOneAction`: what is shown of `cancel` in `Api` holds in
  the sandbox, by the refinement.

`GameProofs`, from `FilesAssumption` (the lists of a file are sequences and its
constants have names):

- `AcceptedTypesResolve`: `Spec => []TypesResolve`. `LoaderInv` says, pass by
  pass, what has been established: the lists exist, `types` holds exactly the
  builtin and the declared names, each once, then the types that are mentioned
  are among them. Display functions add mentions after the pass that
  checks them, which is the case a lemma of its own is for (`DisplaysResolve`).
- `LoadingDecides`: `Spec => []LoaderDecides`. `Progress` says what each pass has
  found of the *file*: `WellFormed` is cut into the parts that one pass each is
  to decide (`WellFormedParts`), a pass goes on if and only if its part holds, and
  `rejected` implies that some part does not. The passes look at lists of names
  made from several others, `WellFormed` at the places of declarations: `Enumerates`
  relates a list to the set of places it goes through, each once, and has a lemma for
  each way the loader builds lists (`EnumeratesJoined`, `EnumeratedOnce`), so that
  "no name twice" and "one place for each name" are the same thing.
- `AgreedBindings` and `LanguageRules`: `Spec => []BindingsAgree` and
  `Spec => []LanguageRulesKept`, from `TypesAssumption` too. An accepted game is
  complete and resolved (`Progress`, `LoaderInv`) and `used_types` has every array
  of it, those of the display functions included (`UsedTypesKept`): that is
  `SoundGame` (`AcceptedIsSound`), and each part of the two properties is a lemma
  about a sound game. In `InterfacesFit`, the types that cross a binding are
  those of values once `VoidIsHeld` is excluded, and each language has an instance
  for every value, item by item (`CFits`, `JavaFits`, `CsFits`, `ValuesFit`);
  `HostsAgree` follows the words of a Java type to its descriptor. In `RustOwns` and
  `PythonNamesClasses`, a recursive filter is first shown to be a function
  (`FoundedRecursion`: it has one value on each founded type) and unfolded once
  (`RustAutoTraitsIs`...), then followed by `FoundedInduction`: `TraitsAreLeft`
  says that the traits of a type depend only on whether it owns memory or has a
  float, however deep. `DeclaredParameters` is an induction over the macros, which
  cut the list of parameters without loss; `InstancesOfHaskell` is one over the list
  of pairs, then a bijection between it and the arrays of the game.

Three of these proofs failed at first because the model was wrong: `WellFormed`
accepted an argument, or a game, named as the keyword of a constant, which
the loader refuses; `InterfacesMeet` forgot `void` arguments and arrays of `void`, which no run
had, and `MCGame` has one now; and two arms of `RustApiInputType` held of an array of
strings, where the code takes the first.

`BuildProofs`, from `NoTestAssumption` (no test is the value that stands for
nobody holding the lock) and `LanguagesAssumption` (the places a language
generates are a list, and so are its links):

- `NoResultIsLost` and `FailuresAreReported`: `Spec => []ResultsKept` and
  `Spec => []FailureReported`. `TestInv`: the lock is held by the one test
  between its two ends, the list holds the tests that have stored their
  result and each of them once, and the first to have done so is the one that
  adds the summary. `BuildOutcome` ties it to the end of a build.
- `CheckallConcludes`: `Spec => []CheckallConclusive`, for any combination of
  options. A signature alone shows nothing: a test that failed has one, and so
  has a test of which some cases were run. `SignatureInv` says that in a build
  which forces a test and chooses no cases, its outcome is bad whenever its code
  is, once it has run, and `BuildOutcome` that a build which ran a bad one fails.
- `EnvironmentIsIsolated`: `Spec => EnvIsolated`. `DiskInv` says that a
  champion opens a file only once what was at its place has been removed, so that
  the write does not follow a link, and that this holds of a run that was
  interrupted in between as well.
- `FilesAreComplete`: `Spec => []FilesComplete`. `FilesInv` says of a place
  of a directory that it is still to be done in the run (`Due`), is being done,
  or is made: from the version the run has loaded, or a link to a place that
  the environment has. `AllAreGenerated` says that the
  list a run starts with has every place that any language generates, from what a
  flattened list holds (`FlattenItems`).

`ListLemmas` is what the inductions rest on. The induction theorems of the
library take an operator as a parameter, so that they cannot be cited;
`SetInduction` and `ListInduction` state induction on *sets* of numbers and of
lists, from the well-founded induction of the library (`SmallestOf`), and the
recursive functions of the models are reasoned about with them. `FoundedRecursion`
is the same for recursion over things made of smaller ones: such a definition
has a solution, so that the function it defines satisfies it.

Only model-checked: liveness (`Termination`, `EveryoneSeated`, `TurnsEnd`,
`BuildEnds`), which is out of the prover's reach. Every other
property of the passing runs is stated by a theorem, those about a finished match and
its replay under the hypotheses given with them: in the other cases (`tb_crash`) the run
is what there is.

## 5. Where the code and its comments part

- **`tb_last_turn`**: in a game like `tictactoe`, found finished in the turn of
  the last player, a spectator leaves its loop at `rules.cc:440` before its own
  turn, and the server waits for it for ever. The comment at `rules.cc:592-593`
  promises it every turn. When the game ends in `end_of_round`, a spectator waits
  for a last round the server does not play (`rules.cc:518` and 615-620); that is
  why the passing runs with a spectator end the game in `start_of_round`.
- **`sync_stolen`**: the loop of `rules.cc:209` counts messages. A player that
  answers the previous round late and the current one at once takes the place
  of a punctual player, whose `nb_timeout` then grows.
- **`hs_auto_refused`**: the id given to a client that names none is the number
  of clients of its kind, which another may have chosen: it is refused although a
  seat is free.
- **`api_cancel_past`**: `cancel` only looks for a saved state. `plusminus` never
  clears its history, so that in a later turn `cancel` goes back to a state of
  an earlier one and pops an empty list.

Seen while modelling, without a run of their own.

In a match: a late answer to a strict
game stops the server, not the client (`ReceiveAnswer`); the actions of an
eliminated player that is heard again are applied (`ReceiveRevived`); a message
that is not `MSG_CONNECT` ends the connection phase (`IgnoreRequest`); with a
late player and a spectator heard twice in a round `spectators_count` does wrap;
an action accepted in `init_game` is never sent (`PlaysInInit`).

In a replay: when the game ends in `start_of_round`, `replay_loop` plays a whole
round more than was saved, since it asks `is_finished()` before `start_of_round`
(`rules.cc:383-385`) and the server after it (`rules.cc:615-620`); it reads the
result of the match as lists of actions. With the two findings on spectators, a
game with spectators that ends for all of them is one that cannot be
replayed. When a player was late its actions may be saved in a spectator's
turn, where the replay of a strict game refuses them.

In the sandbox: a champion that returns just after its deadline writes its
result into a frame that has been unwound (`WriteResult` while `caller` is
`"throwing"`), until the process aborts; and the failure of `pthread_create` is
not noticed, since it returns positive numbers (`sandbox.inl:138`).

In the generators: `void` passes for the type of a field or an argument, and
structs may mention later ones; a struct that holds an array of itself, or no
field, breaks the Rust and Python filters; an array of `foo` has the C name of
a struct `foo_array`; an OCaml argument named `unit` is dropped
(`InterfacesMeet` excludes the first, `VoidIsHeld`; the parts `NamesDeclared`,
`RustOwnership` and `CamlParameters` of `LanguageRulesKept` name the others);
the arguments of a user function in Java are converted the wrong way round;
`_register` files every named function or test among the filters; a failed
`make tar` has no message and counts as a success (`CheckLanguage`), against
the docstring of `check_tar`; the verdict of `--check` is dropped (`EndCheck`);
generating again overwrites edited files.

In the unit tests: `--checkfilter t.Case` and a test that fails both leave the
signature of the whole test, so that a later `--check` skips it; the cases are
chosen in every test that runs, those that `--checkall` adds included.

In `tictactoe`: the second player plays on after the first has won, and
`compute_scores` never takes a point back, so that both may have won.

## 6. What is not modelled, and the plan

Not modelled, and why:

- the serialisation buffer: both directions of a message are one function in
  the code, and the match modules send abstract messages; what a truncated file
  does is undefined behaviour;
- the launcher: it starts processes and waits; what they do to each
  other is in the match modules;
- `--socket_timeout`, spectators whose champion plays actions, scores, metrics
  and dumps;
- the board and the winner of `tictactoe`, the secret number of `plusminus`:
  parameters of `TurnBased`, `Synchronous` and `Api`;
- the texts the generators write, beyond types, prototypes and conversions; the
  rules, LaTeX, Sphinx and Ruby generators, `gendiff`, which have no state;
- logging, dynamic loading, packaging: no behaviour to speak of.

What would come next, in order: `TurnBased` with spectators that play and with
`--socket_timeout`; the board of `tictactoe` against a reference definition; two
`Sandbox`es and a server composed; the launcher with a client that is refused.
Each would bring its theorems; those of the present modules that the prover can
reach are proved.

## 7. Running

    tlc -workers 2 -config tb_watched.cfg MCTurnBased.tla
    tlc -workers 2 -config sync_crash.cfg MCSynchronous.tla
    tlc -workers 2 -config hs_seats.cfg MCHandshake.tla
    tlc -workers 2 -config api_turns.cfg Sandbox.tla
    tlc -workers 2 -config game_load.cfg MCGame.tla
    tlc -workers 2 -config build.cfg MCBuild.tla
    tlapm TurnBasedProofs.tla

`tb_*` run with `MCTurnBased`, `sync_*` with `MCSynchronous`, `hs_*` with
`MCHandshake`, `api_cancel_past` with `Api`. The longest takes about two
minutes.
