-------------------------------- MODULE Build --------------------------------
(***************************************************************************)
(* A game directory as its wscript builds it                               *)
(* (templates/rules/wscript.jinja2): each build generates the environment  *)
(* of champions again (tools/waf/wafgenerator.py) and runs the unit tests  *)
(* it is asked for, all of them tasks of one build that threads run        *)
(* concurrently.  Meanwhile a champion uses that environment, the game and *)
(* the tests are edited between builds, and a build may be interrupted at  *)
(* any step.                                                               *)
(***************************************************************************)
EXTENDS Players, UnitTests

CONSTANTS MaxBuilds      \* builds started
VARIABLES build, builds  \* the state of the build, the builds started

vars == <<playerVars, testVars, build, builds>>

Init ==
    /\ PlayersInit
    /\ UnitTestsInit
    /\ build = "idle"
    /\ builds = 0
-----------------------------------------------------------------------------
\* The wscript is read; the generator task has no signature (always=True) and
\* is run in every build.
StartBuild ==
    /\ build # "running" /\ builds < MaxBuilds
    /\ \E opt \in Options : OpenContext(opt)
    /\ Start("env", FALSE, FALSE)
    /\ runs' = runs
    /\ build' = "running"
    /\ builds' = builds + 1

BuildTask ==
    /\ build = "running"
    /\ \/ GeneratorStep("env") /\ UNCHANGED testVars
       \/ (\E t \in Tests : TestStep(t)) /\ UNCHANGED playerVars
    /\ UNCHANGED <<build, builds>>

\* All tasks are done: the post functions are called.
EndBuild ==
    /\ build = "running"
    /\ run["env"].state = "done" /\ TestsDone
    /\ build' = IF SummaryFails THEN "failed" ELSE "ok"
    /\ UNCHANGED <<playerVars, testVars, builds>>

\* A build that is interrupted stops its tasks where they are.
InterruptBuild ==
    /\ build = "running"
    /\ build' = "interrupted"
    /\ IF run["env"].state = "running" THEN Interrupted("env") ELSE UNCHANGED playerVars
    /\ UNCHANGED <<testVars, builds>>

Edit ==
    /\ build # "running"
    /\ \/ GameChanges /\ UNCHANGED testVars
       \/ (\E t \in Tests : EditCode(t)) /\ UNCHANGED playerVars
    /\ UNCHANGED <<build, builds>>

Champion ==
    /\ \/ ChampionStarts \/ GeneratorStep("champion")
       \/ ChampionEdits \/ Interrupted("champion")
    /\ UNCHANGED <<testVars, build, builds>>

Next == StartBuild \/ BuildTask \/ EndBuild \/ InterruptBuild \/ Edit \/ Champion

\* The threads of the build run every task they can.
Spec ==
    /\ Init /\ [][Next]_vars
    /\ WF_vars(BuildTask) /\ WF_vars(EndBuild)
-----------------------------------------------------------------------------
(* Properties                                                              *)

\* Whatever a champion does in its directory, generating files over links an
\* earlier run left included, the environment that all champions share is not
\* written to (Generator.template removes "symlink leftovers", generator.py:36).
EnvIsolated == [][Champion => fs'["env"] = fs["env"]]_vars

\* A build that ends well leaves every file of the environment complete and of
\* the game that was built, even after builds that were interrupted, until the
\* next build starts (wafgenerator.py:13).
EnvComplete ==
    build \in {"ok", "failed"} =>
       \A place \in Generated : fs["env"][place] = File(run["env"].version)

\* After a run that ended well a champion has all its files: its own ones,
\* generated or edited, and the API, either linked to the environment or of the
\* game the run loaded; a link leads to a file, unless a build is writing or
\* failed to write it (make_player, player.py:48-72).
ChampionComplete ==
    run["champion"].state = "done" =>
       \A place \in Generated :
          IF run["champion"].linked /\ Shared(place)
            THEN /\ fs["champion"][place] = Link
                 /\ ~Exists("champion", place) => build \in {"running", "interrupted"}
            ELSE fs["champion"][place] \in {File(run["champion"].version)}
                    \cup IF Shared(place) THEN {} ELSE {Mine}

\* Interruptions, links and builds at the same time leave no file missing,
\* empty or of another game, in the environment nor in a champion.
FilesComplete == EnvComplete /\ ChampionComplete

\* When a build ends every test it executed is in the list once, whichever
\* threads stored first, and the summary is called once if there is anything
\* to sum up (utest.run, unittest_gtest.py:240-255).
ResultsKept ==
    build \in {"ok", "failed"} =>
       LET executed == {t \in Tests : outcome[t] # "none"} IN
       /\ Listed(results.list) = executed
       /\ Len(results.list) = Cardinality(executed)
       /\ postFuns = IF executed = {} THEN 0 ELSE 1

\* A build fails when a test that it executed failed, and only then
\* (unittest_gtest.py:187, "The execution is always successful").
FailureReported ==
    build \in {"ok", "failed"} =>
       (build = "failed" <=> \E t \in Tests : outcome[t] = "bad")

\* When a build with --checkall succeeds all tests pass, those that failed in
\* an earlier build or of which only some cases were run, and that have not
\* changed since, included; --checkleak says as much, --checkone and
\* --checkfilter do of the tests they name, and none of them does when a pattern
\* chooses cases (utest.runnable_status, unittest_gtest.py:170-183).
CheckallConclusive ==
    build = "ok" /\ ~option.cases =>
       \A t \in Tests :
          /\ \/ option.checkall \/ option.checkleak
             \/ t \in option.checkone \cup option.checkfilter
          /\ sigs[t] = code[t]
          => code[t] = "good"

\* Every build ends: no test waits for ever for the lock.
BuildEnds == build = "running" ~> build # "running"

=============================================================================
