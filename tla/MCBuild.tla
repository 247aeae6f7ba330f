------------------------------ MODULE MCBuild ------------------------------
(***************************************************************************)
(* Two languages, one with its champion file only and one with its API     *)
(* only.  The tests of a game and its champions share nothing but the      *)
(* builds, so that they are checked apart: a game with tests that nobody   *)
(* plays, or one without tests.                                            *)
(***************************************************************************)
EXTENDS Build

MCLangNames == <<"c", "php">>
MCLanguages ==
    [c |-> [files |-> <<"champion">>, symlinks |-> <<>>],
     php |-> [files |-> <<>>, symlinks |-> <<"api">>]]

\* The test that options name.
Called1 == {CHOOSE t \in Tests : TRUE}

NoOption ==
    [check |-> FALSE, checkall |-> FALSE, checkleak |-> FALSE,
     checkone |-> {}, checkfilter |-> {}, cases |-> FALSE]

\* A pattern of --checkfilter that chooses cases of the test.
SomeCases == [NoOption EXCEPT !.checkfilter = Called1, !.cases = TRUE]

\* Each option alone, and cases beside --checkall.
MCOptions ==
    {NoOption, SomeCases, [SomeCases EXCEPT !.checkall = TRUE],
     [NoOption EXCEPT !.check = TRUE], [NoOption EXCEPT !.checkall = TRUE],
     [NoOption EXCEPT !.checkleak = TRUE], [NoOption EXCEPT !.checkone = Called1],
     [NoOption EXCEPT !.checkfilter = Tests]}

NoTests == \A t \in Tests : code[t] = "missing"

MCInit == Init /\ (NoTests \/ runs = MaxRuns)

\* Without tests all builds are alike.  With tests the game does not change, and
\* its files, with which the tests share nothing, are generated before they run.
MCNext ==
    /\ Next
    /\ IF NoTests THEN option' = NoOption
                  ELSE /\ option' \in MCOptions
                       /\ version' = version
                       /\ run["env"].state = "running" /\ build' = "running" => utask' = utask

MCSpec == MCInit /\ [][MCNext]_vars /\ WF_vars(BuildTask) /\ WF_vars(EndBuild)
=============================================================================
