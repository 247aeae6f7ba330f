------------------------------ MODULE UnitTests ------------------------------
(***************************************************************************)
(* Unit tests in a build (tools/waf/unittest_gtest.py).  Each test that    *)
(* the options of the build ask for is a task of its own; the threads of   *)
(* the build run tasks concurrently and add their results to one list of   *)
(* the build, which a function called at the end of the build turns into   *)
(* the outcome of the build.  Tasks whose inputs have not changed since    *)
(* they ran are skipped, in this build and in the next ones.               *)
(***************************************************************************)
EXTENDS Naturals, Sequences, FiniteSets

CONSTANTS Tests, NoTest
ASSUME NoTestAssumption == NoTest \notin Tests

VARIABLES
    code,       \* whether each test would pass, "missing" when it does not exist
    sigs,       \* the code each test was last run with, kept between builds
    option,     \* what this build was asked to check
    utask,      \* how far the task of each test is
    outcome,    \* the return code of its last execution
    results,    \* bld.utest_results, and whether it exists
    postFuns,   \* functions to call when the build ends
    addedPost,  \* bld.added_post_fun
    testlock    \* the test that holds it

testVars == <<code, sigs, option, utask, outcome, results, postFuns, addedPost, testlock>>

\* The tests a name given on the command line stands for: one, or none when no
\* test has that name.
Called == {{}} \cup {{t} : t \in Tests}

\* Each option is one of its own, and they combine.  A pattern names the tests
\* before its dot ("*" is all of them) and, after it, cases to run instead of
\* whole tests.
Options ==
    [check : BOOLEAN, checkall : BOOLEAN, checkleak : BOOLEAN,
     checkone : Called, checkfilter : Called \cup {Tests}, cases : BOOLEAN]

\* Options.options.checkone is the name of the test, or match_filter.
Named(opt, t) == t \in opt.checkone \cup opt.checkfilter

\* test_remover drops the methods of the tests that are not asked for.
Kept(opt, t) == opt.check \/ opt.checkall \/ opt.checkleak \/ Named(opt, t)

\* Mutant: --checkall skips like --check.
ForcedByName(opt, t) == opt.checkleak \/ Named(opt, t)

\* runnable_status, for a task that would be skipped.
Forced(opt, t) == opt.checkall \/ opt.checkleak \/ Named(opt, t)

\* The return codes of a test: cases chosen by the pattern of --checkfilter, be
\* it for another test, may all pass in a test that fails, and valgrind may
\* find a leak in one that passes.
Outcomes(opt, c) ==
    {c} \cup (IF opt.cases THEN {"good"} ELSE {})
        \cup (IF opt.checkleak THEN {"bad"} ELSE {})

NoResults == [exists |-> FALSE, list |-> <<>>]

UnitTestsInit ==
    /\ code \in [Tests -> {"good", "bad"}] \cup {[t \in Tests |-> "missing"]}
    /\ sigs = [t \in Tests |-> "none"]
    /\ option = [check |-> FALSE, checkall |-> FALSE, checkleak |-> FALSE,
                 checkone |-> {}, checkfilter |-> {}, cases |-> FALSE]
    /\ utask = [t \in Tests |-> "none"]
    /\ outcome = [t \in Tests |-> "none"]
    /\ results = NoResults
    /\ postFuns = 0
    /\ addedPost = FALSE
    /\ testlock = NoTest
-----------------------------------------------------------------------------
\* A new build has a context of its own; signatures are read back.
OpenContext(opt) ==
    /\ option' = opt
    /\ utask' = [t \in Tests |-> IF code[t] # "missing" /\ Kept(opt, t) THEN "ready" ELSE "none"]
    /\ outcome' = [t \in Tests |-> "none"]
    /\ results' = NoResults
    /\ postFuns' = 0
    /\ addedPost' = FALSE
    /\ testlock' = NoTest
    /\ UNCHANGED <<code, sigs>>

Becomes(t, step) == utask' = [utask EXCEPT ![t] = step]

\* runnable_status.
Skip(t) ==
    /\ utask[t] = "ready"
    /\ sigs[t] = code[t]
    /\ ~Forced(option, t)
    /\ Becomes(t, "done")
    /\ UNCHANGED <<code, sigs, option, outcome, results, postFuns, addedPost, testlock>>

\* run, up to the end of the process.
Execute(t) ==
    /\ utask[t] = "ready"
    /\ sigs[t] # code[t] \/ Forced(option, t)
    /\ \E result \in Outcomes(option, code[t]) : outcome' = [outcome EXCEPT ![t] = result]
    /\ Becomes(t, "executed")
    /\ UNCHANGED <<code, sigs, option, results, postFuns, addedPost, testlock>>

\* Mutant: results are stored without the lock.
Always == TRUE

Unlocked == testlock = NoTest

Acquire(t) ==
    /\ utask[t] = "executed"
    /\ Unlocked
    /\ testlock' = t
    /\ Becomes(t, "locked")
    /\ UNCHANGED <<code, sigs, option, outcome, results, postFuns, addedPost>>

\* utest_results.append, or the exception that says there is no list yet.
AppendResult(t) ==
    /\ utask[t] = "locked"
    /\ IF results.exists
         THEN /\ results' = [results EXCEPT !.list = Append(@, t)]
              /\ Becomes(t, "stored")
         ELSE /\ Becomes(t, "first")
              /\ results' = results
    /\ UNCHANGED <<code, sigs, option, outcome, postFuns, addedPost, testlock>>

CreateResults(t) ==
    /\ utask[t] = "first"
    /\ results' = [exists |-> TRUE, list |-> <<t>>]
    /\ Becomes(t, "stored")
    /\ UNCHANGED <<code, sigs, option, outcome, postFuns, addedPost, testlock>>

\* added_post_fun is read.
LookForSummary(t) ==
    /\ utask[t] = "stored"
    /\ Becomes(t, IF addedPost THEN "releasing" ELSE "adding")
    /\ UNCHANGED <<code, sigs, option, outcome, results, postFuns, addedPost, testlock>>

AddSummary(t) ==
    /\ utask[t] = "adding"
    /\ postFuns' = postFuns + 1
    /\ addedPost' = TRUE
    /\ Becomes(t, "releasing")
    /\ UNCHANGED <<code, sigs, option, outcome, results, testlock>>

\* Mutant: the task that created the list returns without releasing the lock.
StillLocked(t) == IF Len(results.list) = 1 THEN testlock ELSE NoTest

Released(t) == NoTest

\* The task is successful whatever the test said: its signature is stored.
Release(t) ==
    /\ utask[t] = "releasing"
    /\ testlock' = Released(t)
    /\ sigs' = [sigs EXCEPT ![t] = code[t]]
    /\ Becomes(t, "done")
    /\ UNCHANGED <<code, option, outcome, results, postFuns, addedPost>>

TestStep(t) ==
    \/ Skip(t) \/ Execute(t) \/ Acquire(t) \/ AppendResult(t) \/ CreateResults(t)
    \/ LookForSummary(t) \/ AddSummary(t) \/ Release(t)

TestsDone == \A t \in Tests : utask[t] \in {"none", "done"}

\* Mutant: only the last result is looked at.
LastFailed(list) == {list[i] : i \in {Len(list)}}

Listed(list) == {list[i] : i \in DOMAIN list}

\* summary raises an error when a test of the list failed.
SummaryFails ==
    postFuns > 0 /\ \E t \in Listed(results.list) : outcome[t] = "bad"

\* A test, or what it tests, is edited.
EditCode(t) ==
    /\ code[t] # "missing"
    /\ code' = [code EXCEPT ![t] = IF @ = "good" THEN "bad" ELSE "good"]
    /\ UNCHANGED <<sigs, option, utask, outcome, results, postFuns, addedPost, testlock>>
=============================================================================
