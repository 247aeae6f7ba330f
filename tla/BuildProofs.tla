----------------------------- MODULE BuildProofs -----------------------------
(***************************************************************************)
(* Proofs about Build, for any number of tests, languages, files, versions *)
(* and builds: what the lock of the unit tests protects, what --checkall   *)
(* concludes, what a champion cannot write to, and that no file of the     *)
(* environment or of a champion is missing or old.                         *)
(***************************************************************************)
EXTENDS Build, FiniteSetTheorems, ListLemmas

-----------------------------------------------------------------------------
(* The results of the tests                                                *)

\* From testlock.acquire() to testlock.release().
Holding == {"locked", "first", "stored", "adding", "releasing"}

\* The tests whose result has been stored in this build.
Stored ==
    {t \in Tests : \/ utask[t] \in {"stored", "adding", "releasing"}
                   \/ utask[t] = "done" /\ outcome[t] # "none"}

TestTypeOK ==
    /\ utask \in [Tests -> Holding \cup {"none", "ready", "executed", "done"}]
    /\ code \in [Tests -> {"good", "bad", "missing"}]
    /\ outcome \in [Tests -> {"none", "good", "bad", "missing"}]
    /\ results \in [exists : BOOLEAN, list : Seq(Tests)]
    /\ addedPost \in BOOLEAN

\* The lock is held by the one test that is between its two ends.
Mutex == \A t \in Tests : utask[t] \in Holding <=> testlock = t

OutcomeOfTask ==
    \A t \in Tests :
       /\ utask[t] \in {"none", "ready"} => outcome[t] = "none"
       /\ utask[t] \in {"executed"} \cup Holding => outcome[t] # "none"

\* The list holds the stored tests, once each, and is missing when a test is
\* about to create it.
ListIsStored ==
    /\ IsFiniteSet(Stored)
    /\ Len(results.list) = Cardinality(Stored)
    /\ Listed(results.list) = Stored
    /\ ~results.exists => results.list = <<>>
    /\ \A t \in Tests : utask[t] = "first" => ~results.exists

\* The first test to have stored its result is the one that adds the summary.
SummaryOnce ==
    /\ postFuns = IF addedPost THEN 1 ELSE 0
    /\ addedPost => Stored # {}
    /\ \A t \in Tests : utask[t] = "adding" => ~addedPost
    /\ ~addedPost => \A t \in Stored : utask[t] \in {"stored", "adding"}

TestInv == TestTypeOK /\ Mutex /\ OutcomeOfTask /\ ListIsStored /\ SummaryOnce

\* A build that ended had run all its tests, and its outcome is the summary's.
BuildOutcome ==
    build \in {"ok", "failed"} => TestsDone /\ (build = "failed" <=> SummaryFails)

\* What the list shows of a test does not depend on the order of the results.
LEMMA ListedAppend ==
  ASSUME NEW S, NEW list \in Seq(S), NEW e \in S
  PROVE  Listed(Append(list, e)) = Listed(list) \cup {e}
  <1>1. /\ Append(list, e) \in Seq(S)
        /\ DOMAIN Append(list, e) = DOMAIN list \cup {Len(list) + 1}
        /\ Append(list, e)[Len(list) + 1] = e
        /\ \A i \in DOMAIN list : Append(list, e)[i] = list[i]
    BY AppendProperties, LenProperties
  <1> QED
    BY <1>1 DEF Listed

\* A build that starts has stored nothing.
LEMMA NothingStored ==
  ASSUME NEW opt \in Options, TestTypeOK, OpenContext(opt)
  PROVE  TestInv' /\ Stored' = {}
  <1>1. TestTypeOK'
    <2>1. utask' \in [Tests -> {"ready", "none"}] /\ outcome' = [t \in Tests |-> "none"]
      BY DEF OpenContext
    <2>2. results' = [exists |-> FALSE, list |-> <<>>] /\ addedPost' = FALSE
      BY DEF OpenContext, NoResults
    <2>3. code' = code
      BY DEF OpenContext
    <2>4. <<>> \in Seq(Tests)
      BY EmptySeq
    <2> QED
      BY <2>1, <2>2, <2>3, <2>4 DEF TestTypeOK
  <1>2. \A t \in Tests : utask'[t] \in {"ready", "none"} /\ outcome'[t] = "none"
    BY DEF OpenContext
  <1>3. Stored' = {}
    BY <1>2 DEF Stored
  <1>4. Mutex'
    BY <1>2, NoTestAssumption DEF OpenContext, Mutex, Holding
  <1>5. OutcomeOfTask'
    BY <1>2 DEF OutcomeOfTask, Holding
  <1>6. ListIsStored'
    <2>1. results' = [exists |-> FALSE, list |-> <<>>]
      BY DEF OpenContext, NoResults
    <2>2. Listed(<<>>) = {}
      BY DEF Listed
    <2>3. Len(<<>>) = 0 /\ IsFiniteSet({}) /\ Cardinality({}) = 0
      BY FS_EmptySet, EmptySeq
    <2> QED
      BY <1>2, <1>3, <2>1, <2>2, <2>3 DEF ListIsStored
  <1>7. SummaryOnce'
    BY <1>2, <1>3 DEF SummaryOnce, OpenContext
  <1> QED
    BY <1>1, <1>3, <1>4, <1>5, <1>6, <1>7 DEF TestInv

\* What a step does to the stored tests, and what it leaves alone.
LEMMA StepStores ==
  ASSUME TestInv, NEW t \in Tests, TestStep(t)
  PROVE  /\ TestTypeOK' /\ Mutex' /\ OutcomeOfTask'
         /\ \A u \in Tests \ {t} : utask'[u] = utask[u] /\ outcome'[u] = outcome[u]
  <1> USE DEF TestInv
  <1>0. ASSUME Execute(t)
        PROVE  \E r \in {"good", "bad", "missing"} : outcome' = [outcome EXCEPT ![t] = r]
    <2>1. Outcomes(option, code[t]) \subseteq {"good", "bad", "missing"}
      BY DEF Outcomes, TestTypeOK
    <2> QED
      BY <1>0, <2>1 DEF Execute
  <1>1. TestTypeOK'
    <2>1. results'.list \in Seq(Tests) /\ results' \in [exists : BOOLEAN, list : Seq(Tests)]
      <3>1. Append(results.list, t) \in Seq(Tests) /\ <<t>> \in Seq(Tests)
        BY AppendProperties DEF TestTypeOK
      <3>2. CASE AppendResult(t)
        BY <3>1, <3>2 DEF AppendResult, TestTypeOK
      <3>3. CASE CreateResults(t)
        BY <3>1, <3>3 DEF CreateResults
      <3>4. CASE results' = results
        BY <3>4 DEF TestTypeOK
      <3> QED
        BY <3>2, <3>3, <3>4
           DEF TestStep, Skip, Execute, Acquire, LookForSummary, AddSummary, Release
    <2>2. utask' \in [Tests -> Holding \cup {"none", "ready", "executed", "done"}]
      BY DEF TestStep, Skip, Execute, Acquire, AppendResult, CreateResults,
             LookForSummary, AddSummary, Release, Becomes, TestTypeOK, Holding
    <2>3. addedPost' \in BOOLEAN /\ code' = code
      BY DEF TestStep, Skip, Execute, Acquire, AppendResult, CreateResults,
             LookForSummary, AddSummary, Release, TestTypeOK
    <2>4. outcome' \in [Tests -> {"none", "good", "bad", "missing"}]
      <3>1. CASE Execute(t)
        BY <1>0, <3>1 DEF TestTypeOK
      <3>2. CASE ~Execute(t)
        BY <3>2 DEF TestStep, Skip, Acquire, AppendResult, CreateResults,
                    LookForSummary, AddSummary, Release, TestTypeOK
      <3> QED
        BY <3>1, <3>2
    <2> QED
      BY <2>1, <2>2, <2>3, <2>4 DEF TestTypeOK
  <1>2. Mutex'
    BY NoTestAssumption
       DEF TestStep, Skip, Execute, Acquire, AppendResult, CreateResults, LookForSummary,
           AddSummary, Release, Released, Unlocked, Becomes, TestTypeOK, Mutex, Holding
  <1>3. OutcomeOfTask'
    <2>1. CASE Execute(t)
      <3>1. PICK r \in {"good", "bad", "missing"} : outcome' = [outcome EXCEPT ![t] = r]
        BY <1>0, <2>1
      <3>2. utask' = [utask EXCEPT ![t] = "executed"]
        BY <2>1 DEF Execute, Becomes
      <3> QED
        BY <3>1, <3>2 DEF TestTypeOK, OutcomeOfTask, Holding
    <2>2. CASE ~Execute(t)
      BY <2>2 DEF TestStep, Skip, Acquire, AppendResult, CreateResults, LookForSummary,
                  AddSummary, Release, Becomes, TestTypeOK, OutcomeOfTask, Holding
    <2> QED
      BY <2>1, <2>2
  <1>4. \A u \in Tests \ {t} : utask'[u] = utask[u] /\ outcome'[u] = outcome[u]
    BY DEF TestStep, Skip, Execute, Acquire, AppendResult, CreateResults, LookForSummary,
           AddSummary, Release, Becomes, TestTypeOK
  <1> QED
    BY <1>1, <1>2, <1>3, <1>4

\* A result that is added to the list is added to the stored tests.
LEMMA StepKeepsList ==
  ASSUME TestInv, NEW t \in Tests, TestStep(t)
  PROVE  ListIsStored'
  <1> USE DEF TestInv
  <1>1. CASE AppendResult(t) /\ results.exists
    <2>1. Stored' = Stored \cup {t} /\ t \notin Stored
      BY <1>1, StepStores DEF AppendResult, Becomes, TestTypeOK, Stored, OutcomeOfTask, Holding
    <2>2. results'.list = Append(results.list, t) /\ results'.exists
      BY <1>1 DEF AppendResult, TestTypeOK
    <2>3. Len(results'.list) = Len(results.list) + 1
      BY <2>2, AppendProperties DEF TestTypeOK
    <2>4. IsFiniteSet(Stored') /\ Cardinality(Stored') = Cardinality(Stored) + 1
      BY <2>1, FS_AddElement DEF ListIsStored
    <2>5. Listed(results'.list) = Stored'
      BY <2>1, <2>2, ListedAppend DEF TestTypeOK, ListIsStored
    <2>6. \A u \in Tests : utask'[u] # "first"
      BY <1>1, StepStores DEF AppendResult, Becomes, TestTypeOK, Mutex, Holding
    <2> QED
      BY <2>2, <2>3, <2>4, <2>5, <2>6 DEF ListIsStored
  <1>2. CASE CreateResults(t)
    <2>1. results.list = <<>> /\ Stored = {}
      <3>1. results.list = <<>>
        BY <1>2 DEF CreateResults, ListIsStored
      <3> QED
        BY <3>1 DEF ListIsStored, Listed
    <2>2. Stored' = {t}
      BY <1>2, <2>1, StepStores DEF CreateResults, Becomes, TestTypeOK, Stored, OutcomeOfTask
    <2>3. results'.list = <<t>> /\ results'.exists
      BY <1>2 DEF CreateResults
    <2>4. Listed(<<t>>) = {t} /\ Len(<<t>>) = 1
      BY DEF Listed
    <2>5. IsFiniteSet({t}) /\ Cardinality({t}) = 1
      BY FS_Singleton
    <2>6. \A u \in Tests : utask'[u] # "first"
      BY <1>2, StepStores DEF CreateResults, Becomes, TestTypeOK, Mutex, Holding
    <2> QED
      BY <2>2, <2>3, <2>4, <2>5, <2>6 DEF ListIsStored
  <1>3. CASE results' = results /\ ~CreateResults(t)
    <2>1. Stored' = Stored
      BY <1>3, StepStores
         DEF TestStep, Skip, Execute, Acquire, AppendResult, CreateResults, LookForSummary,
             AddSummary, Release, Becomes, TestTypeOK, Stored, OutcomeOfTask, Holding
    <2>2. \A u \in Tests : utask'[u] = "first" => ~results.exists
      BY <1>3, StepStores
         DEF TestStep, Skip, Execute, Acquire, AppendResult, CreateResults, LookForSummary,
             AddSummary, Release, Becomes, TestTypeOK, ListIsStored
    <2> QED
      BY <1>3, <2>1, <2>2 DEF ListIsStored
  <1> QED
    BY <1>1, <1>2, <1>3
       DEF TestStep, Skip, Execute, Acquire, AppendResult, LookForSummary, AddSummary, Release

\* The summary is added by whoever finds that nobody has, under the lock.
LEMMA StepKeepsSummary ==
  ASSUME TestInv, NEW t \in Tests, TestStep(t)
  PROVE  SummaryOnce'
  <1> USE DEF TestInv
  <1>1. Stored \subseteq Stored'
    BY StepStores
       DEF TestStep, Skip, Execute, Acquire, AppendResult, CreateResults, LookForSummary,
           AddSummary, Release, Becomes, TestTypeOK, Stored, OutcomeOfTask, Holding
  <1>2. CASE AddSummary(t)
    <2>1. postFuns = 0 /\ postFuns' = 1 /\ addedPost'
      BY <1>2 DEF AddSummary, SummaryOnce
    <2>2. t \in Stored
      BY <1>2 DEF AddSummary, Stored
    <2>3. \A u \in Tests : utask'[u] # "adding"
      BY <1>2, StepStores DEF AddSummary, Becomes, TestTypeOK, Mutex, Holding
    <2> QED
      BY <1>1, <2>1, <2>2, <2>3 DEF SummaryOnce
  <1>3. CASE ~AddSummary(t)
    <2>1. postFuns' = postFuns /\ addedPost' = addedPost
      BY <1>3 DEF TestStep, Skip, Execute, Acquire, AppendResult, CreateResults,
                  LookForSummary, AddSummary, Release
    <2>2. utask'[t] = "adding" => ~addedPost
      BY <1>3 DEF TestStep, Skip, Execute, Acquire, AppendResult, CreateResults,
                  LookForSummary, Release, Becomes, TestTypeOK
    <2>3. ~addedPost => \A u \in Stored' : utask'[u] \in {"stored", "adding"}
      BY <1>3, StepStores
         DEF TestStep, Skip, Execute, Acquire, AppendResult, CreateResults, LookForSummary,
             Release, Becomes, TestTypeOK, Stored, OutcomeOfTask, Holding, SummaryOnce
    <2> QED
      BY <1>1, <2>1, <2>2, <2>3, StepStores DEF SummaryOnce
  <1> QED
    BY <1>2, <1>3

LEMMA StepKeepsTestInv ==
  ASSUME TestInv, NEW t \in Tests, TestStep(t)
  PROVE  TestInv'
  BY StepStores, StepKeepsList, StepKeepsSummary DEF TestInv

TestsInv == TestInv /\ BuildOutcome

\* The tests run in a build only; between builds their results stay.
LEMMA TestsInvariant == Spec => []TestsInv
  <1>1. Init => TestsInv
    <2> SUFFICES ASSUME Init PROVE TestsInv
      OBVIOUS
    <2>1. TestTypeOK /\ (\A t \in Tests : utask[t] = "none" /\ outcome[t] = "none")
      BY EmptySeq DEF Init, UnitTestsInit, NoResults, TestTypeOK
    <2>2. Stored = {}
      BY <2>1 DEF Stored
    <2>3. ListIsStored
      <3>1. results.list = <<>> /\ ~results.exists
        BY DEF Init, UnitTestsInit, NoResults
      <3>2. Listed(<<>>) = {}
        BY DEF Listed
      <3> QED
        BY <2>1, <2>2, <3>1, <3>2, FS_EmptySet, EmptySeq DEF ListIsStored
    <2>4. Mutex /\ OutcomeOfTask
      BY <2>1, NoTestAssumption DEF Init, UnitTestsInit, Mutex, OutcomeOfTask, Holding
    <2>5. SummaryOnce
      BY <2>1, <2>2 DEF Init, UnitTestsInit, SummaryOnce
    <2>6. BuildOutcome
      BY DEF Init, BuildOutcome
    <2> QED
      BY <2>1, <2>3, <2>4, <2>5, <2>6 DEF TestInv, TestsInv
  <1>2. TestsInv /\ [Next]_vars => TestsInv'
    <2> SUFFICES ASSUME TestsInv, [Next]_vars PROVE TestsInv'
      OBVIOUS
    <2> USE DEF TestsInv
    <2>1. CASE StartBuild
      <3>1. TestInv'
        BY <2>1, NothingStored DEF StartBuild, TestInv
      <3> QED
        BY <2>1, <3>1 DEF StartBuild, BuildOutcome
    <2>2. CASE BuildTask
      <3>1. build' = "running"
        BY <2>2 DEF BuildTask
      <3>2. CASE \E t \in Tests : TestStep(t)
        BY <3>1, <3>2, StepKeepsTestInv DEF BuildOutcome
      <3>3. CASE UNCHANGED testVars
        <4>1. TestInv'
          BY <3>3 DEF testVars, TestInv, TestTypeOK, Mutex, OutcomeOfTask, ListIsStored,
                      SummaryOnce, Stored
        <4> QED
          BY <3>1, <4>1 DEF BuildOutcome
      <3> QED
        BY <2>2, <3>2, <3>3 DEF BuildTask
    <2>3. CASE EndBuild
      <3>1. UNCHANGED testVars
        BY <2>3 DEF EndBuild
      <3>2. TestInv'
        BY <3>1 DEF testVars, TestInv, TestTypeOK, Mutex, OutcomeOfTask, ListIsStored,
                    SummaryOnce, Stored
      <3>3. TestsDone' /\ (SummaryFails' <=> SummaryFails)
        BY <2>3, <3>1 DEF EndBuild, testVars, TestsDone, SummaryFails
      <3>4. build' = "failed" <=> SummaryFails
        BY <2>3 DEF EndBuild
      <3> QED
        BY <3>2, <3>3, <3>4 DEF BuildOutcome
    <2>4. CASE InterruptBuild
      <3>1. UNCHANGED testVars /\ build' = "interrupted"
        BY <2>4 DEF InterruptBuild
      <3>2. TestInv'
        BY <3>1 DEF testVars, TestInv, TestTypeOK, Mutex, OutcomeOfTask, ListIsStored,
                    SummaryOnce, Stored
      <3> QED
        BY <3>1, <3>2 DEF BuildOutcome
    <2>5. CASE UNCHANGED <<testVars, build>>
      <3>1. UNCHANGED testVars /\ build' = build
        BY <2>5
      <3>2. TestInv'
        BY <3>1 DEF testVars, TestInv, TestTypeOK, Mutex, OutcomeOfTask, ListIsStored,
                    SummaryOnce, Stored
      <3>3. TestsDone' = TestsDone /\ (SummaryFails' <=> SummaryFails)
        BY <3>1 DEF testVars, TestsDone, SummaryFails
      <3> QED
        BY <3>1, <3>2, <3>3 DEF BuildOutcome
    <2>6. CASE Edit /\ \E t \in Tests : EditCode(t)
      <3>1. PICK t \in Tests : EditCode(t)
        BY <2>6
      <3>2. /\ UNCHANGED <<option, utask, outcome, results, postFuns, addedPost, testlock>>
            /\ build' = build
        BY <2>6, <3>1 DEF EditCode, Edit
      <3>3. code' \in [Tests -> {"good", "bad", "missing"}]
        BY <3>1 DEF EditCode, TestInv, TestTypeOK
      <3>4. TestInv'
        BY <3>2, <3>3 DEF TestInv, TestTypeOK, Mutex, OutcomeOfTask, ListIsStored,
                          SummaryOnce, Stored
      <3>5. TestsDone' = TestsDone /\ (SummaryFails' <=> SummaryFails)
        BY <3>2 DEF TestsDone, SummaryFails
      <3> QED
        BY <3>2, <3>4, <3>5 DEF BuildOutcome
    <2>7. CASE Edit /\ ~\E t \in Tests : EditCode(t)
      BY <2>5, <2>7 DEF Edit
    <2>8. CASE Champion
      BY <2>5, <2>8 DEF Champion
    <2>9. CASE UNCHANGED vars
      BY <2>5, <2>9 DEF vars
    <2> QED
      BY <2>1, <2>2, <2>3, <2>4, <2>6, <2>7, <2>8, <2>9 DEF Next
  <1> QED
    BY <1>1, <1>2, PTL DEF Spec

\* Once all tasks are done, the tests that were executed are those stored.
LEMMA ExecutedAreStored ==
  ASSUME TestInv, TestsDone
  PROVE  Stored = {t \in Tests : outcome[t] # "none"}
  BY DEF TestInv, TestsDone, OutcomeOfTask, Stored

\* When a build ends no result is lost or stored twice, and the summary is
\* called exactly when there is something to sum up, whatever the number of
\* tests and the order in which the threads take the lock.
THEOREM NoResultIsLost == Spec => []ResultsKept
  <1>1. TestsInv => ResultsKept
    <2> SUFFICES ASSUME TestsInv, build \in {"ok", "failed"}
                 PROVE  LET executed == {t \in Tests : outcome[t] # "none"} IN
                        /\ Listed(results.list) = executed
                        /\ Len(results.list) = Cardinality(executed)
                        /\ postFuns = IF executed = {} THEN 0 ELSE 1
      BY DEF ResultsKept
    <2>1. TestInv /\ TestsDone
      BY DEF TestsInv, BuildOutcome
    <2>2. Stored = {t \in Tests : outcome[t] # "none"}
      BY <2>1, ExecutedAreStored
    <2>3. Listed(results.list) = Stored /\ Len(results.list) = Cardinality(Stored)
      BY <2>1 DEF TestInv, ListIsStored
    <2>4. postFuns = IF Stored = {} THEN 0 ELSE 1
      <3>1. CASE Stored = {}
        BY <2>1, <3>1 DEF TestInv, SummaryOnce
      <3>2. CASE Stored # {}
        <4>1. PICK t \in Stored : TRUE
          BY <3>2
        <4>2. utask[t] = "done"
          BY <2>1, <4>1 DEF TestsDone, Stored
        <4>3. addedPost
          BY <2>1, <4>1, <4>2 DEF TestInv, SummaryOnce
        <4> QED
          BY <2>1, <3>2, <4>3 DEF TestInv, SummaryOnce
      <3> QED
        BY <3>1, <3>2
    <2> QED
      BY <2>2, <2>3, <2>4
  <1> QED
    BY <1>1, TestsInvariant, PTL

\* A build fails when a test that it executed failed, and only then.
THEOREM FailuresAreReported == Spec => []FailureReported
  <1>1. TestsInv => FailureReported
    <2> SUFFICES ASSUME TestsInv, build \in {"ok", "failed"}
                 PROVE  build = "failed" <=> \E t \in Tests : outcome[t] = "bad"
      BY DEF FailureReported
    <2>1. TestInv /\ TestsDone /\ (build = "failed" <=> SummaryFails)
      BY DEF TestsInv, BuildOutcome
    <2>2. Listed(results.list) = {t \in Tests : outcome[t] # "none"}
      BY <2>1, ExecutedAreStored DEF TestInv, ListIsStored
    <2>3. ASSUME NEW t \in Tests, outcome[t] = "bad" PROVE postFuns > 0
      <3>1. t \in Stored /\ utask[t] = "done"
        BY <2>1, <2>3, ExecutedAreStored DEF TestsDone, TestInv, OutcomeOfTask
      <3> QED
        BY <2>1, <3>1 DEF TestInv, SummaryOnce
    <2> QED
      BY <2>1, <2>2, <2>3 DEF SummaryFails
  <1> QED
    BY <1>1, TestsInvariant, PTL

-----------------------------------------------------------------------------
(* What --checkall concludes                                               *)

\* The signature of a test is the code it was last executed with, and the
\* outcome of a test that is not skipped is one that this code may have under the
\* options of the build.
SignatureInv ==
    /\ option \in Options
    /\ sigs \in [Tests -> {"none", "good", "bad"}]
    /\ \A t \in Tests :
          /\ code[t] = "missing" => sigs[t] = "none" /\ utask[t] = "none"
          /\ build # "idle" /\ code[t] # "missing" /\ Kept(option, t) => utask[t] # "none"
          /\ build = "running" /\ utask[t] \in {"executed"} \cup Holding =>
                outcome[t] \in Outcomes(option, code[t])
          /\ utask[t] = "done" /\ Forced(option, t) => outcome[t] \in Outcomes(option, sigs[t])

\* The step of a task leaves the signatures of the others alone.
LEMMA StepKeepsSignatures ==
  ASSUME TestInv, SignatureInv, NEW t \in Tests, TestStep(t), build = "running",
         build' = build
  PROVE  SignatureInv'
  <1> USE DEF TestInv, TestTypeOK
  <1>1. /\ code' = code /\ option' = option
        /\ \A u \in Tests \ {t} : /\ utask'[u] = utask[u] /\ outcome'[u] = outcome[u]
                                  /\ sigs'[u] = sigs[u]
    <2>1. code' = code /\ option' = option
      BY DEF TestStep, Skip, Execute, Acquire, AppendResult, CreateResults, LookForSummary,
             AddSummary, Release
    <2>2. \A u \in Tests \ {t} : sigs'[u] = sigs[u]
      BY DEF TestStep, Skip, Execute, Acquire, AppendResult, CreateResults, LookForSummary,
             AddSummary, Release, SignatureInv
    <2> QED
      BY <2>1, <2>2, StepStores
  <1>2. code[t] # "missing" /\ utask'[t] # "none"
    BY DEF TestStep, Skip, Execute, Acquire, AppendResult, CreateResults, LookForSummary,
           AddSummary, Release, Becomes, SignatureInv
  <1>3. sigs' \in [Tests -> {"none", "good", "bad"}]
    BY <1>2 DEF TestStep, Skip, Execute, Acquire, AppendResult, CreateResults,
                LookForSummary, AddSummary, Release, SignatureInv
  <1>4. utask'[t] \in {"executed"} \cup Holding => outcome'[t] \in Outcomes(option, code[t])
    BY <1>1 DEF TestStep, Skip, Execute, Acquire, AppendResult, CreateResults,
                LookForSummary, AddSummary, Release, Becomes, SignatureInv, Holding
  <1>5. utask'[t] = "done" /\ Forced(option, t) => outcome'[t] \in Outcomes(option, sigs'[t])
    <2>1. CASE Release(t)
      <3>1. outcome'[t] \in Outcomes(option, code[t]) /\ sigs'[t] = code[t]
        BY <2>1 DEF Release, SignatureInv, Holding
      <3> QED
        BY <3>1
    <2>2. CASE ~Release(t)
      BY <2>2 DEF TestStep, Skip, Execute, Acquire, AppendResult, CreateResults,
                  LookForSummary, AddSummary, Becomes
    <2> QED
      BY <2>1, <2>2
  <1>6. \A u \in Tests \ {t} :
          /\ code'[u] = "missing" => sigs'[u] = "none" /\ utask'[u] = "none"
          /\ code'[u] # "missing" /\ Kept(option, u) => utask'[u] # "none"
          /\ utask'[u] \in {"executed"} \cup Holding =>
                outcome'[u] \in Outcomes(option, code'[u])
          /\ utask'[u] = "done" /\ Forced(option, u) => outcome'[u] \in Outcomes(option, sigs'[u])
    BY <1>1 DEF SignatureInv
  <1> QED
    BY <1>1, <1>2, <1>3, <1>4, <1>5, <1>6 DEF SignatureInv

LEMMA SignaturesInvariant == Spec => []SignatureInv
  <1>1. Init => SignatureInv
    BY DEF Init, UnitTestsInit, SignatureInv, Options, Called, Holding
  <1>2. TestsInv /\ SignatureInv /\ [Next]_vars => SignatureInv'
    <2> SUFFICES ASSUME TestsInv, SignatureInv, [Next]_vars PROVE SignatureInv'
      OBVIOUS
    <2> USE DEF TestsInv
    <2>1. CASE StartBuild
      <3>1. PICK opt \in Options : OpenContext(opt)
        BY <2>1 DEF StartBuild
      <3>2. /\ option' = opt /\ code' = code /\ sigs' = sigs
            /\ \A t \in Tests :
                  utask'[t] = IF code[t] # "missing" /\ Kept(opt, t) THEN "ready" ELSE "none"
        BY <3>1 DEF OpenContext
      <3> QED
        BY <3>2 DEF SignatureInv, Holding
    <2>2. CASE BuildTask
      <3>1. build = "running" /\ build' = build
        BY <2>2 DEF BuildTask
      <3>2. CASE \E t \in Tests : TestStep(t)
        BY <3>1, <3>2, StepKeepsSignatures
      <3>3. CASE UNCHANGED testVars
        BY <3>1, <3>3 DEF testVars, SignatureInv
      <3> QED
        BY <2>2, <3>2, <3>3 DEF BuildTask
    <2>3. CASE EndBuild \/ InterruptBuild
      <3>1. UNCHANGED testVars /\ build = "running" /\ build' # "running"
        BY <2>3 DEF EndBuild, InterruptBuild
      <3> QED
        BY <3>1 DEF testVars, SignatureInv
    <2>4. CASE Edit /\ \E t \in Tests : EditCode(t)
      <3>1. PICK t \in Tests : EditCode(t)
        BY <2>4
      <3>2. /\ UNCHANGED <<sigs, option, utask, outcome>> /\ build' = build
            /\ build # "running"
        BY <2>4, <3>1 DEF EditCode, Edit
      <3>3. \A u \in Tests : code'[u] = "missing" <=> code[u] = "missing"
        BY <3>1 DEF EditCode, TestInv, TestTypeOK
      <3> QED
        BY <3>2, <3>3 DEF SignatureInv
    <2>5. CASE UNCHANGED <<testVars, build>>
      BY <2>5 DEF testVars, SignatureInv
    <2> QED
      BY <2>1, <2>2, <2>3, <2>4, <2>5 DEF Next, Edit, Champion, vars
  <1> QED
    BY <1>1, <1>2, TestsInvariant, PTL DEF Spec

\* A build with --checkall that succeeds vouches for every test that is up to
\* date, including those that failed in an earlier build, a build that was
\* interrupted for instance, and have not changed since.
THEOREM CheckallConcludes == Spec => []CheckallConclusive
  <1>1. TestsInv /\ SignatureInv /\ FailureReported => CheckallConclusive
    <2> SUFFICES ASSUME TestsInv, SignatureInv, FailureReported, build = "ok",
                        ~option.cases, NEW t \in Tests,
                        \/ option.checkall \/ option.checkleak
                        \/ t \in option.checkone \cup option.checkfilter,
                        sigs[t] = code[t]
                 PROVE  code[t] = "good"
      BY DEF CheckallConclusive
    <2>1. Kept(option, t) /\ Forced(option, t)
      BY DEF Kept, Forced, Named
    <2>2. code[t] \in {"good", "bad"}
      BY DEF TestsInv, TestInv, TestTypeOK, SignatureInv
    <2>3. utask[t] = "done"
      BY <2>1, <2>2 DEF TestsInv, BuildOutcome, TestsDone, SignatureInv
    <2>4. outcome[t] \in {code[t], "bad"}
      BY <2>1, <2>3 DEF SignatureInv, Outcomes
    <2>5. outcome[t] # "bad"
      BY DEF FailureReported
    <2> QED
      BY <2>2, <2>4, <2>5
  <1> QED
    BY <1>1, TestsInvariant, SignaturesInvariant, FailuresAreReported, PTL

-----------------------------------------------------------------------------
(* The environment                                                         *)

\* The disk has a file or none at each place, and nothing else; a run is a
\* record.
DiskTypeOK ==
    /\ fs = [user \in Users |-> [place \in Generated |-> fs[user][place]]]
    /\ DOMAIN run = Users
    /\ \A user \in Users :
          DOMAIN run[user] = {"state", "linked", "check", "version", "todo", "step"}

\* A champion that is about to write, or was when it was interrupted, has
\* removed the link that was there.
WritesToItsOwn ==
    run["champion"].step \in {"unlinked", "opened"} =>
       LET place == Head(run["champion"].todo) IN
       /\ run["champion"].state \in {"running", "failed"}
       /\ run["champion"].todo # <<>>
       /\ place \in Generated => fs["champion"][place].kind # "link"

DiskInv == DiskTypeOK /\ WritesToItsOwn

\* A directory after content was put at a place.
Puts(dir, place, content) == fs' = [fs EXCEPT ![dir][place] = content]

LEMMA DirectoryUpdate ==
  ASSUME DiskTypeOK, NEW dir \in Users, NEW place, NEW content, Puts(dir, place, content)
  PROVE  fs'[dir] = [q \in Generated |-> IF q = place THEN content ELSE fs[dir][q]]
  <1>1. DOMAIN fs = Users /\ DOMAIN fs[dir] = Generated
    BY DEF DiskTypeOK
  <1>2. fs'[dir] = [fs[dir] EXCEPT ![place] = content]
    BY <1>1 DEF Puts
  <1> QED
    BY <1>1, <1>2

\* Content put at a place changes nothing else, and nothing at all at a place
\* that is not generated.
LEMMA DiskUpdate ==
  ASSUME DiskTypeOK, NEW dir \in Users, NEW place, NEW content,
         fs' = [fs EXCEPT ![dir][place] = content]
  PROVE  /\ fs' = [u \in Users |-> [q \in Generated |-> fs'[u][q]]]
         /\ \A u \in Users \ {dir} : fs'[u] = fs[u]
         /\ place \in Generated => fs'[dir][place] = content
         /\ \A q \in Generated \ {place} : fs'[dir][q] = fs[dir][q]
         /\ place \notin Generated => \A u \in Users : fs'[u] = fs[u]
  <1>1. DOMAIN fs = Users /\ \A u \in Users : fs[u] = [q \in Generated |-> fs[u][q]]
    BY DEF DiskTypeOK
  <1>2. \A u \in Users : fs'[u] = IF u = dir THEN [fs[dir] EXCEPT ![place] = content] ELSE fs[u]
    BY <1>1
  <1>3. fs'[dir] = [q \in Generated |-> IF q = place THEN content ELSE fs[dir][q]]
    <2>1. fs'[dir] = [fs[dir] EXCEPT ![place] = content]
      BY <1>2
    <2>2. DOMAIN fs[dir] = Generated
      BY <1>1
    <2> QED
      BY <2>1, <2>2
  <1>4. fs' = [u \in Users |-> fs'[u]]
    BY <1>1
  <1>5. \A u \in Users : fs'[u] = [q \in Generated |-> fs'[u][q]]
    BY <1>1, <1>2, <1>3
  <1>6. ASSUME place \notin Generated PROVE fs'[dir] = fs[dir]
    <2>1. fs'[dir] = [q \in Generated |-> fs[dir][q]]
      BY <1>3, <1>6
    <2> QED
      BY <1>1, <2>1
  <1> QED
    BY <1>2, <1>3, <1>4, <1>5, <1>6

LEMMA DiskPut ==
  ASSUME DiskTypeOK, NEW dir \in Users, NEW place \in Generated, NEW content,
         fs' = [fs EXCEPT ![dir][place] = content]
  PROVE  /\ fs'[dir][place] = content
         /\ \A q \in Generated \ {place} : fs'[dir][q] = fs[dir][q]
  <1>1. Puts(dir, place, content)
    BY DEF Puts
  <1>2. fs'[dir] = [q \in Generated |-> IF q = place THEN content ELSE fs[dir][q]]
    BY <1>1, DirectoryUpdate
  <1> QED
    BY <1>2

\* The champion never writes where it has not looked for a link.
LEMMA WriteStaysHome ==
  ASSUME DiskInv, NEW content,
         run["champion"].step \in {"unlinked", "opened"},
         Write("champion", Head(run["champion"].todo), content)
  PROVE  fs'["env"] = fs["env"]
  <1> DEFINE place == Head(run["champion"].todo)
  <1>1. PICK dir \in Users :
          /\ fs' = [fs EXCEPT ![dir][place] = content]
          /\ place \in Generated => dir = "champion"
    BY DEF Write, Users, DiskInv, WritesToItsOwn
  <1> HIDE DEF place
  <1>2. "env" \in Users /\ "champion" # "env"
    BY DEF Users
  <1>3. CASE place \in Generated
    BY <1>1, <1>2, <1>3, DiskUpdate DEF DiskInv
  <1>4. CASE place \notin Generated
    BY <1>1, <1>2, <1>4, DiskUpdate DEF DiskInv
  <1> QED
    BY <1>3, <1>4

\* What a step of the generator changes in the records of the runs.
LEMMA RunUpdate ==
  ASSUME DiskTypeOK, NEW user \in Users, GeneratorStep(user)
  PROVE  /\ DOMAIN run' = Users
         /\ \A u \in Users : DOMAIN run'[u] = DOMAIN run[u]
         /\ \A u \in Users \ {user} : run'[u] = run[u]
  BY DEF DiskTypeOK, GeneratorStep, UnlinkLeftover, OpenFile, DumpTemplate, SourceMissing,
         UnlinkOld, SymlinkTo, Generate, CheckLanguage, EndCheck, Step, NextPlace, Fail

\* A step of the generator of the champion stays in the champion's directory.
LEMMA ChampionStaysHome ==
  ASSUME DiskInv, GeneratorStep("champion")
  PROVE  fs'["env"] = fs["env"]
  <1> DEFINE place == Head(run["champion"].todo)
  <1>1. CASE \E content : Put("champion", place, content)
    <2>1. PICK content : fs' = [fs EXCEPT !["champion"][place] = content]
      BY <1>1 DEF Put
    <2>2. "champion" \in Users /\ "env" \in Users \ {"champion"}
      BY DEF Users
    <2> HIDE DEF place
    <2> QED
      BY <2>1, <2>2, DiskUpdate DEF DiskInv
  <1>2. CASE OpenFile("champion") \/ DumpTemplate("champion")
    <2>1. PICK content : /\ run["champion"].step \in {"unlinked", "opened"}
                         /\ Write("champion", place, content)
      BY <1>2 DEF OpenFile, DumpTemplate, Running
    <2> QED
      BY <2>1, WriteStaysHome
  <1>3. CASE fs' = fs
    BY <1>3
  <1> QED
    BY <1>1, <1>2, <1>3
       DEF GeneratorStep, UnlinkLeftover, RemoveLeftover, SourceMissing, UnlinkOld,
           SymlinkTo, Generate, CheckLanguage, EndCheck

\* A step of any generator keeps the disk as it should be.
LEMMA GeneratorKeepsDisk ==
  ASSUME DiskInv, NEW user \in Users, GeneratorStep(user)
  PROVE  DiskInv'
  <1> DEFINE place == Head(run[user].todo)
  <1>1. fs' = [u \in Users |-> [q \in Generated |-> fs'[u][q]]]
    <2>1. CASE \E dir \in Users : \E content : fs' = [fs EXCEPT ![dir][place] = content]
      <3>1. PICK dir \in Users : \E content : fs' = [fs EXCEPT ![dir][place] = content]
        BY <2>1
      <3> HIDE DEF place
      <3> QED
        BY <3>1, DiskUpdate DEF DiskInv
    <2>2. CASE fs' = fs
      BY <2>2 DEF DiskInv, DiskTypeOK
    <2> QED
      BY <2>1, <2>2
         DEF GeneratorStep, UnlinkLeftover, RemoveLeftover, OpenFile, DumpTemplate,
             SourceMissing, UnlinkOld, SymlinkTo, Generate, CheckLanguage, EndCheck,
             Write, Put, Users
  <1>2. DiskTypeOK'
    BY <1>1, RunUpdate DEF DiskInv, DiskTypeOK
  <1>3. WritesToItsOwn'
    <2>1. CASE user = "env"
      <3>1. run'["champion"] = run["champion"]
        BY <2>1, RunUpdate DEF DiskInv, Users
      <3>2. fs'["champion"] = fs["champion"]
        <4>1. CASE \E content : fs' = [fs EXCEPT !["env"][place] = content]
          <5>1. PICK content : fs' = [fs EXCEPT !["env"][place] = content]
            BY <4>1
          <5>2. "env" \in Users /\ "champion" \in Users \ {"env"}
            BY DEF Users
          <5> HIDE DEF place
          <5> QED
            BY <5>1, <5>2, DiskUpdate DEF DiskInv
        <4>2. CASE fs' = fs
          BY <4>2
        <4>3. GeneratorStep("env") /\ place = Head(run["env"].todo)
          BY <2>1
        <4> QED
          BY <4>1, <4>2, <4>3
             DEF GeneratorStep, UnlinkLeftover, RemoveLeftover, OpenFile, DumpTemplate,
                 SourceMissing, UnlinkOld, SymlinkTo, Generate, CheckLanguage, EndCheck,
                 Write, Put
      <3> QED
        BY <3>1, <3>2 DEF DiskInv, WritesToItsOwn
    <2>2. CASE user = "champion" /\ UnlinkLeftover(user)
      <3>1. fs' = [fs EXCEPT !["champion"][place] = Absent] /\ "champion" \in Users
        BY <2>2 DEF UnlinkLeftover, RemoveLeftover, Put, Users
      <3>2. /\ run'["champion"].todo = run["champion"].todo
            /\ run["champion"].todo # <<>> /\ run'["champion"].state = "running"
        BY <2>2 DEF UnlinkLeftover, Running, Step, DiskInv, DiskTypeOK, Users
      <3>3. place \in Generated => fs'["champion"][place] = Absent
        <4>1. place \in Generated => fs' = [fs EXCEPT !["champion"][place] = Absent]
          BY <3>1
        <4>2. "champion" \in Users
          BY <3>1
        <4> HIDE DEF place
        <4> QED
          BY <4>1, <4>2, DiskUpdate DEF DiskInv
      <3> QED
        BY <2>2, <3>2, <3>3 DEF WritesToItsOwn, Absent
    <2>3. CASE user = "champion" /\ OpenFile(user)
      <3>1. /\ run'["champion"].todo = run["champion"].todo
            /\ run["champion"].todo # <<>> /\ run'["champion"].state = "running"
        BY <2>3 DEF OpenFile, Running, Step, DiskInv, DiskTypeOK, Users
      <3>2. place \in Generated => fs'["champion"][place] = Empty
        <4>1. place \in Generated => fs' = [fs EXCEPT !["champion"][place] = Empty]
          BY <2>3 DEF OpenFile, Running, Write, DiskInv, WritesToItsOwn
        <4>2. "champion" \in Users
          BY DEF Users
        <4> HIDE DEF place
        <4> QED
          BY <4>1, <4>2, DiskUpdate DEF DiskInv
      <3> QED
        BY <2>3, <3>1, <3>2 DEF WritesToItsOwn, Empty, File
    <2>4. CASE user = "champion" /\ \/ DumpTemplate(user) \/ UnlinkOld(user)
                                    \/ SymlinkTo(user)
      <3>1. run'["champion"].step \in {"next", "cleared"}
        BY <2>4 DEF DumpTemplate, UnlinkOld, SymlinkTo, Step, NextPlace, DiskInv, DiskTypeOK, Users
      <3> QED
        BY <3>1 DEF WritesToItsOwn
    <2>5. CASE user = "champion" /\ SourceMissing(user)
      <3>1. run'["champion"].step = "next"
        BY <2>5 DEF SourceMissing, Running, Fail, DiskInv, DiskTypeOK, Users
      <3> QED
        BY <3>1 DEF WritesToItsOwn
    <2>6. CASE user = "champion" /\ \/ Generate(user) \/ CheckLanguage(user)
                                    \/ EndCheck(user)
      <3>1. run["champion"].step \notin {"unlinked", "opened"}
        BY <2>6 DEF Generate, CheckLanguage, EndCheck, DiskInv, WritesToItsOwn
      <3>2. run'["champion"].step = run["champion"].step
        BY <2>6 DEF Generate, CheckLanguage, EndCheck, DiskInv, DiskTypeOK, Users
      <3> QED
        BY <3>1, <3>2 DEF WritesToItsOwn
    <2> QED
      BY <2>1, <2>2, <2>3, <2>4, <2>5, <2>6 DEF GeneratorStep, Users
  <1> QED
    BY <1>2, <1>3 DEF DiskInv

LEMMA DiskInvariant == Spec => []DiskInv
  <1>1. Init => DiskInv
    <2> SUFFICES ASSUME Init PROVE DiskInv
      OBVIOUS
    <2>1. fs = [user \in Users |-> [place \in Generated |-> Absent]]
      BY DEF Init, PlayersInit
    <2>2. run = [user \in Users |-> Idle]
      BY DEF Init, PlayersInit
    <2>3. fs = [user \in Users |-> [place \in Generated |-> fs[user][place]]]
      BY <2>1
    <2>4. DiskTypeOK
      BY <2>2, <2>3 DEF DiskTypeOK, Idle
    <2>5. run["champion"].step = "next"
      BY <2>2 DEF Idle, Users
    <2> QED
      BY <2>4, <2>5 DEF DiskInv, WritesToItsOwn
  <1>2. DiskInv /\ [Next]_vars => DiskInv'
    <2> SUFFICES ASSUME DiskInv, [Next]_vars PROVE DiskInv'
      OBVIOUS
    <2> USE DEF DiskInv
    <2>1. CASE UNCHANGED <<fs, run>>
      BY <2>1 DEF DiskTypeOK, WritesToItsOwn
    <2>2. ASSUME NEW user \in Users, NEW linked, NEW check, Start(user, linked, check)
          PROVE  DiskInv'
      <3>1. fs' = fs
        BY <2>2 DEF Start
      <3>2. /\ DOMAIN run' = Users
            /\ \A u \in Users : DOMAIN run'[u] =
                   {"state", "linked", "check", "version", "todo", "step"}
            /\ \A u \in Users \ {user} : run'[u] = run[u]
            /\ run'[user].step = "next"
        BY <2>2 DEF Start, DiskTypeOK
      <3>3. DiskTypeOK'
        BY <3>1, <3>2 DEF DiskTypeOK
      <3>4. WritesToItsOwn'
        BY <3>1, <3>2 DEF WritesToItsOwn, Users
      <3> QED
        BY <3>3, <3>4
    <2>3. ASSUME NEW user \in Users, Interrupted(user) PROVE DiskInv'
      <3>1. fs' = fs
        BY <2>3 DEF Interrupted
      <3>2. /\ DOMAIN run' = Users
            /\ \A u \in Users : DOMAIN run'[u] = DOMAIN run[u]
            /\ \A u \in Users \ {user} : run'[u] = run[u]
            /\ run'[user].step = run[user].step
            /\ run'[user].todo = run[user].todo
            /\ run'[user].state = "failed"
        BY <2>3 DEF Interrupted, Fail, DiskTypeOK
      <3>3. DiskTypeOK'
        BY <3>1, <3>2 DEF DiskTypeOK
      <3>4. WritesToItsOwn'
        BY <3>1, <3>2 DEF WritesToItsOwn, Users
      <3> QED
        BY <3>3, <3>4
    <2>4. CASE StartBuild
      BY <2>2, <2>4 DEF StartBuild, Users
    <2>5. CASE BuildTask
      BY <2>1, <2>5, GeneratorKeepsDisk DEF BuildTask, playerVars, Users
    <2>6. CASE EndBuild
      BY <2>1, <2>6 DEF EndBuild, playerVars
    <2>7. CASE InterruptBuild
      BY <2>1, <2>3, <2>7 DEF InterruptBuild, playerVars, Users
    <2>8. CASE Edit
      BY <2>1, <2>8 DEF Edit, GameChanges, playerVars
    <2>9. CASE Champion
      <3>1. CASE ChampionStarts
        BY <2>2, <3>1 DEF ChampionStarts, Users
      <3>2. CASE GeneratorStep("champion")
        BY <3>2, GeneratorKeepsDisk DEF Users
      <3>3. CASE ChampionEdits
        <4>1. PICK place \in Generated : fs' = [fs EXCEPT !["champion"][place] = Mine]
          BY <3>3 DEF ChampionEdits
        <4>2. run' = run /\ run["champion"].state = "done" /\ "champion" \in Users
          BY <3>3 DEF ChampionEdits, Users
        <4>3. fs' = [u \in Users |-> [q \in Generated |-> fs'[u][q]]]
          BY <4>1, <4>2, DiskUpdate
        <4> QED
          BY <4>2, <4>3 DEF DiskTypeOK, WritesToItsOwn
      <3>4. CASE Interrupted("champion")
        BY <2>3, <3>4 DEF Users
      <3> QED
        BY <2>9, <3>1, <3>2, <3>3, <3>4 DEF Champion
    <2>10. CASE UNCHANGED vars
      BY <2>1, <2>10 DEF vars, playerVars
    <2> QED
      BY <2>4, <2>5, <2>6, <2>7, <2>8, <2>9, <2>10 DEF Next
  <1> QED
    BY <1>1, <1>2, PTL DEF Spec

\* Whatever the languages and their files, no step of a champion writes to the
\* environment: not even generating over the links of an earlier run, and
\* after that run was interrupted anywhere.
THEOREM EnvironmentIsIsolated == Spec => EnvIsolated
  <1>1. DiskInv /\ [Next]_vars => [Champion => fs'["env"] = fs["env"]]_vars
    <2> SUFFICES ASSUME DiskInv, Champion PROVE fs'["env"] = fs["env"]
      OBVIOUS
    <2>1. CASE GeneratorStep("champion")
      BY <2>1, ChampionStaysHome
    <2>2. CASE ChampionEdits
      <3>1. PICK place \in Generated : fs' = [fs EXCEPT !["champion"][place] = Mine]
        BY <2>2 DEF ChampionEdits
      <3>2. "champion" \in Users /\ "env" \in Users \ {"champion"}
        BY DEF Users
      <3> QED
        BY <3>1, <3>2, DiskUpdate DEF DiskInv
    <2>3. CASE ChampionStarts \/ Interrupted("champion")
      BY <2>3 DEF ChampionStarts, Start, Interrupted
    <2> QED
      BY <2>1, <2>2, <2>3 DEF Champion
  <1> QED
    BY <1>1, DiskInvariant, PTL DEF Spec, EnvIsolated

-----------------------------------------------------------------------------
(* The files of the environment and of a champion                          *)

LEMMA HeadOrTail ==
  ASSUME NEW S, NEW s \in Seq(S), s # <<>>
  PROVE  /\ Head(s) \in S /\ Head(s) \in Range(s)
         /\ Tail(s) \in Seq(S)
         /\ \A e \in Range(s) : e = Head(s) \/ e \in Range(Tail(s))
  <1>1. /\ Head(s) = s[1] /\ 1 \in DOMAIN s /\ Tail(s) \in Seq(S)
        /\ Len(Tail(s)) = Len(s) - 1
        /\ \A i \in 1 .. Len(s) - 1 : Tail(s)[i] = s[i + 1]
    BY HeadTailProperties
  <1>2. ASSUME NEW e \in Range(s), e # Head(s) PROVE e \in Range(Tail(s))
    <2>1. PICK i \in 1 .. Len(s) : e = s[i]
      BY <1>2 DEF Range
    <2>2. i - 1 \in 1 .. Len(s) - 1 /\ Tail(s)[i - 1] = e
      <3>1. i # 1
        BY <1>1, <1>2, <2>1
      <3>2. i - 1 \in 1 .. Len(s) - 1 /\ (i - 1) + 1 = i
        BY <2>1, <3>1
      <3> QED
        BY <1>1, <2>1, <3>2
    <2>3. i - 1 \in DOMAIN Tail(s)
      BY <1>1, <2>2
    <2> QED
      BY <2>2, <2>3 DEF Range
  <1> QED
    BY <1>1, <1>2 DEF Range

\* A run of the generator goes through all the places that there are.
LEMMA AllAreGenerated == AllPlaces \in Seq(Generated) /\ Range(AllPlaces) = Generated
  <1> DEFINE names(lang) == LANGUAGES[lang].files \o LANGUAGES[lang].symlinks
             placesOf(i) == [j \in DOMAIN names(LangNames[i]) |->
                                <<LangNames[i], names(LangNames[i])[j]>>]
             seqs == [i \in DOMAIN LangNames |-> placesOf(i)]
  <1>1. AllPlaces = FlattenSeq(seqs)
    BY DEF AllPlaces
  <1>2. ASSUME NEW lang \in DOMAIN LANGUAGES
        PROVE  /\ names(lang) \in Seq(Range(names(lang)))
               /\ Range(names(lang)) = Range(LANGUAGES[lang].files)
                                         \cup Range(LANGUAGES[lang].symlinks)
    <2> DEFINE F == LANGUAGES[lang].files
               L == LANGUAGES[lang].symlinks
    <2>1. F \in Seq(Range(F)) /\ L \in Seq(Range(L))
      BY LanguagesAssumption DEF Range
    <2> HIDE DEF F, L
    <2>2. F \in Seq(Range(F) \cup Range(L)) /\ L \in Seq(Range(F) \cup Range(L))
      BY <2>1, SeqMonotonic
    <2>3. Range(F \o L) = Range(F) \cup Range(L)
      BY <2>2, RangeConcatenation
    <2>4. F \o L \in Seq(Range(F \o L))
      BY <2>2, <2>3, ConcatProperties
    <2> QED
      BY <2>3, <2>4 DEF F, L
  <1>3. ASSUME NEW i \in DOMAIN LangNames
        PROVE  /\ LangNames[i] \in DOMAIN LANGUAGES
               /\ LangNames[i] \in Range(LangNames)
               /\ LANGUAGES[LangNames[i]] \in Range(LANGUAGES)
    BY LanguagesAssumption DEF Range
  <1>4. ASSUME NEW i \in DOMAIN LangNames
        PROVE  /\ placesOf(i) \in Seq(Generated)
               /\ Range(placesOf(i)) = {<<LangNames[i], name>> : name \in Range(names(LangNames[i]))}
    <2> DEFINE lang == LangNames[i]
               ns == names(lang)
               ps == placesOf(i)
    <2>1. ns \in Seq(Range(ns)) /\ Len(ns) \in Nat /\ DOMAIN ns = 1 .. Len(ns)
      <3>1. ns \in Seq(Range(ns))
        BY <1>2, <1>3
      <3> HIDE DEF ns
      <3> QED
        BY <3>1, LenProperties
    <2>2. ps = [j \in 1 .. Len(ns) |-> <<lang, ns[j]>>]
      BY <2>1
    <2>3. ASSUME NEW name \in Range(ns) PROVE <<lang, name>> \in Generated
      <3>1. name \in Range(LANGUAGES[lang].files) \cup Range(LANGUAGES[lang].symlinks)
        BY <1>2, <1>3, <2>3
      <3>2. <<lang, name>>[1] = lang /\ <<lang, name>>[2] = name
        OBVIOUS
      <3> HIDE DEF lang
      <3>3. <<lang, name>> \in Places
        BY <1>3, <3>1 DEF Places, lang
      <3> QED
        BY <3>1, <3>2, <3>3 DEF Generated, HasPlace
    <2> HIDE DEF ns, lang
    <2>4. \A j \in 1 .. Len(ns) : ns[j] \in Range(ns)
      BY <2>1 DEF Range
    <2>5. ps \in [1 .. Len(ns) -> Generated]
      BY <2>2, <2>3, <2>4
    <2>6. ps \in Seq(Generated)
      <3>1. PICK n \in Nat : n = Len(ns)
        BY <2>1
      <3>2. ps \in [1 .. n -> Generated]
        BY <2>5, <3>1
      <3> HIDE DEF ps
      <3> QED
        BY <3>2, ListOf
    <2>7. Range(ps) = {<<lang, name>> : name \in Range(ns)}
      <3>1. DOMAIN ps = 1 .. Len(ns) /\ \A j \in 1 .. Len(ns) : ps[j] = <<lang, ns[j]>>
        BY <2>2
      <3> HIDE DEF ps
      <3> QED
        BY <2>1, <3>1 DEF Range
    <2> QED
      BY <2>6, <2>7 DEF ns, lang
  <1> HIDE DEF names, placesOf
  <1>5. seqs \in Seq(Seq(Generated)) /\ DOMAIN seqs = DOMAIN LangNames
    <2>1. LangNames \in Seq(DOMAIN LANGUAGES)
      BY LanguagesAssumption
    <2>2. DOMAIN LangNames = 1 .. Len(LangNames) /\ Len(LangNames) \in Nat
      BY <2>1, LenProperties
    <2>3. seqs \in [1 .. Len(LangNames) -> Seq(Generated)]
      BY <1>4, <2>2
    <2> QED
      BY <2>2, <2>3, SeqDef
  <1>6. \A i \in DOMAIN LangNames : seqs[i] = placesOf(i)
    OBVIOUS
  <1> HIDE DEF seqs
  <1>7. /\ AllPlaces \in Seq(Generated)
        /\ Range(AllPlaces) = UNION {Range(seqs[i]) : i \in DOMAIN seqs}
    BY <1>1, <1>5, FlattenItems
  <1>8. ASSUME NEW place \in Generated PROVE place \in Range(AllPlaces)
    <2>1. PICK lang \in Range(LangNames) : \E name : place = <<lang, name>>
      BY DEF Generated, Places
    <2>2. PICK name : place = <<lang, name>>
      BY <2>1
    <2>3. name \in Range(LANGUAGES[lang].files) \cup Range(LANGUAGES[lang].symlinks)
      BY <2>2 DEF Generated, HasPlace
    <2>4. PICK i \in DOMAIN LangNames : lang = LangNames[i]
      BY <2>1 DEF Range
    <2>5. name \in Range(names(LangNames[i]))
      BY <1>2, <1>3, <2>3, <2>4
    <2>6. place \in Range(seqs[i])
      BY <1>4, <1>6, <2>2, <2>4, <2>5
    <2> QED
      BY <1>5, <1>7, <2>4, <2>6
  <1>9. Range(AllPlaces) \subseteq Generated
    BY <1>7, RangeOfSeq
  <1> QED
    BY <1>7, <1>8, <1>9

\* A file that a run still has to generate.
Due(user, place) == run[user].state = "running" /\ place \in Range(run[user].todo)

\* What is at a place of a champion once generated; a link has been made only
\* if the environment has been built.
Made(place) ==
    IF run["champion"].linked /\ Shared(place)
      THEN fs["champion"][place] = Link /\ build # "idle"
      ELSE fs["champion"][place] \in {File(run["champion"].version)}
              \cup IF Shared(place) THEN {} ELSE {Mine}

RunsTyped ==
    /\ build \in {"idle", "running", "ok", "failed", "interrupted"}
    /\ \A user \in Users :
          /\ run[user].state \in {"idle", "running", "checking", "done", "failed"}
          /\ run[user].state = "running" => run[user].todo \in Seq(Generated)

\* The environment is generated without links and without --check, in a build,
\* and what the build has generated is of its version of the game.
EnvFiles ==
    /\ run["env"].linked = FALSE /\ run["env"].check = FALSE
    /\ run["env"].state # "checking" /\ run["env"].step # "cleared"
    /\ build = "idle" => /\ run["env"].state = "idle"
                         /\ \A place \in Generated : fs["env"][place] = Absent
    /\ build \in {"ok", "failed"} => run["env"].state = "done"
    /\ run["env"].state \in {"running", "done"} =>
          \A place \in Generated :
             Due("env", place) \/ fs["env"][place] = File(run["env"].version)

\* A place is cleared for a link, and unlinked for a file.
StepFits ==
    run["champion"].state = "running" =>
       /\ run["champion"].step = "cleared" =>
             Linking(run["champion"]) /\ build # "idle"
       /\ run["champion"].step \in {"unlinked", "opened"} => ~Linking(run["champion"])

ChampionFiles ==
    /\ StepFits
    /\ run["champion"].state \in {"running", "checking", "done"} =>
          \A place \in Generated : Due("champion", place) \/ Made(place)

FilesInv == RunsTyped /\ EnvFiles /\ ChampionFiles

\* The environment while a build generates it.
LEMMA EnvStep ==
  ASSUME DiskInv, FilesInv, GeneratorStep("env"), build = "running", build' = build
  PROVE  FilesInv'
  <1> DEFINE r == run["env"]
             place == Head(r.todo)
  <1>0. "env" \in Users /\ "champion" \in Users /\ "champion" # "env"
    BY DEF Users
  <1>1. run'["champion"] = run["champion"]
    BY <1>0, RunUpdate DEF DiskInv
  <1>2. fs'["champion"] = fs["champion"]
    <2>1. CASE \E content : fs' = [fs EXCEPT !["env"][place] = content]
      <3>1. PICK content : fs' = [fs EXCEPT !["env"][place] = content]
        BY <2>1
      <3> HIDE DEF place
      <3> QED
        BY <1>0, <3>1, DiskUpdate DEF DiskInv
    <2>2. CASE fs' = fs
      BY <2>2
    <2> QED
      BY <2>1, <2>2
         DEF GeneratorStep, UnlinkLeftover, RemoveLeftover, OpenFile, DumpTemplate,
             SourceMissing, UnlinkOld, SymlinkTo, Generate, CheckLanguage, EndCheck,
             Write, Put
  <1>3. ChampionFiles'
    <2>1. \A q : Due("champion", q)' <=> Due("champion", q)
      BY <1>1 DEF Due
    <2>2. \A q : Made(q)' <=> Made(q)
      BY <1>1, <1>2 DEF Made
    <2>3. StepFits'
      BY <1>1 DEF FilesInv, ChampionFiles, StepFits, Linking
    <2> QED
      BY <1>1, <2>1, <2>2, <2>3 DEF FilesInv, ChampionFiles
  <1>4. r.linked = FALSE /\ r.check = FALSE /\ r.state # "checking" /\ r.step # "cleared"
    BY DEF FilesInv, EnvFiles
  <1>5. ~UnlinkOld("env") /\ ~SourceMissing("env")
        /\ ~CheckLanguage("env") /\ ~EndCheck("env") /\ ~SymlinkTo("env")
    BY <1>4 DEF UnlinkOld, SourceMissing, CheckLanguage, EndCheck, SymlinkTo, Running, Linking
  <1>6. ASSUME NEW q \in Generated, r.state \in {"running", "done"}
        PROVE  Due("env", q) \/ fs["env"][q] = File(r.version)
    BY <1>6 DEF FilesInv, EnvFiles
  <1>7. CASE UnlinkLeftover("env") \/ OpenFile("env")
    <2>1. PICK content : fs' = [fs EXCEPT !["env"][place] = content]
      BY <1>7 DEF UnlinkLeftover, RemoveLeftover, OpenFile, Put, Write
    <2>2. r.state = "running" /\ r.todo # <<>>
      BY <1>7 DEF UnlinkLeftover, OpenFile, Running
    <2>3. /\ run'["env"].state = r.state /\ run'["env"].todo = r.todo
          /\ run'["env"].version = r.version
          /\ run'["env"].linked = r.linked /\ run'["env"].check = r.check
          /\ run'["env"].step # "cleared"
      BY <1>0, <1>7 DEF UnlinkLeftover, OpenFile, Step, DiskInv, DiskTypeOK
    <2>4. r.todo \in Seq(Generated)
      BY <1>0, <2>2 DEF FilesInv, RunsTyped
    <2>5. place \in Range(r.todo)
      BY <2>2, <2>4, HeadOrTail
    <2>6. \A q \in Generated \ {place} : fs'["env"][q] = fs["env"][q]
      <3> HIDE DEF place
      <3> QED
        BY <1>0, <2>1, DiskUpdate DEF DiskInv
    <2>7. ASSUME NEW q \in Generated
          PROVE  Due("env", q)' \/ fs'["env"][q] = File(r.version)
      BY <1>6, <2>2, <2>3, <2>5, <2>6 DEF Due
    <2>8. EnvFiles'
      BY <1>4, <2>2, <2>3, <2>7 DEF EnvFiles
    <2>9. RunsTyped'
      BY <1>0, <1>1, <2>2, <2>3, <2>4 DEF RunsTyped, FilesInv, Users
    <2> QED
      BY <1>3, <2>8, <2>9 DEF FilesInv
  <1>8. CASE DumpTemplate("env")
    <2>1. fs' = [fs EXCEPT !["env"][place] = File(r.version)]
      BY <1>8 DEF DumpTemplate, Write
    <2>2. r.state = "running" /\ r.todo # <<>>
      BY <1>8 DEF DumpTemplate, Running
    <2>3. /\ run'["env"].state = r.state /\ run'["env"].todo = Tail(r.todo)
          /\ run'["env"].version = r.version
          /\ run'["env"].linked = r.linked /\ run'["env"].check = r.check
          /\ run'["env"].step # "cleared"
      BY <1>0, <1>8 DEF DumpTemplate, NextPlace, DiskInv, DiskTypeOK
    <2>4. r.todo \in Seq(Generated)
      BY <1>0, <2>2 DEF FilesInv, RunsTyped
    <2>5. /\ place \in Generated /\ Tail(r.todo) \in Seq(Generated)
          /\ \A q \in Range(r.todo) : q = place \/ q \in Range(Tail(r.todo))
      BY <2>2, <2>4, HeadOrTail
    <2>6. /\ fs'["env"][place] = File(r.version)
          /\ \A q \in Generated \ {place} : fs'["env"][q] = fs["env"][q]
      <3> DEFINE content == File(r.version)
      <3>1. fs' = [fs EXCEPT !["env"][place] = content]
        BY <2>1
      <3> HIDE DEF place, content
      <3>2. DiskTypeOK
        BY DEF DiskInv
      <3>3. place \in Generated /\ "env" \in Users
        BY <1>0, <2>5
      <3>4. fs'["env"][place] = content /\ \A q \in Generated \ {place} : fs'["env"][q] = fs["env"][q]
        <4> HIDE DEF place
        <4> QED
          BY ONLY <3>1, <3>2, <3>3, DiskPut
      <3> QED
        BY <3>4 DEF content
    <2>7. ASSUME NEW q \in Generated
          PROVE  Due("env", q)' \/ fs'["env"][q] = File(r.version)
      BY <1>6, <2>2, <2>3, <2>5, <2>6 DEF Due
    <2>8. EnvFiles'
      BY <1>4, <2>2, <2>3, <2>7 DEF EnvFiles
    <2>9. RunsTyped'
      BY <1>0, <1>1, <2>2, <2>3, <2>5 DEF RunsTyped, FilesInv, Users
    <2> QED
      BY <1>3, <2>8, <2>9 DEF FilesInv
  <1>9. CASE Generate("env")
    <2>1. r.state = "running" /\ r.todo = <<>> /\ fs' = fs
      BY <1>9 DEF Generate
    <2>2. /\ run'["env"].state = "done" /\ run'["env"].version = r.version
          /\ run'["env"].linked = r.linked /\ run'["env"].check = r.check
          /\ run'["env"].step # "cleared"
      BY <1>0, <1>4, <1>9 DEF Generate, DiskInv, DiskTypeOK
    <2>3. \A q \in Generated : ~Due("env", q)
      BY <2>1 DEF Due, Range
    <2>4. EnvFiles'
      BY <1>4, <1>6, <2>1, <2>2, <2>3 DEF EnvFiles
    <2>5. RunsTyped'
      BY <1>0, <1>1, <2>2 DEF RunsTyped, FilesInv, Users
    <2> QED
      BY <1>3, <2>4, <2>5 DEF FilesInv
  <1> QED
    BY <1>5, <1>7, <1>8, <1>9 DEF GeneratorStep

\* A champion while it generates its files.
LEMMA ChampionStep ==
  ASSUME DiskInv, FilesInv, GeneratorStep("champion"), build' = build
  PROVE  FilesInv'
  <1> DEFINE r == run["champion"]
             place == Head(r.todo)
  <1>0. "env" \in Users /\ "champion" \in Users /\ "champion" # "env" /\ DiskTypeOK
    BY DEF Users, DiskInv
  <1>1. run'["env"] = run["env"] /\ fs'["env"] = fs["env"]
    BY <1>0, RunUpdate, ChampionStaysHome
  <1>2. EnvFiles'
    BY <1>1 DEF FilesInv, EnvFiles, Due
  <1>3. ASSUME NEW q \in Generated, r.state \in {"running", "checking", "done"}
        PROVE  Due("champion", q) \/ Made(q)
    BY <1>3 DEF FilesInv, ChampionFiles
  <1>4. StepFits
    BY DEF FilesInv, ChampionFiles
  <1>5. r.state = "running" => r.todo \in Seq(Generated)
    BY <1>0 DEF FilesInv, RunsTyped
  <1>6. ASSUME run'["champion"].state \in {"running", "checking", "done", "failed"},
               run'["champion"].state = "running" => run'["champion"].todo \in Seq(Generated)
        PROVE  RunsTyped'
    BY <1>0, <1>1, <1>6 DEF FilesInv, RunsTyped, Users
  <1>7. CASE UnlinkLeftover("champion") \/ OpenFile("champion") \/ UnlinkOld("champion")
    <2>1. PICK content : fs' = [fs EXCEPT !["champion"][place] = content]
                           \/ fs' = [fs EXCEPT !["env"][place] = content]
      BY <1>7 DEF UnlinkLeftover, RemoveLeftover, OpenFile, UnlinkOld, Put, Write
    <2>2. r.state = "running" /\ r.todo # <<>>
      BY <1>7 DEF UnlinkLeftover, OpenFile, UnlinkOld, Running
    <2>3. /\ run'["champion"].state = r.state /\ run'["champion"].todo = r.todo
          /\ run'["champion"].version = r.version /\ run'["champion"].linked = r.linked
      BY <1>0, <1>7 DEF UnlinkLeftover, OpenFile, UnlinkOld, Step, DiskTypeOK
    <2>4. place \in Range(r.todo)
      BY <1>5, <2>2, HeadOrTail
    <2>5. \A q \in Generated \ {place} : fs'["champion"][q] = fs["champion"][q]
      <3>1. CASE fs' = [fs EXCEPT !["champion"][place] = content]
        <4> HIDE DEF place
        <4> QED
          BY <1>0, <3>1, DiskUpdate
      <3>2. CASE fs' = [fs EXCEPT !["env"][place] = content]
        <4> HIDE DEF place
        <4> QED
          BY <1>0, <3>2, DiskUpdate
      <3> QED
        BY <2>1, <3>1, <3>2
    <2>6. ASSUME NEW q \in Generated PROVE Due("champion", q)' \/ Made(q)'
      BY <1>3, <2>2, <2>3, <2>4, <2>5 DEF Due, Made
    <2>7. StepFits'
      <3>1. Linking(run'["champion"]) <=> Linking(r)
        BY <2>3 DEF Linking
      <3>2. CASE UnlinkOld("champion")
        <4>1. place \in Generated
          BY <1>5, <2>2, HeadOrTail
        <4>2. fs["env"][place] # Absent
          <5>1. Exists("env", place)
            BY <3>2 DEF UnlinkOld
          <5> QED
            BY <5>1 DEF Exists
        <4>3. build # "idle"
          BY <4>1, <4>2 DEF FilesInv, EnvFiles
        <4>4. Linking(r) /\ run'["champion"].step = "cleared"
          BY <1>0, <3>2 DEF UnlinkOld, Step, DiskTypeOK
        <4> QED
          BY <3>1, <4>3, <4>4 DEF StepFits
      <3>3. CASE UnlinkLeftover("champion")
        <4>1. ~Linking(r) /\ run'["champion"].step = "unlinked"
          BY <1>0, <3>3 DEF UnlinkLeftover, Step, DiskTypeOK
        <4> QED
          BY <3>1, <4>1 DEF StepFits
      <3>4. CASE OpenFile("champion")
        <4>1. r.step = "unlinked" /\ run'["champion"].step = "opened"
          BY <1>0, <3>4 DEF OpenFile, Running, Step, DiskTypeOK
        <4>2. ~Linking(r)
          BY <1>4, <2>2, <4>1 DEF StepFits
        <4> QED
          BY <3>1, <4>1, <4>2 DEF StepFits
      <3> QED
        BY <1>7, <3>2, <3>3, <3>4
    <2> QED
      BY <1>2, <1>5, <1>6, <2>2, <2>3, <2>6, <2>7 DEF FilesInv, ChampionFiles
  <1>8. CASE DumpTemplate("champion") \/ SymlinkTo("champion")
    <2>1. r.state = "running" /\ r.todo # <<>>
      BY <1>8 DEF DumpTemplate, SymlinkTo, Running
    <2>2. /\ run'["champion"].state = r.state /\ run'["champion"].todo = Tail(r.todo)
          /\ run'["champion"].version = r.version /\ run'["champion"].linked = r.linked
          /\ run'["champion"].step = "next"
      <3>1. NextPlace("champion")
        BY <1>8 DEF DumpTemplate, SymlinkTo
      <3> QED
        BY <1>0, <3>1 DEF NextPlace, DiskTypeOK
    <2>3. /\ place \in Generated /\ Tail(r.todo) \in Seq(Generated)
          /\ \A q \in Range(r.todo) : q = place \/ q \in Range(Tail(r.todo))
      BY <1>5, <2>1, HeadOrTail
    <2>4. PICK content :
            /\ fs' = [fs EXCEPT !["champion"][place] = content]
            /\ IF Linking(r) THEN content = Link /\ build # "idle"
                             ELSE content = File(r.version)
      <3>1. CASE DumpTemplate("champion")
        <4>1. r.step = "opened"
          BY <3>1 DEF DumpTemplate, Running
        <4>2. ~Linking(r)
          BY <1>4, <2>1, <4>1 DEF StepFits
        <4>3. fs["champion"][place].kind # "link"
          BY <2>3, <4>1 DEF DiskInv, WritesToItsOwn
        <4>4. fs' = [fs EXCEPT !["champion"][place] = File(r.version)]
          BY <3>1, <4>3 DEF DumpTemplate, Write
        <4> QED
          BY <4>2, <4>4
      <3>2. CASE SymlinkTo("champion")
        <4>1. fs' = [fs EXCEPT !["champion"][place] = Link] /\ r.step = "cleared"
          BY <3>2 DEF SymlinkTo, Put, Running
        <4> QED
          BY <1>4, <2>1, <4>1 DEF StepFits
      <3> QED
        BY <1>8, <3>1, <3>2
    <2>5. /\ fs'["champion"][place] = content
          /\ \A q \in Generated \ {place} : fs'["champion"][q] = fs["champion"][q]
      <3>1. fs' = [fs EXCEPT !["champion"][place] = content] /\ place \in Generated
        BY <2>3, <2>4
      <3> HIDE DEF place
      <3>2. fs'["champion"][place] = content /\ \A q \in Generated \ {place} : fs'["champion"][q] = fs["champion"][q]
        BY ONLY <1>0, <3>1, DiskPut
      <3> QED
        BY <3>2
    <2>6. Linking(r) <=> r.linked /\ Shared(place)
      BY DEF Linking
    <2>7. ASSUME NEW q \in Generated, q = place
          PROVE  Made(q)'
      BY <2>2, <2>4, <2>5, <2>6, <2>7 DEF Made
    <2>8. ASSUME NEW q \in Generated
          PROVE  Due("champion", q)' \/ Made(q)'
      <3>1. CASE Due("champion", q) /\ q # place
        BY <2>1, <2>2, <2>3, <3>1 DEF Due
      <3>2. CASE Made(q) /\ q # place
        BY <2>2, <2>5, <3>2 DEF Made
      <3> QED
        BY <1>3, <2>1, <2>7, <3>1, <3>2
    <2>9. StepFits'
      BY <2>2 DEF StepFits
    <2> QED
      BY <1>2, <1>6, <2>1, <2>2, <2>3, <2>7, <2>8, <2>9 DEF FilesInv, ChampionFiles
  <1>9. CASE SourceMissing("champion")
    <2>1. run'["champion"].state = "failed"
      BY <1>0, <1>9 DEF SourceMissing, Fail, DiskTypeOK
    <2> QED
      BY <1>2, <1>6, <2>1 DEF FilesInv, ChampionFiles, StepFits
  <1>10. CASE Generate("champion") \/ CheckLanguage("champion") \/ EndCheck("champion")
    <2>1. /\ fs' = fs
          /\ (r.state = "running" /\ r.todo = <<>>) \/ r.state = "checking"
      BY <1>10 DEF Generate, CheckLanguage, EndCheck
    <2>2. /\ run'["champion"].state \in {"checking", "done"}
          /\ run'["champion"].version = r.version /\ run'["champion"].linked = r.linked
      BY <1>0, <1>10 DEF Generate, CheckLanguage, EndCheck, DiskTypeOK
    <2>3. ASSUME NEW q \in Generated PROVE Made(q)'
      <3>1. ~Due("champion", q)
        BY <2>1 DEF Due, Range
      <3> QED
        BY <1>3, <2>1, <2>2, <3>1 DEF Made
    <2> QED
      BY <1>2, <1>6, <2>2, <2>3 DEF FilesInv, ChampionFiles, StepFits
  <1> QED
    BY <1>7, <1>8, <1>9, <1>10 DEF GeneratorStep

LEMMA FilesInvariant == Spec => []FilesInv
  <1>1. Init => FilesInv
    <2> SUFFICES ASSUME Init PROVE FilesInv
      OBVIOUS
    <2>1. /\ \A user \in Users : run[user] = Idle
          /\ \A user \in Users : \A place \in Generated : fs[user][place] = Absent
          /\ build = "idle"
      BY DEF Init, PlayersInit
    <2>2. "env" \in Users /\ "champion" \in Users
      BY DEF Users
    <2> QED
      BY <2>1, <2>2 DEF Idle, FilesInv, RunsTyped, EnvFiles, ChampionFiles, StepFits
  <1>2. DiskInv /\ FilesInv /\ [Next]_vars => FilesInv'
    <2> SUFFICES ASSUME DiskInv, FilesInv, [Next]_vars PROVE FilesInv'
      OBVIOUS
    <2>0. "env" \in Users /\ "champion" \in Users /\ "champion" # "env" /\ DiskTypeOK
      BY DEF Users, DiskInv
    <2>1. CASE UNCHANGED <<fs, run, build>>
      BY <2>1 DEF FilesInv, RunsTyped, EnvFiles, ChampionFiles, StepFits, Due, Made
    <2>2. CASE StartBuild
      <3>1. /\ Start("env", FALSE, FALSE) /\ build' = "running"
        BY <2>2 DEF StartBuild
      <3>2. /\ run'["env"] = [state |-> "running", linked |-> FALSE, check |-> FALSE,
                              version |-> version, todo |-> AllPlaces, step |-> "next"]
            /\ run'["champion"] = run["champion"] /\ fs' = fs
        BY <2>0, <3>1 DEF Start, PlacesOf, DiskTypeOK
      <3>3. \A q \in Generated : Due("env", q)'
        BY <3>2, AllAreGenerated DEF Due
      <3>4. EnvFiles'
        BY <3>1, <3>2, <3>3 DEF EnvFiles
      <3>5. RunsTyped'
        BY <2>0, <3>1, <3>2, AllAreGenerated DEF FilesInv, RunsTyped, Users
      <3>6. ChampionFiles'
        BY <3>1, <3>2 DEF FilesInv, ChampionFiles, StepFits, Due, Made
      <3> QED
        BY <3>4, <3>5, <3>6 DEF FilesInv
    <2>3. CASE BuildTask
      BY <2>1, <2>3, EnvStep DEF BuildTask, playerVars
    <2>4. CASE EndBuild
      <3>1. /\ UNCHANGED <<fs, run>> /\ build = "running" /\ build' \in {"ok", "failed"}
            /\ run["env"].state = "done"
        BY <2>4 DEF EndBuild, playerVars
      <3> QED
        BY <3>1 DEF FilesInv, RunsTyped, EnvFiles, ChampionFiles, StepFits, Due, Made
    <2>5. CASE InterruptBuild
      <3>1. /\ build = "running" /\ build' = "interrupted" /\ fs' = fs
            /\ run'["champion"] = run["champion"]
        BY <2>0, <2>5 DEF InterruptBuild, Interrupted, Fail, playerVars, DiskTypeOK
      <3>2. \/ run'["env"] = run["env"]
            \/ /\ run'["env"].state = "failed" /\ run'["env"].linked = run["env"].linked
               /\ run'["env"].check = run["env"].check /\ run'["env"].step = run["env"].step
        BY <2>0, <2>5 DEF InterruptBuild, Interrupted, Fail, playerVars, DiskTypeOK
      <3>3. RunsTyped'
        BY <2>0, <3>1, <3>2 DEF FilesInv, RunsTyped, Users
      <3>4. EnvFiles'
        BY <3>1, <3>2 DEF FilesInv, EnvFiles, Due
      <3>5. ChampionFiles'
        BY <3>1 DEF FilesInv, ChampionFiles, StepFits, Due, Made
      <3> QED
        BY <3>3, <3>4, <3>5 DEF FilesInv
    <2>6. CASE Edit
      BY <2>1, <2>6 DEF Edit, GameChanges, playerVars
    <2>7. CASE ChampionStarts /\ build' = build
      <3>1. PICK linked, check \in BOOLEAN : Start("champion", linked, check)
        BY <2>7 DEF ChampionStarts
      <3>2. /\ run'["champion"] = [state |-> "running", linked |-> linked, check |-> check,
                                   version |-> version, todo |-> AllPlaces, step |-> "next"]
            /\ run'["env"] = run["env"] /\ fs' = fs
        BY <2>0, <3>1 DEF Start, PlacesOf, DiskTypeOK
      <3>3. \A q \in Generated : Due("champion", q)'
        BY <3>2, AllAreGenerated DEF Due
      <3>4. ChampionFiles'
        BY <3>2, <3>3 DEF ChampionFiles, StepFits
      <3>5. RunsTyped'
        BY <2>0, <2>7, <3>2, AllAreGenerated DEF FilesInv, RunsTyped, Users
      <3>6. EnvFiles'
        BY <2>7, <3>2 DEF FilesInv, EnvFiles, Due
      <3> QED
        BY <3>4, <3>5, <3>6 DEF FilesInv
    <2>8. CASE ChampionEdits /\ build' = build
      <3>1. PICK place \in Generated :
              /\ ~Shared(place) /\ run["champion"].state = "done" /\ run' = run
              /\ fs' = [fs EXCEPT !["champion"][place] = Mine]
        BY <2>8 DEF ChampionEdits
      <3>2. fs'["champion"][place] = Mine
        <4>1. PICK content : content = Mine
          OBVIOUS
        <4>2. fs' = [fs EXCEPT !["champion"][place] = content]
          BY <3>1, <4>1
        <4>3. PICK dir \in Users : dir = "champion"
          BY <2>0
        <4>4. Puts(dir, place, content) /\ DiskTypeOK
          BY <2>0, <4>2, <4>3 DEF Puts
        <4>5. fs'[dir] = [q \in Generated |-> IF q = place THEN content ELSE fs[dir][q]]
          BY <4>4, DirectoryUpdate
        <4>6. fs'[dir][place] = content
          BY <2>0, <4>5
        <4> QED
          BY <4>1, <4>3, <4>6
      <3>3. \A q \in Generated \ {place} : fs'["champion"][q] = fs["champion"][q]
        BY ONLY <2>0, <3>1, DiskPut
      <3>4. fs'["env"] = fs["env"]
        BY <2>0, <3>1, DiskUpdate
      <3>5. \A q \in Generated : Made(q) => Made(q)'
        BY <2>8, <3>1, <3>2, <3>3 DEF Made
      <3>6. ChampionFiles'
        BY <2>8, <3>1, <3>5 DEF FilesInv, ChampionFiles, StepFits, Due
      <3> QED
        BY <2>8, <3>1, <3>4, <3>6 DEF FilesInv, RunsTyped, EnvFiles, Due
    <2>9. CASE Interrupted("champion") /\ build' = build
      <3>1. /\ fs' = fs /\ run'["env"] = run["env"] /\ run'["champion"].state = "failed"
        BY <2>0, <2>9 DEF Interrupted, Fail, DiskTypeOK
      <3>2. RunsTyped'
        BY <2>0, <2>9, <3>1 DEF FilesInv, RunsTyped, Users
      <3> QED
        BY <2>9, <3>1, <3>2 DEF FilesInv, EnvFiles, ChampionFiles, StepFits, Due
    <2>10. CASE Champion
      BY <2>7, <2>8, <2>9, <2>10, ChampionStep DEF Champion
    <2>11. CASE UNCHANGED vars
      BY <2>1, <2>11 DEF vars, playerVars
    <2> QED
      BY <2>2, <2>3, <2>4, <2>5, <2>6, <2>10, <2>11 DEF Next
  <1> QED
    BY <1>1, <1>2, DiskInvariant, PTL DEF Spec

\* After a build that ended the environment has every file, of the game that
\* was built; after a run that ended a champion has all of its own: whatever
\* the languages, the files left by earlier runs and builds, those that were
\* interrupted included, and those that run at the same time.
THEOREM FilesAreComplete == Spec => []FilesComplete
  <1>1. FilesInv => FilesComplete
    <2> SUFFICES ASSUME FilesInv PROVE EnvComplete /\ ChampionComplete
      BY DEF FilesComplete
    <2>1. EnvComplete
      BY DEF FilesInv, EnvFiles, EnvComplete, Due
    <2>2. ASSUME run["champion"].state = "done", NEW place \in Generated
          PROVE  Made(place)
      BY <2>2 DEF FilesInv, ChampionFiles, Due
    <2>3. ASSUME NEW place \in Generated, build # "idle", ~Exists("champion", place),
                 fs["champion"][place] = Link
          PROVE  build \in {"running", "interrupted"}
      <3>1. fs["env"][place] = Absent
        BY <2>3 DEF Exists, Link
      <3>2. build \notin {"ok", "failed"}
        BY <2>1, <3>1 DEF EnvComplete, File, Absent
      <3> QED
        BY <2>3, <3>2 DEF FilesInv, RunsTyped
    <2>4. ChampionComplete
      BY <2>2, <2>3 DEF ChampionComplete, Made
    <2> QED
      BY <2>1, <2>4
  <1> QED
    BY <1>1, FilesInvariant, PTL
=============================================================================
