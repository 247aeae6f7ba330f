\* Builds, champions and edits around one game directory.
SPECIFICATION MCSpec
CONSTANTS
    LangNames <- MCLangNames
    LANGUAGES <- MCLanguages
    MaxVersion = 2
    MaxRuns = 2
    MaxBuilds = 2
    Tests = {t1, t2}
    NoTest = NoTest
INVARIANTS FilesComplete ResultsKept FailureReported CheckallConclusive
PROPERTIES EnvIsolated BuildEnds
CHECK_DEADLOCK FALSE
