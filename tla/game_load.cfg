\* Game files in conflict with themselves, and a few that are not.
SPECIFICATION Spec
CONSTANTS
    Files <- MCFiles
    Reserved <- MCReserved
    ReservedCapitalised <- MCReservedCapitalised
INVARIANTS LoaderDecides TypesResolve BindingsAgree LanguageRulesKept
