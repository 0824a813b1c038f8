CONSTANTS
    Programs <- MCPrograms
    Files <- MCFiles
    Texts <- MCTexts
    Calls <- MCCalls
    Words <- MCWords
    Dispatches <- MCDispatches
    Imports <- MCImports
    Checks <- MCChecks
    Diffs <- MCDiffs
    Samples <- MCSamples
    Patterns <- MCPatterns
    Reports <- MCReports
    BodyMutations = 2
SPECIFICATION Spec
INVARIANTS
    MutantsAreDistinct
    RelationalMutantsSuffice
    FileIsRewrittenInPlace
    NamesAreUnique
    ScannerFollowsTheLexer
    GlobsMeanWhatTheySay
    WrapperIsTransparent
    DispatchIsExact
    ImportsAreMirrored
    TypeErrorsBlameTheirMutant
    TouchedIffChanged
    SampleRepresentsOperators
    ReportsAgree
CHECK_DEADLOCK FALSE
