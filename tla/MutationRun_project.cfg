CONSTANTS
    f = f
    g = g
    d = d
    t1 = t1
    t2 = t2
    Plain = {f, g}
    Decorated = {d}
    Tests = {t1, t2}
    TestVersions = {1, 2}
    Hashed = {f, g}
    TestsHashed = TRUE
    Reach <- MCReach
    Settings <- MCSettings
    Versions = {1, 2}
    Verdict = {"killed", "survived"}
    Edited = {f, d}
    MaxEdits = 2
    MaxRuns = 3
    None = None
SPECIFICATION Spec
INVARIANTS
    TypeOK
    EntriesMeasureTheirKeys
    VerdictsAreCurrent
    PatchesAreMeasured
    EveryMutantOnce
    FingerprintMatchesStats
    UntestedIsUnreached
    OnePatchAtATime
    CacheAgreesWithReport
PROPERTIES
    CorrectionsOnlyKill
