CONSTANTS
    f = f
    g = g
    d = d
    t1 = t1
    t2 = t2
    Plain = {}
    Decorated = {d}
    Tests = {t1, t2}
    TestVersions = {1, 2}
    Hashed = {d}
    TestsHashed = TRUE
    Reach <- MCPatchReach
    Settings <- MCPatchSettings
    Versions = {1}
    Verdict = {"killed", "survived"}
    Edited = {}
    MaxEdits = 1
    MaxRuns = 2
    None = None
SPECIFICATION Spec
INVARIANTS
    PatchVerdictsFollowTests
