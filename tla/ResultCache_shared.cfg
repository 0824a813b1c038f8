\* Two runs and a gc or clean in one directory, any of them killed at any time.
CONSTANTS
  m1 = m1
  m2 = m2
  r1 = r1
  r2 = r2
  k1 = k1
  k2 = k2
  b1 = b1
  Runs = {r1, r2}
  Janitors = {j1}
  Mutants = {m1, m2}
  Keys = {k1, k2}
  Buckets = {b1}
  KeyOf <- OwnKeys
  BucketOf <- OneBucket
  Warm <- Leaky
  Isolated <- MCIsolated
SYMMETRY Interchangeable
SPECIFICATION Spec
CHECK_DEADLOCK FALSE
INVARIANTS
  TypeOK
  EntriesAreWhole
  OnlyJanitorsFailRuns
  NoLeftovers
PROPERTIES
  SoloRunCachesWhatItReports
  ImplementsVerdictCache
