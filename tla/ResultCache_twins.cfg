\* Two functions with the same text, covered by the same tests.
CONSTANTS
  m1 = m1
  m2 = m2
  r1 = r1
  r2 = r2
  k1 = k1
  k2 = k2
  b1 = b1
  Runs = {r1, r2}
  Janitors = {}
  Mutants = {m1, m2}
  Keys = {k1}
  Buckets = {b1}
  KeyOf <- OneKey
  BucketOf <- OneBucket
  Warm <- Sound
  Isolated <- MCIsolated
SPECIFICATION Spec
CHECK_DEADLOCK FALSE
INVARIANT UnchangedResultHolds
