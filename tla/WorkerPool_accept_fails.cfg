\* Two workers; listener.accept() may fail.
\* CHECK_DEADLOCK FALSE: a wrapped pending_accepts keeps the loop waiting.
CONSTANTS
  m1 = m1
  m2 = m2
  m3 = m3
  w1 = w1
  w2 = w2
  w3 = w3
  w4 = w4
  Mutants = {m1, m2}
  Workers = {w1, w2}
  InitialWorkers = {w1, w2}
  EstimatedSecs <- MCEstimatedSecs
  CrashFactor = 1
  UsizeModulus = 16
  ExitCodes <- MCExitCodes
  MemoryLimit = FALSE
  Wrapped = FALSE
  BootCrashes = FALSE
  AcceptFails = TRUE
  NoMutant = NoMutant
SPECIFICATION FairSpec
INVARIANT NoPrematureGiveUp
CHECK_DEADLOCK FALSE
