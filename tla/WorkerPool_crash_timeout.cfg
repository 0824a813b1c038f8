\* One worker, one mutant; the worker may die while it tests it.
CONSTANTS
  m1 = m1
  m2 = m2
  m3 = m3
  w1 = w1
  w2 = w2
  w3 = w3
  w4 = w4
  Mutants = {m1}
  Workers = {w1}
  InitialWorkers = {w1}
  EstimatedSecs <- MCEstimatedSecs
  CrashFactor = 1
  UsizeModulus = 16
  ExitCodes <- MCExitCodes
  MemoryLimit = FALSE
  Wrapped = FALSE
  BootCrashes = FALSE
  AcceptFails = FALSE
  NoMutant = NoMutant
SPECIFICATION FairSpec
PROPERTY TimeoutMeansTimerFired
