\* Two pre-spawned workers, one replacement, two mutants; the interpreter is
\* the worker itself.
CONSTANTS
  m1 = m1
  m2 = m2
  m3 = m3
  w1 = w1
  w2 = w2
  w3 = w3
  w4 = w4
  Mutants = {m1, m2}
  Workers = {w1, w2, w3}
  InitialWorkers = {w1, w2}
  EstimatedSecs <- MCEstimatedSecs
  CrashFactor = 1
  UsizeModulus = 16
  ExitCodes <- MCExitCodes
  MemoryLimit = TRUE
  Wrapped = FALSE
  BootCrashes = FALSE
  AcceptFails = FALSE
  NoMutant = NoMutant
SPECIFICATION FairSpec
INVARIANTS
  TypeOK
  Ledger
  ExactlyOneResult
  IdleIsFree
  PendingIsExact
  NoPrematureGiveUp
  PoolBounded
  NoOrphans
PROPERTIES
  ImplementsLedger
  RunReturns
