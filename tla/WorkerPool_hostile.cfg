\* The interpreter is a launcher, workers die before they connect, are recycled
\* for their memory and answer with exit codes of any kind, and
\* listener.accept() fails.  Explored while work is left (WorkIsLeft).
\* CHECK_DEADLOCK FALSE: with workers that die before they connect the loop may
\* wait for ever (see SelectTimers).
CONSTANTS
  m1 = m1
  m2 = m2
  m3 = m3
  w1 = w1
  w2 = w2
  w3 = w3
  w4 = w4
  Mutants = {m1, m2, m3}
  Workers = {w1, w2, w3}
  InitialWorkers = {w1}
  EstimatedSecs <- MCEstimatedSecs
  CrashFactor = 2
  UsizeModulus = 16
  ExitCodes <- MCStrayExitCodes
  MemoryLimit = TRUE
  Wrapped = TRUE
  BootCrashes = TRUE
  AcceptFails = TRUE
  NoMutant = NoMutant
SPECIFICATION Spec
INVARIANTS
  RespawnsPaidFor
CONSTRAINT WorkIsLeft
SYMMETRY Spares
CHECK_DEADLOCK FALSE
