\* Half-second units: 30 s and 500 ms, as in the code.  One spawned worker
\* that died before it connected; handlers take no time.
CONSTANTS
  AcceptTimeout = 60
  HealthPeriod = 1
  Silent = 1
  MaxBusy = 0
SPECIFICATION FairSpec
PROPERTY SilentWorkersGivenUp
