SPECIFICATION FairSpec
CONSTANTS
  Scenarios = {"basic", "chaos", "rolling-update", "scale-out"}
  N <- MCN
  Workers = 2
  Retries = 1
  MaxFaults = 1
  MaxGenerations = 2
  None = None
INVARIANTS TypeOK LatencyAccurate Measured LoadIsPrepared
PROPERTIES CleanedUp Terminates
CHECK_DEADLOCK FALSE
