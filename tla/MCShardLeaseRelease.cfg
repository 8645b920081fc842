SPECIFICATION Spec
CONSTANTS
  Name = Name
  Sharder = Sharder
  NoHolder = NoHolder
  leaseTTL = 1
  defaultLeaseDuration = 2
  LeaseDuration = 3
  RenewDeadline = 1
  RetryPeriod = 1
  AttemptTimeout = 1
  MaxSkew = 0
  MaxStarts = 1
  MaxFaults = 0
  MaxLate = 0
  MaxTime = 4
  AttemptTimes = {0, 1, 2}
  PromptSharder = FALSE
INVARIANTS DeadImpliesStopped
VIEW View
