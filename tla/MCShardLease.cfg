SPECIFICATION Spec
CONSTANTS
  Name = Name
  Sharder = Sharder
  NoHolder = NoHolder
  leaseTTL = 1
  defaultLeaseDuration = 2
  LeaseDuration = 3
  RenewDeadline = 1
  RetryPeriod = 1
  AttemptTimeout = 1
  MaxSkew = 1
  MaxStarts = 2
  MaxFaults = 0
  MaxLate = 1
  MaxTime = 7
  AttemptTimes = {0, 1, 5}
  PromptSharder = FALSE
INVARIANTS TypeOK DeadImpliesStopping NeverForgotten
PROPERTIES TakeoverOnlyUncertain
VIEW View
