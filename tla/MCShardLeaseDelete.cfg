SPECIFICATION Spec
CONSTANTS
  Name = Name
  Sharder = Sharder
  NoHolder = NoHolder
  leaseTTL = 1
  defaultLeaseDuration = 2
  LeaseDuration = 2
  RenewDeadline = 1
  RetryPeriod = 1
  AttemptTimeout = 1
  MaxSkew = 0
  MaxStarts = 2
  MaxFaults = 0
  MaxLate = 0
  MaxTime = 6
  AttemptTimes = {0, 1, 2, 3}
  PromptSharder = FALSE
PROPERTIES OnlyOrphanedDeleted
VIEW View
