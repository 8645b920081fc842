SPECIFICATION FairSpec
CONSTANTS
  Name = Name
  Sharder = Sharder
  NoHolder = NoHolder
  leaseTTL = 1
  defaultLeaseDuration = 2
  LeaseDuration = 3
  RenewDeadline = 1
  RetryPeriod = 1
  AttemptTimeout = 1
  MaxSkew = 1
  MaxStarts = 1
  MaxFaults = 1
  MaxLate = 1
  MaxTime = 17
  AttemptTimes = {0, 2}
  PromptSharder = TRUE
INVARIANTS LabelCurrent CollectedInTime
PROPERTIES GoneIsCollected
