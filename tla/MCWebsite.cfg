SPECIFICATION FairSpec
CONSTANTS
  Kinds = {"ConfigMap", "Deployment"}
  t1 = t1
  t2 = t2
  Themes = {t1, t2}
  NoTheme = NoTheme
  Edited = Edited
  None = None
  InitialTheme = t1
  SkipWorkload = FALSE
  MaxChanges = 2
  MaxFaults = 1
  MaxTotal = 2
INVARIANTS TypeOK KidsCurrent StatusCurrent ReadyIsServed
PROPERTIES Converges DrainAcknowledged
CHECK_DEADLOCK FALSE
