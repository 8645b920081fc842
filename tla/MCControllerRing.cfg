SPECIFICATION FairSpec
CONSTANTS
  s1 = s1
  s2 = s2
  ns1 = ns1
  ns2 = ns2
  Shards = {s1, s2}
  Specs <- MCSpecs
  InitialSpec <- DefaultSpec
  Namespaces = {ns1, ns2}
  ConfigSelector = {ns1}
  Objects <- MCObjects
  NoSelector = NoSelector
  Invalid = Invalid
  ClusterScope = ClusterScope
  NoName = NoName
  NoOwner = NoOwner
  NoKey = NoKey
  None = None
  MaxChanges = 3
  MaxFaults = 1
INVARIANTS TypeOK ResyncCurrent StatusCurrent MissedAreResynced NotDenied OwnersAgree
PROPERTIES Settles
CHECK_DEADLOCK FALSE
