SPECIFICATION FairSpec
CONSTANTS
  o1 = o1
  o2 = o2
  o3 = o3
  o4 = o4
  o5 = o5
  o6 = o6
  w1 = w1
  w2 = w2
  Workers = {w1, w2}
  None = None
  Resources = 2
  Pages <- MCPages
  Misplaced = {o1, o2, o3, o4}
  PageBufferSize = 1
  MaxFaults = 2
  MayCancel = TRUE
INVARIANTS TypeOK SuccessIsComplete
PROPERTIES Returns PagersEnd
CHECK_DEADLOCK FALSE
