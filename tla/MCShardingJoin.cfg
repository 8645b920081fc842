SPECIFICATION Spec
CONSTANTS
  s1 = s1
  s2 = s2
  s3 = s3
  main = main
  child = child
  r1 = r1
  r2 = r2
  Shards = {s1, s2, s3}
  Mains = {main}
  Controlled = {child}
  Owner <- MCOwner
  None = None
  Position <- MCPosition
  Replicas = {r1}
  Leader = r1
  JoinsSettled = FALSE
  MaxEvents = 2
INVARIANTS ExclusiveReconcile
