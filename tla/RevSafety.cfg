SPECIFICATION Spec
CONSTANTS
  s1 = s1
  s2 = s2
  h1 = h1
  h2 = h2
  Sessions = {s1, s2}
  NoSid = NoSid
  Requests = {q1}
  Hooks = {h1, h2}
  UserWide = TRUE
  AccessLife = 2
  Retention = 2
  MaxTime = 3
  MaxDeliveries = 2
SYMMETRY HookSymmetry
CHECK_DEADLOCK FALSE
INVARIANTS PurgedMeansExpired
PROPERTIES RevokedStaysOut RefusedForACause
