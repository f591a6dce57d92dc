SPECIFICATION Spec
CONSTANTS
  q1 = q1
  q2 = q2
  Reqs = {q1, q2}
  KindsOf <- MCKinds
  NoReq = NoReq
  Ttl = 2
  Timeout = 1
  Skew = 1
  Lives = {2}
  MaxTime = 4
  MaxVersion = 1
CHECK_DEADLOCK FALSE
INVARIANTS OneFetch
PROPERTIES TokenAlive RequestEnds KeepsPromise
