SPECIFICATION Spec
CONSTANTS
  n1 = n1
  Requests = {u1, u2}
  Names = {n1}
  NoName = NoName
  Flow <- MCFlow
  MaxInstances = 1
  MaxPolls = 1
  Batch <- MCBatch
  Structs = {"error"}
INVARIANTS SettledMeansAdvanced OkMeansCompleted
PROPERTIES WorkerResultKept EveryRequestAnswered
