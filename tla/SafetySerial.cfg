CONSTANTS
  Actions = {a1, a2, a3}
  Contexts <- Boundary
  NumWorkers = 1
  Protected = {"kube-system"}
  MaxActions = 1
  MinCPUPercent = 10
  MaxCordonned = 25
  Hour = 2
  MaxRestarts = 1
SPECIFICATION Spec
SYMMETRY Symmetry
INVARIANTS
  AtMostMaxPerHourSinceStart
  EachRestartGrantsOneAllotment
  HistoryIsBounded
