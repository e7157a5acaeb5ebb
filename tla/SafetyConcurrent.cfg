CONSTANTS
  Actions = {a1, a2, a3}
  Contexts <- OnePod
  NumWorkers = 2
  Protected = {"kube-system"}
  MaxActions = 2
  MinCPUPercent = 10
  MaxCordonned = 25
  Hour = 2
  MaxRestarts = 0
SPECIFICATION Spec
SYMMETRY Symmetry
INVARIANT
  AtMostMaxPerHour
