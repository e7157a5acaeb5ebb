CONSTANTS
  Writers = {g1, g2}
  Readers = {r1, r2}
  Listers = {l1, l2}
  NumClients = 2
  NoWriter = NoWriter
  Workers = {w1, w2}
  Requests <- MCRequests
  Registered = {"claude", "openai"}
  DefaultProvider = "ollama"
  Threshold = 3
  Window = 2
  Bundles <- MCBundles
  Contexts <- MCContexts
  Providers = {"claude", "openai"}
  Codes = {"MEM-001", "MEM-003", "CPU-001", "NET-001", "APP", "CTL-002"}
  Frame = 800
  Heading = 30
SPECIFICATION PartsSpec
INVARIANTS
  PartsTypeOK
  HangsByNestingOnly
  BreakerTracksReports
  PromptsAreCutInOrder
  NothingIsInvented
PROPERTIES
  OpenCircuitShedsLoad
  AutoRecovers
CHECK_DEADLOCK FALSE
