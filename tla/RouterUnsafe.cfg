CONSTANTS
  Writers = {g1}
  Readers = {}
  Listers = {l1}
  NumClients = 2
  NoWriter = NoWriter
  Workers = {w1}
  Requests <- MCRequests
  Registered = {"claude"}
  DefaultProvider = "ollama"
  Threshold = 1
  Window = 1
  Bundles <- MCBundles
  Contexts <- MCContexts
  Providers = {"claude", "openai"}
  Codes = {"MEM-001", "MEM-003", "CPU-001", "NET-001", "APP", "CTL-002"}
  Frame = 800
  Heading = 30
SPECIFICATION PartsSpec
INVARIANT
  UnsafeIsHeard
