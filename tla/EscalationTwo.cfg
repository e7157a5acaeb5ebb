CONSTANTS
  Ids = {i1, i2}
  Refs = {r1, r2}
  NoIncident = NoIncident
  Channels = {slack}
  Timeout <- MCTimeout
  UniqueIds = TRUE
  MaxEvents = 4
SPECIFICATION FairSpec
PROPERTIES
  RefinesLifecycle
  AutomationGivesWay
