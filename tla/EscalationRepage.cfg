CONSTANTS
  Ids = {i1}
  Refs = {r1}
  NoIncident = NoIncident
  Channels = {slack}
  Timeout <- MCTimeout
  UniqueIds = TRUE
  MaxEvents = 6
SPECIFICATION Spec
PROPERTY
  OverdueIsPagedAgain
