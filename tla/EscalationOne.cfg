CONSTANTS
  Ids = {i1}
  Refs = {r1}
  NoIncident = NoIncident
  Channels = {slack, pagerduty}
  Timeout <- MCTimeout
  UniqueIds = TRUE
  MaxEvents = 11
SPECIFICATION Spec
INVARIANTS
  TypeOK
  TimelineExplainsState
  NoPageWithoutContext
  AutomationEndsAtFirstPage
  PagedCloseWasAcknowledged
  ResolvedAtTellsClosed
PROPERTIES
  EveryChannelIsTried
