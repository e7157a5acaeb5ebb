CONSTANTS
  Services = {s1, s2}
  Codes = {app, cpu}
  AppCodes = {app}
  MaxServices = 1
  MaxFires = 1
  CascadeWindow = 1
  CascadeKept = 2
  RolloutWindow = 2
  LearningPeriod = 2
  Hour = 3
  Maintenance = {2}
  MaxCalls = 4
  Incidents = {i1, i2, i3}
  NoOne = NoOne
SPECIFICATION PartsSpec
CHECK_DEADLOCK FALSE
INVARIANTS
  TrimmingIsInvisible
  UrgentStillFires
  DigestIsComplete
PROPERTIES
  SilenceHasACause
  SilenceEnds
