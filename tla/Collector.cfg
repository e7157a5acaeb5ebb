CONSTANTS
  Latencies = {1, 4}
  Factor = 3
  NumBuckets = 3
  Interval = 2
  MaxSamples = 3
  Pods = {q1, q2, q3, q4, q5}
  Rates = {1, 5, 9}
  Sigma = 1
  Needed = 2
  Absent = Absent
  NoPod = NoPod
  Percents = {0, 3, 4, 6}
  ErrorWindow = 2
  ThresholdPP = 2
  AbsoluteMax = 5
  MaxRates = 4
  MaxFacts = 3
  MaxTime = 2
  Ids = {0, 1}
  Services = {a, b}
  Asked = {a}
  NoService = NoService
  Retention = 2
  Durations = {1}
  DefaultDuration = 1
  Limits = {0, 1}
  DefaultLimit = 2
  MaxStored = 2
SPECIFICATION PartsSpec
INVARIANTS
  PartsTypeOK
  BaselineIsTheWindow
  AlarmsAreSpikes
  ReportsStandOut
  RateIsJudgedByTheOthers
  ClassifiedAsRegistered
  AnswerIsOneMoment
PROPERTY
  BaselineExpires
