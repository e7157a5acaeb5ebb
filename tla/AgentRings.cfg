CONSTANTS
  Pids = {p1, p2}
  Containers = {c1, c2}
  Callers = {x, y}
  NoContainer = NoContainer
  Gone = Gone
  NoInfo = NoInfo
  NoPid = NoPid
  Objects = {http, exec}
  Programs = {k}
  RingSize = 2
  MaxEvents = 3
  NoObject = NoObject
  Sockets = {s1, s2}
  Capacity = 1
  SampleRate = 2
  MaxRequests = 2
  NoStamp = NoStamp
  Cpus = {u1, u2, u3}
  Cgroups = {g1, g2, g3}
  Total = Total
  Throttled = Throttled
  Room = {r1, r2}
  None = None
  MaxFired = 5
SPECIFICATION PartsSpec
INVARIANT EveryRingIsConsumed
CHECK_DEADLOCK FALSE
