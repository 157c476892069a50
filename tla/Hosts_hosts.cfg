CONSTANTS
  r1 = r1 r2 = r2
  c1 = c1 c2 = c2
  Request = {r1, r2}
  Client = {c1, c2}
  Maximum = 2
  Ttl = 1
  MaxId = 3
  MaxClock = 2
SPECIFICATION HostsSpec
INVARIANTS HostsTypeOK ReleasedSessionRunsNothing HeldSessionsStayResident
PROPERTIES ClosedWorkEnds HandlersAnswer ServerRequestsAreAnswered
CHECK_DEADLOCK FALSE
