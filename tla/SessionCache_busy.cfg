CONSTANTS
  c1 = c1 c2 = c2
  Client = {c1, c2}
  Maximum = 2
  Ttl = 1
  MaxId = 3
  MaxClock = 2
SPECIFICATION CacheSpec
INVARIANTS ActiveSessionsStayResident
