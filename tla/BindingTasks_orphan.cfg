CONSTANTS
  r1 = r1 r2 = r2 r3 = r3
  Request = {r1, r2}
SPECIFICATION Spec
INVARIANTS ActiveRequestIsServed
CHECK_DEADLOCK FALSE
