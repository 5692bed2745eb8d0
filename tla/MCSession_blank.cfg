SPECIFICATION Spec
CONSTANTS
  Client = {c1}
  Body <- PlainBodies
  MaxRetries = 2
  MaxRequests = 1
INVARIANT OnlyToldToEnd
CHECK_DEADLOCK FALSE
