SPECIFICATION Spec
CONSTANTS
  Client = {c1}
  Body <- MarkedBodies
  MaxRetries = 2
  MaxRequests = 3
INVARIANT ReplyAnswersRequest
CHECK_DEADLOCK FALSE
