SPECIFICATION FairSpec
CONSTANTS
  Client = {c1, c2}
  Body <- PlainBodies
  MaxRetries = 2
  MaxRequests = 2
INVARIANT TypeOK
INVARIANT ReplyAnswersRequest
PROPERTY SendReturns
PROPERTY QuitThenConnectEnds
CHECK_DEADLOCK FALSE
