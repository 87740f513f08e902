SPECIFICATION Spec
CONSTANTS
  Threads = {handler, check}
  Handler = handler
  NoThread = nobody
  EC_MAXBUF = 4
  NSegments = 2
  MaxRequests = 6
  MaxAge = 2
  MaxHold = 2
  MaxLeaks = 1
  MaxFrames = 2
INVARIANTS
  TypeOK
  AnswerIsOwn
  OnlyReceivedLeak
CHECK_DEADLOCK FALSE
