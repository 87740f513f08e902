SPECIFICATION FairSpec
CONSTANTS
  N = 2
  Id <- MCId
  SafeOpCounts = FALSE
  Retries = 1
  WkcErrorLimit = 2
  MaxFaults = 2
INVARIANTS
  TypeOK
  AddressesAreOwn
PROPERTIES
  FailureEndsThreads
  SlavesResume
CHECK_DEADLOCK FALSE
