SPECIFICATION FairSpec
CONSTANTS
  Wheels = {w1, w2}
  ReadyLimit = 1
  ActiveByJoypad = TRUE
  MaxVel = 2
  Acc = 1
  Dec = 2
  Commands <- MCCommands
  Turn = 3
  Starts = {0, 2}
  MaxTurned = 1
  MaxMessages = 2
  MaxFaults = 1
INVARIANTS
  TypeOK
  EncodersTrack
PROPERTIES
  ActivatedHealthy
  StandstillReached
  ResetIsSent
CHECK_DEADLOCK FALSE
