SPECIFICATION Spec
CONSTANTS
  N = 3
  Kinds <- MCKinds
  MaxSegment = 5
  EC_MAXIOSEGMENTS = 8
INVARIANTS
  TypeOK
  MappingsShareImage
  SegmentsMakeUpImage
  DatagramsCoverImage
  ExpectedMeansComplete
CHECK_DEADLOCK FALSE
