SPECIFICATION FairSpec
CONSTANTS
  Od <- MCOd
  EntryBytes <- MCEntryBytes
  WriteData <- MCWriteData
  Environments <- MCEnvironments
  Chunk = 2
INVARIANTS
  TypeOK
  ReadIsRight
  ReadIndexIsRight
  WriteIsRight
  GentleMappingIsRight
PROPERTIES
  TransferEnds
CHECK_DEADLOCK FALSE
