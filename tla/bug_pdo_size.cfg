SPECIFICATION Spec
CONSTANTS
  Od <- MCOd
  EntryBytes <- MCEntryBytes
  WriteData <- MCWriteData
  Environments <- MCEnvironments
  Chunk = 2
INVARIANT
  MappingIsRight
CHECK_DEADLOCK FALSE
