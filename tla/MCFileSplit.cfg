CONSTANTS
  Lengths <- MCLengths
  ChunkSize = 3
  MaxMishaps = 2
  None = None
SPECIFICATION FairSpec
CHECK_DEADLOCK FALSE
INVARIANTS TypeOK ChunksPartitionSource RestoredIsSource
PROPERTY RestoredOrEmpty
