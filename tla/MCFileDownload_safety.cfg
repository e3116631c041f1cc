CONSTANTS
  f1 = f1
  f2 = f2
  t1 = t1
  t2 = t2
  k1 = k1
  k2 = k2
  p1 = p1
  p2 = p2
  File = {f1}
  Path = {p1, p2}
  Name <- MCName
  Prefix <- MCPrefix
  NameOf <- MCNameOf
  PrefixOf <- MCPrefixOf
  NumChunks <- MCTwoChunks
  Task = {t1, t2}
  Call = {k1, k2}
  Asks <- MCAnyCall
  MaxActiveDownloads = 2
  Mishaps <- MCMishaps
  MaxMishaps = 2
  None = None
  Torn = Torn
SPECIFICATION Spec
SYMMETRY MCSymmetry
CHECK_DEADLOCK FALSE
INVARIANTS TypeOK OneTaskPerFile ClaimedChunksOnDisk PublishedIsRestored
PROPERTY PendingBecomesPublished
