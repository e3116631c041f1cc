CONSTANTS
  f1 = f1
  f2 = f2
  t1 = t1
  t2 = t2
  k1 = k1
  k2 = k2
  p1 = p1
  p2 = p2
  File = {f1, f2}
  Path = {p1}
  Name <- MCName
  Prefix <- MCPrefix
  NameOf <- MCNameOf
  PrefixOf <- MCPrefixOf
  NumChunks <- MCOneChunk
  Task = {t1, t2}
  Call = {k1, k2}
  Asks <- MCOneCallPerFile
  MaxActiveDownloads = 1
  Mishaps <- MCLiveMishaps
  MaxMishaps = 2
  None = None
  Torn = Torn
SPECIFICATION FairSpec
CHECK_DEADLOCK FALSE
PROPERTY DownloadsComplete
