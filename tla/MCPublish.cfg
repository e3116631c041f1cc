CONSTANTS
  f1 = f1
  f2 = f2
  f3 = f3
  k1 = k1
  k2 = k2
  k3 = k3
  p1 = p1
  p2 = p2
  p3 = p3
  File = {f1, f2, f3}
  Path = {p1, p2, p3}
  PathOf <- MCPathOf
  NumChunks <- MCNumChunks
  Call = {k1, k2, k3}
  FileOf <- MCFileOf
  Downloads = {f3}
  MaxKeys = 4
  MaxCrashes = 2
  None = None
  Torn = Torn
SPECIFICATION FairSpec
CHECK_DEADLOCK FALSE
INVARIANTS TypeOK PublishedIsOffered PublishedIsIntact NodeComesUp
PROPERTIES JobsLeavePublished JobIsPublishedOrStoreFull
