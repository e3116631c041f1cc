CONSTANTS
  m1 = m1
  c1 = c1
  c2 = c2
  p1 = p1
  p2 = p2
  Request = {m1, c1, c2}
  KindOf <- MCKindOf
  Peer = {p1, p2}
  MaxFailures = 1
  None = None
SPECIFICATION FairSpec
CHECK_DEADLOCK FALSE
INVARIANTS TypeOK KeptOnce AnswersOwnRequest
PROPERTIES KeepsPromise AnsweredUnlessLost
