CONSTANTS
  k1 = k1
  s1 = s1
  s2 = s2
  Download = {k1}
  Search = {s1, s2}
  WithGrpc = {TRUE, FALSE}
  MaxCommands = 1
  MaxResults = 1
SPECIFICATION FairSpec
CHECK_DEADLOCK FALSE
INVARIANTS TypeOK ExitIsClean
PROPERTIES StopReturns FailureStopsNode CallsEndWithLoop
