CONSTANTS
  s1 = s1
  s2 = s2
  v1 = v1
  v2 = v2
  a = a
  b = b
  c = c
  q = q
  Search = {s1, s2}
  Value = {v1, v2}
  ValueOf <- MCTwoValues
  ResultsOf <- MCResultsOf
  Published = {b, c}
  Public = {b}
  PeerSearch = {q}
  MatchesOf <- MCMatchesOf
  MaxCommands = 2
  MaxFound = 1
  MaxStream = 1
  MaxMessages = 4
  MaxEvictions = 1
  MaxTicks = 1
  None = None
SPECIFICATION FairSpec
CHECK_DEADLOCK FALSE
INVARIANTS TypeOK SessionHasTask RepeatsOnlyForgotten StreamStaysOpen
PROPERTIES GoneIsForgotten CircleIsForGood OnlyCircleBlocks PeersAreAnswered
