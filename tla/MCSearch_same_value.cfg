CONSTANTS
  s1 = s1
  s2 = s2
  v1 = v1
  v2 = v2
  a = a
  b = b
  c = c
  q = q
  Search = {s1, s2}
  Value = {v1, v2}
  ValueOf <- MCSameValue
  ResultsOf <- MCResultsOf
  Published = {b}
  Public = {b}
  PeerSearch = {q}
  MatchesOf <- MCMatchesOf
  MaxCommands = 7
  MaxFound = 1
  MaxStream = 1
  MaxMessages = 4
  MaxEvictions = 0
  MaxTicks = 1
  None = None
SPECIFICATION Spec
CHECK_DEADLOCK FALSE
INVARIANT StreamStaysOpen
