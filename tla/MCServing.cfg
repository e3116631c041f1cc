CONSTANTS
  a = a
  b = b
  c = c
  f = f
  g = g
  p = p
  x = x
  y = y
  Node = {a, b, c}
  File = {f, g}
  Path = {p}
  Name = {x, y}
  NameOf <- MCNames
  NumChunks <- MCNumChunks
  Publishes <- MCPublishes
  Wants <- MCWants
  None = None
  Torn = Torn
  Error = Error
SPECIFICATION FairSpec
CHECK_DEADLOCK FALSE
INVARIANTS TypeOK PublishedIsWhole AnswersAreOfTheFile
PROPERTY Replicates
