CONSTANTS
  g = g  p = p  c = c  x = x  y = y  m = m
  Block = {g, p, c}
  Genesis = g
  None = None
  Parent <- MCParent
  TotalDifficulty <- MCTotalDifficulty
  Valid = {g, p, c}
  Malformed = {}
  Sources = {"submit"}
  QueueSize = 1
  AllowExpiry = FALSE
  MaxCrashes = 0
  QuietStart = FALSE
SPECIFICATION FairSpec
PROPERTY OrphansConnect
