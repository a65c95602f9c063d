CONSTANTS
  g = g  p = p  c = c  x = x  y = y  m = m
  Block = {g, p, c}
  Genesis = g
  None = None
  Parent <- MCParent
  TotalDifficulty <- MCTotalDifficulty
  Valid = {g, p, c}
  Malformed = {}
  Sources = {"submit", "sync"}
  QueueSize = 1
  AllowExpiry = TRUE
  MaxCrashes = 0
  QuietStart = FALSE
SPECIFICATION Spec
INVARIANT MainChainIsStored
