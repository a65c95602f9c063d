CONSTANTS
  g = g  p = p  c = c  x = x  y = y  m = m
  Block = {g, p, x, y}
  Genesis = g
  None = None
  Parent <- MCParent
  TotalDifficulty <- MCTotalDifficulty
  Valid = {g, p}
  Malformed = {}
  Sources = {"submit", "relay"}
  QueueSize = 1
  AllowExpiry = TRUE
  MaxCrashes = 0
  QuietStart = FALSE
SPECIFICATION Spec
INVARIANTS
  
  
  RejectedIsDeleted
  
