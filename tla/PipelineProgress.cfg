CONSTANTS
  g = g  p = p  c = c  x = x  y = y  m = m
  Block = {g, p, c, m}
  Genesis = g
  None = None
  Parent <- MCParent
  TotalDifficulty <- MCTotalDifficulty
  Valid = {g, p, c}
  Malformed = {m}
  Sources = {"submit"}
  QueueSize = 1
  AllowExpiry = FALSE
  MaxCrashes = 1
  QuietStart = TRUE
SPECIFICATION ArrivingSpec
PROPERTIES
  
  RestartLoads
