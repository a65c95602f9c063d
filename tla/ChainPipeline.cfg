CONSTANTS
  g = g  p = p  c = c  x = x  y = y  m = m
  Block = {g, p, c}
  Genesis = g
  None = None
  Parent <- MCParent
  TotalDifficulty <- MCTotalDifficulty
  Valid = {g, p, c}
  Malformed = {}
  Sources = {"submit", "sync", "relay"}
  QueueSize = 1
  AllowExpiry = FALSE
  MaxCrashes = 1
  QuietStart = FALSE
SPECIFICATION Spec
INVARIANTS
  TypeOK
  PendingIsQueued
  ReceivedIsInPipeline
  ValidNeverInvalid
  ExtIsStored
  
  
  
PROPERTY
  ImplementsForkChoice
