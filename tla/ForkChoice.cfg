CONSTANTS
  g = g  x1 = x1  x2 = x2  x3 = x3  x4 = x4  y1 = y1  y2 = y2  y3 = y3  z1 = z1  z2 = z2  w1 = w1  w2 = w2
  Block = {g, x1, x2, x3, x4, y1, y2, y3, z1, z2, w1, w2}
  Genesis = g
  Parent <- MCParent
  TotalDifficulty <- MCTotalDifficulty
  Valid = {g, x1, x2, x3, x4, y1, z1, z2, w1, w2}
SPECIFICATION Spec
INVARIANTS
  HeaviestTip
  MainChainValid
 
