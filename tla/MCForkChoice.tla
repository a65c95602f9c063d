---------------------------- MODULE MCForkChoice ----------------------------
\* Four branches of the genesis; y1 is valid and y2 is not, z2 and x4 are as heavy.
EXTENDS ForkChoice

CONSTANTS g, x1, x2, x3, x4, y1, y2, y3, z1, z2, w1, w2

MCParent ==
  [b \in Block \ {g} |->
     CASE b \in {x1, y1, z1, w1} -> g [] b = x2 -> x1 [] b = x3 -> x2 [] b = x4 -> x3
       [] b = y2 -> y1 [] b = y3 -> y2 [] b = z2 -> z1 [] b = w2 -> w1]

MCTotalDifficulty ==
  [b \in Block |->
     CASE b = g -> 0 [] b \in {x1, y1, w1} -> 1 [] b \in {x2, y2, z1} -> 2 [] b \in {x3, w2} -> 3
       [] b \in {x4, z2} -> 4 [] b = y3 -> 5]
=============================================================================
