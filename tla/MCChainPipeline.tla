-------------------------- MODULE MCChainPipeline --------------------------
\* p and x are blocks on the genesis, c is a child of p, y a child of x; m is
\* malformed.
EXTENDS ChainPipeline

CONSTANTS g, p, c, x, y, m

MCParent == [b \in Block \ {g} |-> CASE b = c -> p [] b = y -> x [] OTHER -> g]
MCTotalDifficulty ==
  [b \in Block |-> CASE b = g -> 0 [] b \in {p, x, m} -> 1 [] b = c -> 2 [] b = y -> 3]
=============================================================================
