------------------------- MODULE MCOrphanBlockPool -------------------------
\* Five blocks above a root: two children of the root, a branch of three above
\* the first of them, and siblings that belong to different epochs.
EXTENDS OrphanBlockPool

CONSTANTS g, a, b, c, d, e

MCBlock == {g, a, b, c, d, e}
MCParent ==
  [h \in MCBlock \ {g} |-> CASE h \in {a, b} -> g [] h \in {c, d} -> a [] h = e -> c]
MCEpoch == [h \in MCBlock \ {g} |-> IF h \in {a, c} THEN 0 ELSE 1]
=============================================================================
