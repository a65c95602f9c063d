---------------------------- MODULE MCMainChain ----------------------------
\* A main branch a1..a4 with a new epoch at height 3, and branches that are
\* heavier although they are not longer:
\*
\*   g - a1 - a2 - a3 - a4        c3 commits a transaction a3 commits too
\*    |         |     `- d4       d4 spends a cell again
\*    |          `- c3 - c4       c4 embeds the uncle of a2 again
\*     `- b1 - b2 - b3            b2 commits without a proposal, b3 is built on it
\*          `- e2                 e2 is valid and heavier than all of them
EXTENDS MainChain

CONSTANTS g, a1, a2, a3, a4, b1, b2, b3, c3, c4, d4, e2,
          t0, t1, t2, t3, none, BlockSet

MCParent ==
  [x \in BlockSet \ {g} |->
     CASE x \in {a1, b1} -> g  [] x = a2 -> a1        [] x \in {a3, c3} -> a2
       [] x \in {a4, d4} -> a3 [] x \in {b2, e2} -> b1 [] x = b3 -> b2 [] x = c4 -> c3]

MCTotalDifficulty ==
  [x \in BlockSet |->
     CASE x = g -> 0 [] x \in {a1, b1} -> 1 [] x = a2 -> 2 [] x \in {a3, b2} -> 3
       [] x = a4 -> 4 [] x \in {c3, d4} -> 5 [] x = c4 -> 6 [] x = e2 -> 7 [] x = b3 -> 8]

MCTx == {t0, t1, t2, t3}
MCInputs == [t \in MCTx |-> CASE t = t0 -> {} [] t \in {t1, t3} -> {t0} [] t = t2 -> {t1}]
MCCellDeps == [t \in MCTx |-> IF t = t1 THEN {t0} ELSE {}]
MCHeaderDeps == [t \in MCTx |-> IF t = t1 THEN {a1} ELSE {}]
MCTxs ==
  [x \in BlockSet |->
     CASE x = g -> <<t0>> [] x = a3 -> <<t1, t2>> [] x = c3 -> <<t1>>
       [] x \in {b2, d4} -> <<t3>> [] OTHER -> <<>>]
MCProposals ==
  [x \in BlockSet |-> CASE x = a1 -> {t1, t2} [] x = a2 -> {t3} [] x = b1 -> {t2} [] OTHER -> {}]
MCUncles ==
  [x \in BlockSet |->
     CASE x \in {a2, c4} /\ b1 \in BlockSet -> <<b1>> [] x = e2 -> <<a1>> [] OTHER -> <<>>]
MCEpoch == [x \in BlockSet |-> IF x \in {a3, a4, c3, c4, d4} THEN a2 ELSE none]
=============================================================================
