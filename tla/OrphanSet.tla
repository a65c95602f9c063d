----------------------------- MODULE OrphanSet -----------------------------
(***************************************************************************)
(* What the orphan block pool promises to its one user, the OrphanBroker:  *)
(* it is a set of blocks, and asking for an awaited parent takes out the   *)
(* whole forest of pooled blocks above that parent.                        *)
(***************************************************************************)
EXTENDS BlockTree

VARIABLE orphans  \* the blocks in the pool

ChildrenIn(p, S) == {h \in S : Parent[h] = p}

\* The blocks of S above p that are connected to p through blocks of S.
Above(p, S) ==
  {h \in NonGenesis : \A T \in SUBSET NonGenesis :
     (/\ ChildrenIn(p, S) \subseteq T
      /\ \A x \in T : ChildrenIn(x, S) \subseteq T) => h \in T}

\* The leaders: blocks outside S that some block of S waits for.
Awaited(S) == {Parent[h] : h \in S} \ S

Init == orphans = {}

Add(h) == orphans' = orphans \cup {h}

Take(P) == orphans' = orphans \ UNION {Above(p, orphans) : p \in P}

Next ==
  \/ \E h \in NonGenesis : Add(h)
  \/ \E P \in SUBSET Awaited(orphans) : Take(P)

Spec == Init /\ [][Next]_orphans
=============================================================================
