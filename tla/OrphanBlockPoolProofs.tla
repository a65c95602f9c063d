----------------------- MODULE OrphanBlockPoolProofs -----------------------
(***************************************************************************)
(* The three maps of the orphan block pool stay consistent, no pooled      *)
(* block is ever stranded, and the pool implements OrphanSet: for every    *)
(* tree of blocks and every order of calls.                                *)
(***************************************************************************)
EXTENDS OrphanBlockPool, TLAPS

\* The types of the three maps; `returned` is computed by a recursive
\* function and plays no part in the invariant.
MapsTypeOK ==
  /\ blocks \in [ParentHash -> SUBSET Hash]
  /\ parents \in SUBSET Hash
  /\ leaders \in SUBSET ParentHash

PoolInv == MapsTypeOK /\ PoolConsistent

-----------------------------------------------------------------------------
\* The descendants that the removal loop takes out contain the children of p
\* and the children of each of their members.
LEMMA DescendantsClosed ==
  ASSUME NEW p \in ParentHash, NEW map \in [ParentHash -> SUBSET Hash]
  PROVE  /\ map[p] \subseteq PooledDescendants(p, map)
         /\ ClosedUnderChildren(PooledDescendants(p, map), map)
         /\ PooledDescendants(p, map) \subseteq Hash
<1> DEFINE D == PooledDescendants(p, map)
<1>1. map[p] \subseteq D
  BY DEF PooledDescendants
<1>2. ASSUME NEW h \in D PROVE map[h] \subseteq D
  <2>1. h \in ParentHash
    BY DEF PooledDescendants, Hash, ParentHash, NonGenesis
  <2>2. SUFFICES ASSUME NEW x \in map[h], NEW S \in SUBSET Hash,
                        map[p] \subseteq S, ClosedUnderChildren(S, map)
                 PROVE  x \in S
    BY <2>1 DEF PooledDescendants
  <2>3. h \in S
    BY <2>2 DEF PooledDescendants
  <2> QED
    BY <2>2, <2>3 DEF ClosedUnderChildren
<1> QED
  BY <1>1, <1>2 DEF ClosedUnderChildren, PooledDescendants

\* The least such set: it is contained in every closed set that contains the
\* children of p.
LEMMA DescendantsLeast ==
  ASSUME NEW p \in ParentHash, NEW map \in [ParentHash -> SUBSET Hash],
         NEW S \in SUBSET Hash, map[p] \subseteq S, ClosedUnderChildren(S, map)
  PROVE  PooledDescendants(p, map) \subseteq S
BY DEF PooledDescendants

\* Only pooled blocks are taken out, and none that is filed below another
\* parent outside the removed set.
LEMMA DescendantsPooled ==
  ASSUME PoolInv, NEW p \in ParentHash
  PROVE  /\ PooledDescendants(p, blocks) \subseteq parents
         /\ \A h \in PooledDescendants(p, blocks) :
               Parent[h] = p \/ Parent[h] \in PooledDescendants(p, blocks)
<1> DEFINE D == PooledDescendants(p, blocks)
           E == {h \in D : h \in parents /\ (Parent[h] = p \/ Parent[h] \in D)}
<1>1. /\ blocks \in [ParentHash -> SUBSET Hash]
      /\ Hash \subseteq ParentHash
  BY DEF PoolInv, MapsTypeOK, Hash, ParentHash, NonGenesis
<1>2. blocks[p] \subseteq E
  BY <1>1, DescendantsClosed DEF PoolInv, PoolConsistent
<1>3. ClosedUnderChildren(E, blocks)
  BY <1>1, DescendantsClosed DEF PoolInv, PoolConsistent, ClosedUnderChildren
<1>4. E \in SUBSET Hash
  BY <1>1, DescendantsClosed
<1>5. D \subseteq E
  BY <1>1, <1>2, <1>3, <1>4, DescendantsLeast
<1> QED
  BY <1>5

-----------------------------------------------------------------------------
\* insert keeps the maps consistent, also when the block closes the gap
\* between a pooled child and a pooled parent.
LEMMA InsertPreserves ==
  ASSUME PoolInv, NEW h \in Hash, Insert(h)
  PROVE  PoolInv'
<1> USE DEF Hash, ParentHash, NonGenesis
<1>1. /\ Parent[h] \in ParentHash
      /\ blocks \in [ParentHash -> SUBSET Hash]
  BY BlockTreeAssumption DEF PoolInv, MapsTypeOK
<1>2. MapsTypeOK'
  BY <1>1 DEF PoolInv, MapsTypeOK, Insert
<1>3. ASSUME NEW p \in ParentHash
      PROVE  blocks'[p] = {x \in parents' : Parent[x] = p}
  BY <1>1 DEF PoolInv, PoolConsistent, MapsTypeOK, Insert
<1>4. leaders' = {Parent[x] : x \in parents'} \ parents'
  <2>1. Parent[h] # h
    <3>1. {h} \in SUBSET NonGenesis /\ {h} # {}
      OBVIOUS
    <3> QED
      BY <3>1, AcyclicAssumption
  <2> QED
    BY <2>1 DEF PoolInv, PoolConsistent, MapsTypeOK, Insert
<1> QED
  BY <1>2, <1>3, <1>4 DEF PoolInv, PoolConsistent

\* Taking out the forests above any set of leaders keeps the maps consistent.
LEMMA TakeOutPreserves ==
  ASSUME PoolInv, NEW P \in SUBSET leaders, TakeOut(P)
  PROVE  PoolInv'
<1> DEFINE removed == UNION {PooledDescendants(p, blocks) : p \in P}
<1>1. /\ blocks \in [ParentHash -> SUBSET Hash]
      /\ P \subseteq ParentHash
      /\ Hash \subseteq ParentHash
      /\ parents \subseteq Hash
      /\ leaders \subseteq ParentHash
  BY DEF PoolInv, MapsTypeOK, Hash, ParentHash, NonGenesis
<1>2. /\ leaders' = leaders \ P
      /\ blocks' = [q \in ParentHash |->
                      IF q \in P \cup removed THEN {} ELSE blocks[q]]
      /\ parents' = parents \ removed
  BY DEF TakeOut
<1>3. \A x \in removed : x \in parents /\ (Parent[x] \in P \/ Parent[x] \in removed)
  BY <1>1, DescendantsPooled
<1>4. \A x \in parents : Parent[x] \in P \cup removed => x \in removed
  <2>1. SUFFICES ASSUME NEW x \in parents, Parent[x] \in P \cup removed
                 PROVE  x \in removed
    OBVIOUS
  <2>2. Parent[x] \in ParentHash /\ x \in blocks[Parent[x]]
    BY <1>1, BlockTreeAssumption DEF PoolInv, PoolConsistent, Hash, ParentHash
  <2>3. CASE Parent[x] \in P
    BY <1>1, <2>2, <2>3, DescendantsClosed
  <2>4. CASE Parent[x] \in removed
    <3>1. PICK p \in P : Parent[x] \in PooledDescendants(p, blocks)
      BY <2>4
    <3>2. x \in PooledDescendants(p, blocks)
      BY <1>1, <2>2, <3>1, DescendantsClosed DEF ClosedUnderChildren
    <3> QED
      BY <3>2
  <2> QED
    BY <2>1, <2>3, <2>4
<1>5. MapsTypeOK'
  BY <1>1, <1>2 DEF MapsTypeOK
<1>6. ASSUME NEW p \in ParentHash
      PROVE  blocks'[p] = {x \in parents' : Parent[x] = p}
  <2>1. blocks[p] = {x \in parents : Parent[x] = p}
    BY DEF PoolInv, PoolConsistent
  <2>2. CASE p \in P \cup removed
    BY <1>2, <1>4, <2>2
  <2>3. CASE p \notin P \cup removed
    BY <1>2, <1>3, <2>1, <2>3
  <2> QED
    BY <2>2, <2>3
<1>7. leaders' = {Parent[x] : x \in parents'} \ parents'
  <2>1. leaders = {Parent[x] : x \in parents} \ parents
    BY DEF PoolInv, PoolConsistent
  <2>2. ASSUME NEW q \in leaders'
        PROVE  q \in {Parent[x] : x \in parents'} \ parents'
    <3>1. PICK x \in parents : q = Parent[x]
      BY <1>2, <2>1, <2>2
    <3>2. q \notin P /\ q \notin parents
      BY <1>2, <2>1, <2>2
    <3>3. x \notin removed
      BY <1>3, <3>1, <3>2
    <3> QED
      BY <1>2, <3>1, <3>2, <3>3
  <2>3. ASSUME NEW x \in parents', Parent[x] \notin parents'
        PROVE  Parent[x] \in leaders'
    <3>1. x \in parents /\ x \notin removed
      BY <1>2, <2>3
    <3>2. Parent[x] \notin P \cup removed
      BY <1>4, <3>1
    <3> QED
      BY <1>2, <2>1, <2>3, <3>1, <3>2
  <2> QED
    BY <2>2, <2>3
<1> QED
  BY <1>5, <1>6, <1>7 DEF PoolInv, PoolConsistent

LEMMA NextPreserves ==
  ASSUME PoolInv, [Next]_vars
  PROVE  PoolInv'
<1>1. ASSUME NEW h \in Hash, Insert(h) PROVE PoolInv'
  BY <1>1, InsertPreserves
<1>2. ASSUME NEW p \in ParentHash, RemoveBlocksByParent(p) PROVE PoolInv'
  <2>1. CASE p \in leaders /\ TakeOut({p})
    <3>1. {p} \in SUBSET leaders
      BY <2>1
    <3> QED
      BY <2>1, <3>1, TakeOutPreserves
  <2>2. CASE UNCHANGED <<blocks, parents, leaders>>
    BY <2>2 DEF PoolInv, MapsTypeOK, PoolConsistent
  <2> QED
    BY <1>2, <2>1, <2>2 DEF RemoveBlocksByParent
<1>3. ASSUME NEW tipEpoch \in 0..MaxEpoch, CleanExpiredBlocks(tipEpoch) PROVE PoolInv'
  <2>1. PICK first \in [leaders -> parents] :
          TakeOut({p \in leaders : NeedClean(first[p], tipEpoch)})
    BY <1>3 DEF CleanExpiredBlocks
  <2>2. {p \in leaders : NeedClean(first[p], tipEpoch)} \in SUBSET leaders
    OBVIOUS
  <2> QED
    BY <2>1, <2>2, TakeOutPreserves
<1>4. CASE UNCHANGED vars
  BY <1>4 DEF vars, PoolInv, MapsTypeOK, PoolConsistent
<1> QED
  BY <1>1, <1>2, <1>3, <1>4 DEF Next

\* The comments on InnerPool's fields hold in every reachable state: the maps
\* agree with one another and the leaders are exactly the awaited parents.
THEOREM PoolAlwaysConsistent == Spec => []PoolConsistent
<1>1. Init => PoolInv
  BY DEF Init, PoolInv, MapsTypeOK, PoolConsistent
<1>2. PoolInv /\ [Next]_vars => PoolInv'
  BY NextPreserves
<1>3. PoolInv => PoolConsistent
  BY DEF PoolInv
<1> QED
  BY <1>1, <1>2, <1>3, PTL DEF Spec

\* In consistent maps every pooled block is above a leader: among the blocks
\* that are not, one would have a parent outside the pool (a leader) or above
\* a leader.
LEMMA ConsistentNotStranded ==
  ASSUME PoolInv
  PROVE  NoStrandedBlock
<1> DEFINE reached == UNION {PooledDescendants(p, blocks) : p \in leaders}
           S == parents \ reached
<1>1. /\ blocks \in [ParentHash -> SUBSET Hash]
      /\ leaders \subseteq ParentHash
      /\ Hash \subseteq ParentHash
      /\ S \in SUBSET NonGenesis
  BY DEF PoolInv, MapsTypeOK, Hash, ParentHash, NonGenesis
<1>2. ASSUME S # {} PROVE FALSE
  <2>1. PICK h \in S : Parent[h] \notin S
    BY <1>1, <1>2, AcyclicAssumption
  <2>2. Parent[h] \in ParentHash /\ h \in blocks[Parent[h]]
    BY <1>1, BlockTreeAssumption DEF PoolInv, PoolConsistent, Hash, ParentHash
  <2>3. CASE Parent[h] \in parents
    <3>1. PICK p \in leaders : Parent[h] \in PooledDescendants(p, blocks)
      BY <2>1, <2>3
    <3>2. h \in PooledDescendants(p, blocks)
      BY <1>1, <2>2, <3>1, DescendantsClosed DEF ClosedUnderChildren
    <3> QED
      BY <3>2, <2>1
  <2>4. CASE Parent[h] \notin parents
    <3>1. Parent[h] \in leaders
      BY <2>4, <2>1 DEF PoolInv, PoolConsistent
    <3>2. h \in PooledDescendants(Parent[h], blocks)
      BY <1>1, <2>2, DescendantsClosed
    <3> QED
      BY <3>1, <3>2, <2>1
  <2> QED
    BY <2>3, <2>4
<1> QED
  BY <1>2 DEF NoStrandedBlock

\* search_orphan_leaders can reach every pooled block: no sequence of insert,
\* remove_blocks_by_parent and clean_expired_blocks strands one.
THEOREM NeverStranded == Spec => []NoStrandedBlock
<1>1. Init => PoolInv
  BY DEF Init, PoolInv, MapsTypeOK, PoolConsistent
<1>2. PoolInv /\ [Next]_vars => PoolInv'
  BY NextPreserves
<1>3. PoolInv => NoStrandedBlock
  BY ConsistentNotStranded
<1> QED
  BY <1>1, <1>2, <1>3, PTL DEF Spec

-----------------------------------------------------------------------------
\* In consistent maps the removal loop takes out what OrphanSet takes out.
LEMMA DescendantsAreAbove ==
  ASSUME PoolInv, NEW p \in ParentHash
  PROVE  PooledDescendants(p, blocks) = AbstractPool!Above(p, parents)
<1>1. \A x \in ParentHash : blocks[x] = AbstractPool!ChildrenIn(x, parents)
  BY DEF PoolInv, PoolConsistent, AbstractPool!ChildrenIn
<1>2. ASSUME NEW S \in SUBSET Hash
      PROVE  ClosedUnderChildren(S, blocks)
               <=> \A x \in S : AbstractPool!ChildrenIn(x, parents) \subseteq S
  BY <1>1 DEF ClosedUnderChildren, Hash, ParentHash, NonGenesis
<1>3. ASSUME NEW S \in SUBSET Hash
      PROVE  (blocks[p] \subseteq S /\ ClosedUnderChildren(S, blocks))
               <=> (/\ AbstractPool!ChildrenIn(p, parents) \subseteq S
                    /\ \A x \in S : AbstractPool!ChildrenIn(x, parents) \subseteq S)
  BY <1>1, <1>2
<1>4. ASSUME NEW h \in Hash
      PROVE  h \in PooledDescendants(p, blocks) <=> h \in AbstractPool!Above(p, parents)
  BY <1>3 DEF PooledDescendants, AbstractPool!Above, Hash, AbstractPool!NonGenesis, NonGenesis
<1>5. /\ PooledDescendants(p, blocks) \subseteq Hash
      /\ AbstractPool!Above(p, parents) \subseteq Hash
  BY DEF PooledDescendants, AbstractPool!Above, Hash, AbstractPool!NonGenesis, NonGenesis
<1> QED
  BY <1>4, <1>5

LEMMA TakeOutIsTake ==
  ASSUME PoolInv, NEW P \in SUBSET leaders, TakeOut(P)
  PROVE  AbstractPool!Next
<1>1. P \subseteq ParentHash
  BY DEF PoolInv, MapsTypeOK
<1>2. parents' = parents \ UNION {AbstractPool!Above(p, parents) : p \in P}
  <2>1. {PooledDescendants(p, blocks) : p \in P}
           = {AbstractPool!Above(p, parents) : p \in P}
    BY <1>1, DescendantsAreAbove
  <2> QED
    BY <2>1 DEF TakeOut
<1>3. P \in SUBSET AbstractPool!Awaited(parents)
  BY DEF PoolInv, PoolConsistent, AbstractPool!Awaited
<1> QED
  BY <1>2, <1>3 DEF AbstractPool!Next, AbstractPool!Take

\* The maps implement a plain set of blocks from which the OrphanBroker takes
\* whole forests above awaited parents.
THEOREM PoolImplementsOrphanSet == Spec => ImplementsOrphanSet
<1>1. Init => PoolInv /\ AbstractPool!Init
  BY DEF Init, PoolInv, MapsTypeOK, PoolConsistent, AbstractPool!Init
<1>2. PoolInv /\ [Next]_vars => PoolInv'
  BY NextPreserves
<1>3. PoolInv /\ [Next]_vars => [AbstractPool!Next]_parents
  <2> SUFFICES ASSUME PoolInv, [Next]_vars
               PROVE  [AbstractPool!Next]_parents
    OBVIOUS
  <2>1. ASSUME NEW h \in Hash, Insert(h) PROVE AbstractPool!Next
    BY <2>1 DEF Insert, AbstractPool!Next, AbstractPool!Add, Hash,
                NonGenesis, AbstractPool!NonGenesis
  <2>2. ASSUME NEW p \in ParentHash, RemoveBlocksByParent(p)
        PROVE  [AbstractPool!Next]_parents
    <3>1. CASE p \in leaders /\ TakeOut({p})
      <4>1. {p} \in SUBSET leaders
        BY <3>1
      <4> QED
        BY <3>1, <4>1, TakeOutIsTake
    <3>2. CASE UNCHANGED <<blocks, parents, leaders>>
      BY <3>2
    <3> QED
      BY <2>2, <3>1, <3>2 DEF RemoveBlocksByParent
  <2>3. ASSUME NEW tipEpoch \in 0..MaxEpoch, CleanExpiredBlocks(tipEpoch)
        PROVE  AbstractPool!Next
    <3>1. PICK first \in [leaders -> parents] :
            TakeOut({p \in leaders : NeedClean(first[p], tipEpoch)})
      BY <2>3 DEF CleanExpiredBlocks
    <3>2. {p \in leaders : NeedClean(first[p], tipEpoch)} \in SUBSET leaders
      OBVIOUS
    <3> QED
      BY <3>1, <3>2, TakeOutIsTake
  <2>4. CASE UNCHANGED vars
    BY <2>4 DEF vars
  <2> QED
    BY <2>1, <2>2, <2>3, <2>4 DEF Next
<1> QED
  BY <1>1, <1>2, <1>3, PTL DEF Spec, ImplementsOrphanSet, AbstractPool!Spec
=============================================================================
