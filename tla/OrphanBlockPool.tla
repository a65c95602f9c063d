-------------------------- MODULE OrphanBlockPool --------------------------
(***************************************************************************)
(* The orphan block pool of the chain service: blocks whose parent is not  *)
(* stored yet, grouped by the parent they wait for.                        *)
(*                                                                         *)
(* InnerPool keeps three maps under one RwLock, so every public method is  *)
(* one atomic action here.  A block is its hash; the parent hash and the   *)
(* epoch number are functions of it.  An entry of the `blocks` map is      *)
(* created together with its first child and removed whole, so an empty    *)
(* set of children stands for "no entry".                                  *)
(***************************************************************************)
EXTENDS BlockTree, Sequences, SequencesExt

CONSTANTS
  Epoch,         \* the epoch number of every block
  ExpiredEpoch,  \* EXPIRED_EPOCH
  MaxEpoch       \* bound: the largest epoch number of a tip

\* Blocks that can be received, and the hashes they can name as their parent.
Hash == NonGenesis
ParentHash == Block

ASSUME OrphanPoolAssumption ==
  /\ Epoch \in [Hash -> Nat]
  /\ ExpiredEpoch \in Nat
  /\ MaxEpoch \in Nat

VARIABLES
  blocks,    \* parent hash |-> the pooled blocks that have this parent
  parents,   \* the keys of the map `parents`: the hashes in the pool
  leaders,   \* parents that are not pooled and have a pooled child
  returned,  \* the Vec that the last remove_blocks_by_parent returned
  expired    \* the blocks that the last clean_expired_blocks returned

vars == <<blocks, parents, leaders, returned, expired>>

Init ==
  /\ blocks = [p \in ParentHash |-> {}]
  /\ parents = {}
  /\ leaders = {}
  /\ returned = <<>>
  /\ expired = {}

-----------------------------------------------------------------------------
\* Mutants of insert: the arguments of the outer and the inner map swapped; the
\* deduplication of an out-of-order insertion left out.
InsertSwapped(h) ==
  /\ blocks' = [blocks EXCEPT ![h] = @ \cup {Parent[h]}]
  /\ leaders' = (leaders \ {h}) \cup
                  (IF Parent[h] \in parents THEN {} ELSE {Parent[h]})
  /\ parents' = parents \cup {h}
  /\ returned' = <<>>
  /\ expired' = {}

InsertKeepsLeader(h) ==
  /\ blocks' = [blocks EXCEPT ![Parent[h]] = @ \cup {h}]
  /\ leaders' = leaders \cup (IF Parent[h] \in parents THEN {} ELSE {Parent[h]})
  /\ parents' = parents \cup {h}
  /\ returned' = <<>>
  /\ expired' = {}

\* InnerPool::insert
Insert(h) ==
  /\ blocks' = [blocks EXCEPT ![Parent[h]] = @ \cup {h}]
  /\ leaders' = (leaders \ {h}) \cup
                  (IF Parent[h] \in parents THEN {} ELSE {Parent[h]})
  /\ parents' = parents \cup {h}
  /\ returned' = <<>>
  /\ expired' = {}

\* The blocks that the loop of remove_blocks_by_parent takes out of the maps:
\* the children of p, their children, and so on.
ClosedUnderChildren(S, map) == \A h \in S : map[h] \subseteq S

\* Mutant: the queue is not extended, so only the direct children go.
DirectChildrenOnly(p, map) == map[p]

PooledDescendants(p, map) ==
  {h \in Hash : \A S \in SUBSET Hash :
     (map[p] \subseteq S /\ ClosedUnderChildren(S, map)) => h \in S}

\* The loop itself: a work queue of parents and the Vec of removed blocks.
\* `order` is the iteration order of the inner hash maps; a block has one
\* parent, so one permutation of all hashes stands for all of them.
\* Mutants: every batch is put in front of the Vec; the queue is not extended.
LatestFirst(p, map, order) ==
  LET children(q) == SelectSeq(order, LAMBDA h : h \in map[q])
      loop[s \in Seq(ParentHash) \X Seq(Hash)] ==
        IF s[1] = <<>> THEN s[2]
        ELSE LET hashes == children(Head(s[1]))
             IN  loop[<<Tail(s[1]) \o hashes, hashes \o s[2]>>]
  IN  loop[<< <<p>>, <<>> >>]

FirstBatchOnly(p, map, order) == SelectSeq(order, LAMBDA h : h \in map[p])

RemovalLoop(p, map, order) ==
  LET children(q) == SelectSeq(order, LAMBDA h : h \in map[q])
      loop[s \in Seq(ParentHash) \X Seq(Hash)] ==
        IF s[1] = <<>> THEN s[2]
        ELSE LET hashes == children(Head(s[1]))
             IN  loop[<<Tail(s[1]) \o hashes, s[2] \o hashes>>]
  IN  loop[<< <<p>>, <<>> >>]

\* The maps after the descendants of every block of P were removed.
TakeOut(P) ==
  LET removed == UNION {PooledDescendants(p, blocks) : p \in P}
  IN  /\ leaders' = leaders \ P
      /\ blocks' = [q \in ParentHash |->
                      IF q \in P \cup removed THEN {} ELSE blocks[q]]
      /\ parents' = parents \ removed

\* Mutant: the early return for a parent that is not a leader is missing.
RemoveWithoutLeaderCheck(p) ==
  /\ expired' = {}
  /\ TakeOut({p})
  /\ \E order \in SetToSeqs(Hash) : returned' = RemovalLoop(p, blocks, order)

\* InnerPool::remove_blocks_by_parent: nothing happens unless p is a leader.
RemoveBlocksByParent(p) ==
  /\ expired' = {}
  /\ \/ /\ p \in leaders
        /\ TakeOut({p})
        /\ \E order \in SetToSeqs(Hash) : returned' = RemovalLoop(p, blocks, order)
     \/ /\ p \notin leaders
        /\ returned' = <<>>
        /\ UNCHANGED <<blocks, parents, leaders>>

\* InnerPool::need_clean looks at one child of the leader, whichever the hash
\* map yields first.
NeedClean(first, tipEpoch) ==
  (IF tipEpoch >= Epoch[first] THEN tipEpoch - Epoch[first] ELSE 0) > ExpiredEpoch

\* InnerPool::clean_expired_blocks: `first` is the child that need_clean sees.
CleanExpiredBlocks(tipEpoch) ==
  \E first \in [leaders -> parents] :
    /\ \A p \in leaders : first[p] \in blocks[p]
    /\ LET old == {p \in leaders : NeedClean(first[p], tipEpoch)}
       IN  /\ TakeOut(old)
           /\ expired' = UNION {PooledDescendants(p, blocks) : p \in old}
    /\ returned' = <<>>

Next ==
  \/ \E h \in Hash : Insert(h)
  \/ \E p \in ParentHash : RemoveBlocksByParent(p)
  \/ \E tipEpoch \in 0..MaxEpoch : CleanExpiredBlocks(tipEpoch)

Spec == Init /\ [][Next]_vars

-----------------------------------------------------------------------------
TypeOK ==
  /\ blocks \in [ParentHash -> SUBSET Hash]
  /\ parents \in SUBSET Hash
  /\ leaders \in SUBSET ParentHash
  /\ returned \in Seq(Hash)
  /\ expired \in SUBSET Hash

\* The comments on InnerPool's fields: a block is in the pool iff its hash is a
\* key of `parents` (and then it is filed under its own parent), and the
\* leaders are exactly the blocks outside the pool with a child in it.
PoolConsistent ==
  /\ \A p \in ParentHash : blocks[p] = {h \in parents : Parent[h] = p}
  /\ leaders = {Parent[h] : h \in parents} \ parents

\* No pooled block is stranded: the broker only ever asks for the descendants
\* of leaders (search_orphan_leaders), so each pooled block must be below one.
NoStrandedBlock ==
  parents \subseteq UNION {PooledDescendants(p, blocks) : p \in leaders}

\* What remove_blocks_by_parent hands to accept_descendants: every block that
\* left the pool, once, each one after its parent unless that is the leader
\* itself.  A block sent to verification before its parent would be found
\* without a parent ext and be marked invalid.
ReturnedInOrder ==
  \A i \in 1..Len(returned) :
    /\ Parent[returned[i]] \notin {returned[j] : j \in i..Len(returned)}
    /\ returned[i] \notin {returned[j] : j \in 1..(i-1)}

\* remove_blocks_by_parent returns exactly the blocks it takes out of the maps,
\* and never nothing (debug_assert "orphan pool removed list must not be zero").
ReturnsWhatItRemoves ==
  [][ /\ expired' = {} => ToSet(returned') = parents \ parents'
      /\ leaders \ leaders' # {} /\ parents' \subseteq parents
           => parents \ parents' # {} ]_vars

\* The three maps implement a plain set of blocks: insert adds one, and
\* remove_blocks_by_parent and clean_expired_blocks take out whole forests
\* above awaited parents, nothing more and nothing less.
AbstractPool == INSTANCE OrphanSet WITH orphans <- parents

ImplementsOrphanSet == AbstractPool!Spec
=============================================================================
