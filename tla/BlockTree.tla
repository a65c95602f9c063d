----------------------------- MODULE BlockTree -----------------------------
(***************************************************************************)
(* The blocks that exist in the network, as a tree below the genesis.      *)
(* A block is identified with its hash; what a header commits to (parent,  *)
(* number) is a function of it.                                            *)
(***************************************************************************)
EXTENDS Integers, FiniteSets

CONSTANTS
  Block,    \* the block hashes, the genesis included
  Genesis,  \* consensus.genesis_block()
  Parent    \* header.parent_hash()

NonGenesis == Block \ {Genesis}

ASSUME BlockTreeAssumption ==
  /\ Genesis \in Block
  /\ Parent \in [NonGenesis -> Block]

\* A hash commits to the parent's hash, so following parents never circles.
ASSUME AcyclicAssumption ==
  \A S \in SUBSET NonGenesis : S # {} => \E b \in S : Parent[b] \notin S

AncestorClosed(S) == \A b \in S \ {Genesis} : Parent[b] \in S

\* Chain[b]: the block b and all of its ancestors.
Chain ==
  [b \in Block |-> {a \in Block :
     \A S \in SUBSET Block : (b \in S /\ AncestorClosed(S)) => a \in S}]

\* header.number(): NumberVerifier requires it to be the parent's plus one.
Number == [b \in Block |-> Cardinality(Chain[b]) - 1]

\* The ancestor of b at height n.
AncestorAt(b, n) == CHOOSE a \in Chain[b] : Number[a] = n
=============================================================================
