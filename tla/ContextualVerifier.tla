------------------------- MODULE ContextualVerifier -------------------------
(***************************************************************************)
(* The checks a block must pass in the context of its parent's chain:      *)
(* resolution of its transactions, uncles and two-phase commit.  The       *)
(* context is a database (the open StoreTransaction) whose main chain ends *)
(* at the parent.  The checks that only compare the block with values      *)
(* computed from that chain (epoch, reward, DAO field, extension, scripts) *)
(* are the constant Bad: the blocks that fail one of them.                 *)
(***************************************************************************)
EXTENDS ChainStore, ProposalTable

CONSTANTS
  Proposals,     \* the proposal ids of a block (transactions of the ledger)
  MaxUnclesNum,  \* consensus.max_uncles_num()
  Bad            \* the blocks that fail another contextual check

ASSUME ContextualAssumption ==
  /\ Proposals \in [Block -> SUBSET Tx]
  /\ Proposals[Genesis] = {} /\ Uncles[Genesis] = <<>>
  /\ MaxUnclesNum \in Nat
  /\ Bad \subseteq NonGenesis

\* BlockView::union_proposal_ids
UnionProposalIds(b) == Proposals[b] \cup UNION {Proposals[u] : u \in UncleSet(b)}

-----------------------------------------------------------------------------
\* BlockCellProvider::new: a transaction may only use outputs of earlier ones.
InOrder(b) ==
  \A i, j \in DOMAIN Txs[b] : Txs[b][j] \in Inputs[Txs[b][i]] \cup CellDeps[Txs[b][i]] => j < i

\* resolve_transaction of the i-th transaction: every cell it uses is an output of
\* the block or live in the store, and no earlier transaction has spent it.
Resolves(db, b, i) ==
  LET t == Txs[b][i]
      seen == UNION {Inputs[Txs[b][j]] : j \in 1..(i - 1)}
  IN  /\ \A c \in Inputs[t] \cup CellDeps[t] :
           c \notin seen /\ (c \in TxSet(b) \/ db.cells[c] # None)
      /\ \A h \in HeaderDeps[t] : h \in db.byHash /\ h \in db.stored

ResolveBlockTransactions(db, b) ==
  InOrder(b) /\ \A i \in DOMAIN Txs[b] : Resolves(db, b, i)

-----------------------------------------------------------------------------
\* UncleVerifierContext
DoubleInclusion(db, u) == u \in db.byHash \/ u \in db.uncles
DescendantOfChain(db, u) == Parent[u] \in db.byHash \/ Parent[u] \in db.uncles

EpochNumber(b) == Cardinality({a \in Chain[b] \ {Genesis} : NewEpoch(a)})

\* The bug of looking only at the main chain for a double inclusion.
VerifyUnclesOnce(db, b) == \A u \in UncleSet(b) : Number[u] < Number[b] /\ u \notin db.byHash

\* UnclesVerifier::verify
VerifyUncles(db, b) ==
  /\ Len(Uncles[b]) <= MaxUnclesNum
  /\ \A i \in DOMAIN Uncles[b] :
       LET u == Uncles[b][i]
           included == {Uncles[b][j] : j \in 1..(i - 1)}
       IN  /\ EpochNumber(u) = EpochNumber(b)
           /\ Number[u] < Number[b]
           /\ Parent[u] \in included \/ DescendantOfChain(db, u)
           /\ u \notin included
           /\ ~DoubleInclusion(db, u)

-----------------------------------------------------------------------------
\* The ids TwoPhaseCommitVerifier collects: it enters the main chain through the
\* index at the end of the window and follows the parents, never into the genesis.
CommittableIds(db, number) ==
  LET start == SaturatingSub(number, Farthest)
      end == SaturatingSub(number, Closest)
      window == {a \in Chain[db.byNumber[end]] \ {Genesis} : start <= Number[a]}
  IN  UNION {UnionProposalIds(a) : a \in window}

\* TwoPhaseCommitVerifier::verify
VerifyTwoPhaseCommit(db, b) == TxSet(b) \subseteq CommittableIds(db, Number[b])

\* resolve_block_transactions and ContextualBlockVerifier::verify, in that order
ContextualVerify(db, b) ==
  /\ ResolveBlockTransactions(db, b)
  /\ VerifyUncles(db, b)
  /\ VerifyTwoPhaseCommit(db, b)
  /\ b \notin Bad

-----------------------------------------------------------------------------
\* The reference: a chain is valid if every block passes the checks against the
\* ledger that its ancestors, replayed from the genesis, produce.
IsValid ==
  [b \in Block |-> \A a \in Chain[b] \ {Genesis} :
     ContextualVerify([Replayed[Parent[a]] EXCEPT !.stored = Block], a)]
=============================================================================
