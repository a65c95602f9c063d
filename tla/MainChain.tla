------------------------------ MODULE MainChain ------------------------------
(***************************************************************************)
(* The thread that verifies blocks and owns the main chain                 *)
(* (ConsumeUnverifiedBlockProcessor): it takes stored blocks, parents      *)
(* before children, switches the main chain to a heavier valid block,      *)
(* keeps the proposal table and publishes the snapshot.                    *)
(***************************************************************************)
EXTENDS ForkChanges, ContextualVerifier

CONSTANTS
  TotalDifficulty,
  AllowTruncate,    \* whether the truncate RPC of the test module is used
  MaxDbErrors       \* bound on the database errors in a behaviour

ASSUME MainChainAssumption ==
  /\ TotalDifficulty \in [Block -> Nat]
  /\ \A b \in NonGenesis : TotalDifficulty[Parent[b]] < TotalDifficulty[b]
  /\ AllowTruncate \in BOOLEAN
  /\ MaxDbErrors \in Nat

VARIABLES
  db,        \* the database
  snapshot,  \* shared.snapshot(): tip, epoch and ProposalView
  table,     \* the ProposalTable of the processor
  invalid,   \* the blocks whose status is BLOCK_INVALID
  lost       \* the blocks a database error made the processor drop, for their children

vars == <<db, snapshot, table, invalid, lost>>

-----------------------------------------------------------------------------
\* init_proposal_table
InitProposalTable(d) ==
  LET n == Number[d.tip]
      window == {m \in Numbers : SaturatingSub(n, Farthest) <= m /\ m <= n /\ d.byNumber[m] # None}
  IN  Finalize([m \in window |-> UnionProposalIds(d.byNumber[m])], EmptyView, n)

\* init_snapshot
InitSnapshot(d) == [tip |-> d.tip, epoch |-> d.epoch, view |-> InitProposalTable(d).view]

Init ==
  /\ db = GenesisDatabase
  /\ snapshot = InitSnapshot(db)
  /\ table = InitProposalTable(db).table
  /\ invalid = {}
  /\ lost = {}

-----------------------------------------------------------------------------
\* The bug of leaving the trimmed numbers out.
NoReload(d, t, fork) == t

\* reload_proposal_table: bring back the numbers that finalize had trimmed.
ReloadProposalTable(d, t, fork) ==
  IF fork.detached = <<>> \/ Number[Head(fork.detached)] < 2 THEN t
  ELSE LET common == Number[Head(fork.detached)] - 1
           newTip == IF fork.attached = <<>> THEN common ELSE Number[Last(fork.attached)]
           from == SaturatingSub(newTip + 1, Farthest)
           window == {n \in Numbers : 1 <= n /\ from <= n /\ n <= common}
       IN  [n \in window |-> UnionProposalIds(d.byNumber[n])] @@ t

\* update_proposal_table
UpdateProposalTable(d, t, fork) ==
  LET removed == FoldLeft(LAMBDA acc, b : TableRemove(acc, Number[b]), t, fork.detached)
      inserted == FoldLeft(LAMBDA acc, b : TableInsert(acc, Number[b], UnionProposalIds(b)),
                           removed, fork.attached)
  IN  ReloadProposalTable(d, inserted, fork)

\* The bug of trusting the branch below the new block.
ReconcileUnchecked(d, fork) ==
  LET last == Last(fork.attached)
      parent == FoldLeft(Attach, d, Front(fork.attached))
  IN  [ok |-> ContextualVerify(parent, last),
       db |-> [Attach(parent, last) EXCEPT
                 !.ext = [b \in Block |-> IF b \in ToSet(fork.attached) THEN "verified" ELSE @[b]]]]

\* reconcile_main_chain: the verified prefix is attached as it is, every other block is
\* verified in the transaction and attached; after a failure the rest is marked failed.
ReconcileMainChain(d, fork) ==
  LET prefix == FoldLeft(Attach, d, SubSeq(fork.attached, 1, VerifiedLen(fork)))
      Verify(r, b) ==
        IF r.ok /\ ContextualVerify(r.db, b)
        THEN [r EXCEPT !.db = [Attach(@, b) EXCEPT !.ext[b] = "verified"]]
        ELSE [ok |-> FALSE, db |-> [r.db EXCEPT !.ext[b] = "failed"]]
  IN  FoldLeft(Verify, [ok |-> TRUE, db |-> prefix],
               SubSeq(fork.attached, VerifiedLen(fork) + 1, Len(fork.attached)))

\* delete_unverified_block
DeleteUnverifiedBlock(d, b) == [d EXCEPT !.stored = @ \ {b}]

-----------------------------------------------------------------------------
\* ChainService::insert_block, after the non-contextual checks
InsertBlock(b) ==
  /\ b \notin db.stored
  /\ db' = [db EXCEPT !.stored = @ \cup {b}]
  /\ UNCHANGED <<snapshot, table, invalid, lost>>

\* A block is sent to the processor after its parent, which has been dealt with: it has
\* an ext, or it has failed.
Sent(b) ==
  /\ b \in db.stored
  /\ db.ext[Parent[b]] # None \/ Parent[b] \in invalid \cup lost

\* The bug of taking a parent that has not been verified for one that failed.
RejectedUnverified(b) ==
  \/ Parent[b] \in invalid
  \/ db.ext[b] = "failed"
  \/ db.ext[b] # "verified" /\ db.ext[Parent[b]] # "verified"

\* verify_block's early returns, errors first
RejectedEarly(b) ==
  \/ Parent[b] \in invalid
  \/ db.ext[Parent[b]] = None
  \/ db.ext[b] = "failed"
  \/ db.ext[b] # "verified" /\ db.ext[Parent[b]] = "failed"
HasBeenVerified(b) == ~RejectedEarly(b) /\ db.ext[b] = "verified"
ToVerify(b) == ~RejectedEarly(b) /\ db.ext[b] # "verified"

\* The bug of preferring a block of the same total difficulty.
NotWorseBlock(b) == TotalDifficulty[b] >= TotalDifficulty[snapshot.tip]

\* The bug of preferring the longest chain.
LongerBlock(b) == Number[b] > Number[snapshot.tip]

NewBestBlock(b) == TotalDifficulty[b] > TotalDifficulty[snapshot.tip]

\* insert_block_epoch_index and, for the head of an epoch, insert_epoch_ext
InsertEpoch(d, b) ==
  [d EXCEPT !.blockEpoch = @ \cup {b},
            !.epochs = IF NewEpoch(b) THEN @ \cup {Epoch[b]} ELSE @]

ForkOf(b) == FindFork(db, Number[snapshot.tip], b)

\* The transaction of a new best block, up to insert_tip_header.
Reconciled(b) == ReconcileMainChain(Rollback(InsertEpoch(db, b), ForkOf(b).detached), ForkOf(b))

\* consume_unverified_blocks for an error that is not the database's: everything the
\* transaction wrote is dropped, the block deleted and marked.
Fails(b) ==
  /\ db' = DeleteUnverifiedBlock(db, b)
  /\ invalid' = invalid \cup {b}
  /\ UNCHANGED <<snapshot, table, lost>>

VerifyRejected(b) == RejectedEarly(b) /\ Fails(b)

\* Ok(false): nothing but the status changes.
VerifyAgain(b) ==
  /\ HasBeenVerified(b)
  /\ invalid' = invalid \ {b}
  /\ UNCHANGED <<db, snapshot, table, lost>>

\* A block that is not better than the tip: its ext is written without verifying it.
VerifyUncle(b) ==
  /\ ToVerify(b)
  /\ ~NewBestBlock(b)
  /\ db' = [InsertEpoch(db, b) EXCEPT !.ext[b] = "unverified"]
  /\ invalid' = invalid \ {b}
  /\ UNCHANGED <<snapshot, table, lost>>

\* The new snapshot, after update_proposal_table and finalize.
Publish(d, fork, epoch) ==
  LET final == Finalize(UpdateProposalTable(d, table, fork), snapshot.view, Number[d.tip])
  IN  /\ table' = final.table
      /\ snapshot' = [tip |-> d.tip, epoch |-> epoch, view |-> final.view]

\* The bug of writing the current epoch only at the head of an epoch.
EpochAtHeadOnly(b, fork) == IF NewEpoch(b) THEN Epoch[b] ELSE db.epoch

\* insert_current_epoch_ext
CurrentEpoch(b, fork) == IF NewEpoch(b) \/ fork.detached # <<>> THEN Epoch[b] ELSE db.epoch

\* A new best block whose branch verifies becomes the tip.
VerifyBest(b) ==
  /\ ToVerify(b)
  /\ NewBestBlock(b)
  /\ ForkOf(b).found
  /\ LET fork == ForkOf(b)
         done == Reconciled(b)
     IN  /\ done.ok
         /\ db' = [done.db EXCEPT !.tip = b, !.epoch = CurrentEpoch(b, fork)]
         /\ Publish(db', fork, Epoch[b])
  /\ invalid' = invalid \ {b}
  /\ UNCHANGED lost

VerifyBestFails(b) ==
  /\ ToVerify(b)
  /\ NewBestBlock(b)
  /\ ForkOf(b).found
  /\ ~Reconciled(b).ok
  /\ Fails(b)

\* An `expect` of find_fork fails: the panic is caught, the transaction dropped, and neither
\* the block nor its status changes.
VerifyPanics(b) ==
  /\ ToVerify(b)
  /\ NewBestBlock(b)
  /\ ~ForkOf(b).found
  /\ UNCHANGED vars

\* A database error in the transaction: the block is deleted (unless that fails as well)
\* and its status removed, so that it can be processed again.
VerifyDbError(b) ==
  /\ ToVerify(b)
  /\ Cardinality(lost) < MaxDbErrors
  /\ db' \in {db, DeleteUnverifiedBlock(db, b)}
  /\ invalid' = invalid \ {b}
  /\ lost' = lost \cup {b}
  /\ UNCHANGED <<snapshot, table>>

\* consume_unverified_blocks
ConsumeUnverifiedBlock(b) ==
  /\ Sent(b)
  /\ \/ VerifyRejected(b)
     \/ VerifyAgain(b)
     \/ VerifyUncle(b)
     \/ VerifyBest(b)
     \/ VerifyBestFails(b)
     \/ VerifyPanics(b)
     \/ VerifyDbError(b)

\* truncate: no block is attached, so none of the detached blocks is deleted.
Truncate(target) ==
  /\ AllowTruncate
  /\ target \in db.byHash
  /\ LET fork == MakeForkForTruncate(db, target, Number[snapshot.tip])
     IN  /\ db' = [Rollback(db, fork.detached) EXCEPT !.tip = target, !.epoch = Epoch[target]]
         /\ Publish(db', fork, Epoch[target])
  /\ UNCHANGED <<invalid, lost>>

\* The process stops at any point between two transactions and starts again: the
\* database is what remains.
Restart ==
  /\ snapshot' = InitSnapshot(db)
  /\ table' = InitProposalTable(db).table
  /\ invalid' = {}
  /\ lost' = {}
  /\ UNCHANGED db

Next ==
  \/ \E b \in NonGenesis : InsertBlock(b) \/ ConsumeUnverifiedBlock(b)
  \/ \E b \in Block : Truncate(b)
  \/ Restart

Spec == Init /\ [][Next]_vars

\* Consuming b would change something.
Pending(b) ==
  /\ Sent(b)
  /\ \/ RejectedEarly(b) \/ b \in invalid
     \/ ToVerify(b) /\ (NewBestBlock(b) \/ db.ext[b] = None)

\* Weak fairness of the processor for every block that is sent to it, with Pending for the
\* enabling condition: the queue it reads is first in, first out.
FairSpec ==
  /\ Spec
  /\ \A b \in NonGenesis : []<>~Pending(b) \/ []<><<ConsumeUnverifiedBlock(b)>>_vars

-----------------------------------------------------------------------------
TypeOK ==
  /\ db \in Database
  /\ snapshot.tip \in Block /\ snapshot.epoch \in Block \cup {None}
  /\ snapshot.view.gap \subseteq Tx /\ snapshot.view.set \subseteq Tx
  /\ DOMAIN table \subseteq Numbers
  /\ invalid \subseteq NonGenesis /\ lost \subseteq NonGenesis

\* Whatever blocks have been attached, rolled back and attached again, the index, the
\* transaction index, the live cells and the uncles of the database are those of the chain
\* that ends at its tip: attach_block_cell and detach_block_cell undo each other.
MainChainColumns ==
  LET r == Replayed[db.tip]
  IN  /\ db.byNumber = r.byNumber /\ db.byHash = r.byHash
      /\ db.txInfo = r.txInfo /\ db.cells = r.cells /\ db.uncles = r.uncles

\* The main chain is a ledger: a cell is created before it is used, spent at most once and
\* by one transaction, a transaction is proposed within the window before it is committed,
\* and no uncle is embedded twice or is itself part of the chain.
LedgerSound ==
  LET main == Chain[db.tip]
      Spent(b, c) == {i \in DOMAIN Txs[b] : c \in Inputs[Txs[b][i]]}
  IN  /\ \A c \in Tx :
           /\ Cardinality(UNION {{<<b, i>> : i \in Spent(b, c)} : b \in main}) <= 1
           /\ \A b \in main : Spent(b, c) # {} => \E a \in Chain[b] : c \in TxSet(a)
      /\ \A b \in main \ {Genesis} : \A t \in TxSet(b) :
           \E a \in Chain[b] : /\ Number[b] - Number[a] \in Closest..Farthest
                               /\ t \in UnionProposalIds(a)
      /\ \A b \in main : UncleSet(b) \cap main = {}
      /\ \A a, b \in main : a # b => UncleSet(a) \cap UncleSet(b) = {}

\* A block has verified: Some(true) only if it passes every check against the ledger of its
\* own ancestors replayed from the genesis, although it was verified in a transaction that
\* had rolled another branch back, and the whole main chain has it.
VerifiedIsValid ==
  /\ \A b \in Block : db.ext[b] = "verified" => IsValid[b]
  /\ \A b \in Chain[db.tip] : db.ext[b] = "verified" /\ b \in db.stored

\* For every block that verify_block would treat as a new best block, find_fork detaches and
\* attaches exactly the two branches above their last common block, meets none of its
\* `expect`s, and pairs every dirty ext with its own block, the blocks before those being
\* the verified ones; the epoch of the parent is stored (the expect of next_epoch_ext).
ForkIsExact ==
  \A b \in NonGenesis : (Sent(b) /\ ToVerify(b)) =>
    /\ Parent[b] \in db.blockEpoch /\ Epoch[Parent[b]] \in db.epochs
    /\ NewBestBlock(b) =>
         LET fork == ForkOf(b)
             common == LastCommon(snapshot.tip, b)
         IN  /\ fork.found
             /\ fork.attached = PathAbove(b, common)
             /\ fork.detached = PathAbove(snapshot.tip, common)
             /\ fork.dirty = SubSeq(fork.attached, VerifiedLen(fork) + 1, Len(fork.attached))
             /\ \A i \in DOMAIN fork.attached :
                  i <= VerifiedLen(fork) <=> db.ext[fork.attached[i]] = "verified"

\* The tip and the proposals of the snapshot in memory are the ones a restart would build
\* from the database, however the proposal table was trimmed, rolled back and reloaded.
RestartIsInvisible == [snapshot EXCEPT !.epoch = db.epoch] = InitSnapshot(db)

\* The current epoch of the database and of the snapshot is the epoch of the tip: a reorg
\* writes it whenever it leaves an epoch or enters one.
CurrentEpochIsTheTips == db.epoch = Epoch[db.tip] /\ snapshot.epoch = Epoch[db.tip]

\* The epoch get_current_epoch returns is the highest one of the canonical chain.
GetCurrentEpoch == snapshot.epoch = Epoch[snapshot.tip]

\* The proposals a snapshot offers for the next block are exactly the ids that the two-phase
\* commit check would accept in a child of the tip.
ProposedIsCommittable == snapshot.view.set = CommittableIds(db, Number[db.tip] + 1)

\* A block is marked invalid only if its chain does not pass verification, unless a database
\* error dropped one of its ancestors while it was waiting.
InvalidIsJustified ==
  \A b \in invalid : ~IsValid[b] \/ (Chain[b] \ {b}) \cap lost # {}

\* Without the truncate RPC the chain component implements the fork choice rule.
Choice == INSTANCE ForkChoice WITH
  Valid <- {b \in Block : IsValid[b]}, tip <- db.tip, known <- {b \in Block : db.ext[b] # None}
ImplementsForkChoice == Choice!Spec

\* A valid block with its whole chain stored weighs more than the tip.
Behind == \E v \in NonGenesis : /\ TotalDifficulty[db.tip] < TotalDifficulty[v]
                                /\ Chain[v] \subseteq db.stored
                                /\ IsValid[v]

\* The main chain always catches up with the heaviest valid chain in the store, whatever the
\* order in which blocks arrive and however often the node restarts.
HeaviestEventually == []<>~Behind
=============================================================================
