----------------------------- MODULE ChainStore -----------------------------
(***************************************************************************)
(* The chain database as the columns that describe the main chain, and the *)
(* operations a StoreTransaction performs on them.  A transaction is a     *)
(* chain of these operations on a copy of the record; committing it makes  *)
(* the copy the database, dropping it leaves the database as it was.       *)
(*                                                                         *)
(* A transaction of the ledger has one output, the cell named after it.    *)
(* Txs lists the transactions after the cellbase; the cellbase creates no  *)
(* cell that another block of the model spends and is left out.            *)
(***************************************************************************)
EXTENDS BlockTree, Sequences, SequencesExt

CONSTANTS
  Tx,          \* ledger transactions, each also the cell it creates
  Inputs,      \* the cells a transaction spends
  CellDeps,    \* the cells it only reads
  HeaderDeps,  \* the blocks whose headers it reads
  Txs,         \* the transactions of a block, in order
  Uncles,      \* the uncles of a block, in order
  Epoch,       \* the last block before the block's epoch, which keys the epoch
  None         \* an absent value; the key of the genesis epoch

ASSUME ChainStoreAssumption ==
  /\ Inputs \in [Tx -> SUBSET Tx]
  /\ CellDeps \in [Tx -> SUBSET Tx]
  /\ HeaderDeps \in [Tx -> SUBSET Block]
  /\ Txs \in [Block -> Seq(Tx)]
  /\ Uncles \in [Block -> Seq(NonGenesis)]
  /\ Epoch \in [Block -> Block \cup {None}]
  /\ Epoch[Genesis] = None
  /\ \A b \in NonGenesis : Epoch[b] \in {Epoch[Parent[b]], Parent[b]}
  /\ None \notin Block \cup Tx

\* What the checks made before a block is stored guarantee: no transaction twice
\* in a block, and no transaction without inputs outside the genesis.
ASSUME BlockBodyAssumption ==
  \A b \in NonGenesis :
    /\ \A i, j \in DOMAIN Txs[b] : Txs[b][i] = Txs[b][j] => i = j
    /\ \A i \in DOMAIN Txs[b] : Inputs[Txs[b][i]] # {}

TxSet(b) == ToSet(Txs[b])
UncleSet(b) == ToSet(Uncles[b])
SpentBy(b) == UNION {Inputs[t] : t \in TxSet(b)}
Numbers == {Number[b] : b \in Block}

\* NextBlockEpoch::is_head
NewEpoch(b) == Epoch[b] = Parent[b]

\* COLUMN_INDEX has two kinds of keys: numbers (byNumber) and hashes (byHash).
\* ext is COLUMN_BLOCK_EXT reduced to its `verified` flag: None when there is no
\* row, "unverified" for verified: None, "verified" and "failed" for Some(_).
\* blockEpoch holds the blocks with a COLUMN_BLOCK_EPOCH row (its value is Epoch[b])
\* and epochs the keys of COLUMN_EPOCH.
Database ==
  [stored   : SUBSET Block,
   ext      : [Block -> {None, "unverified", "verified", "failed"}],
   byNumber : [Numbers -> Block \cup {None}],
   byHash   : SUBSET Block,
   txInfo   : [Tx -> Block \cup {None}],
   cells    : [Tx -> Block \cup {None}],
   uncles   : SUBSET Block,
   blockEpoch : SUBSET Block,
   epochs   : SUBSET (Block \cup {None}),
   tip      : Block,
   epoch    : Block \cup {None}]

-----------------------------------------------------------------------------
\* StoreTransaction::attach_block
AttachBlock(db, b) ==
  [db EXCEPT !.byNumber[Number[b]] = b,
             !.byHash = @ \cup {b},
             !.txInfo = [t \in Tx |-> IF t \in TxSet(b) THEN b ELSE @[t]],
             !.uncles = @ \cup UncleSet(b)]

\* The bug of leaving the uncles of a detached block in COLUMN_UNCLES.
DetachBlockKeepsUncles(db, b) ==
  [db EXCEPT !.byNumber[Number[b]] = None,
             !.byHash = @ \ {b},
             !.txInfo = [t \in Tx |-> IF t \in TxSet(b) THEN None ELSE @[t]]]

\* StoreTransaction::detach_block
DetachBlock(db, b) ==
  [db EXCEPT !.byNumber[Number[b]] = None,
             !.byHash = @ \ {b},
             !.txInfo = [t \in Tx |-> IF t \in TxSet(b) THEN None ELSE @[t]],
             !.uncles = @ \ UncleSet(b)]

\* attach_block_cell: all outputs of the block are inserted before any input is
\* deleted, so a cell created and spent in the block ends up dead.
AttachCells(db, b) ==
  [db EXCEPT !.cells =
     [t \in Tx |-> CASE t \in SpentBy(b) -> None
                     [] t \in TxSet(b) \ SpentBy(b) -> b
                     [] OTHER -> @[t]]]

\* detach_block_cell: an input comes back if its creating transaction is still
\* indexed, then the outputs of the block are deleted.
DetachCells(db, b) ==
  [db EXCEPT !.cells =
     [t \in Tx |-> CASE t \in TxSet(b) -> None
                     [] t \in SpentBy(b) \ TxSet(b) /\ db.txInfo[t] # None -> db.txInfo[t]
                     [] OTHER -> @[t]]]

Attach(db, b) == AttachCells(AttachBlock(db, b), b)

\* ConsumeUnverifiedBlockProcessor::rollback, for one block
Detach(db, b) == DetachCells(DetachBlock(db, b), b)

\* rollback goes through the detached blocks from the tip downwards.
Rollback(db, detached) == FoldRight(LAMBDA b, s : Detach(s, b), detached, db)

\* ChainDB::init: the genesis block, attached and verified.
EmptyDatabase ==
  [stored   |-> {Genesis},
   ext      |-> [b \in Block |-> IF b = Genesis THEN "verified" ELSE None],
   byNumber |-> [n \in Numbers |-> None],
   byHash   |-> {},
   txInfo   |-> [t \in Tx |-> None],
   cells    |-> [t \in Tx |-> None],
   uncles   |-> {},
   blockEpoch |-> {Genesis},
   epochs   |-> {None},
   tip      |-> Genesis,
   epoch    |-> None]

GenesisDatabase == Attach(EmptyDatabase, Genesis)

-----------------------------------------------------------------------------
\* The path from the genesis (exclusive) to b.
PathTo(b) == [n \in 1..Number[b] |-> AncestorAt(b, n)]

\* The columns that a chain with tip b has when it is attached block by block
\* from the genesis.
Replayed == [b \in Block |-> FoldLeft(Attach, GenesisDatabase, PathTo(b))]
=============================================================================
