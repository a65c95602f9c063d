CONSTANTS
  g = g  a1 = a1  a2 = a2  a3 = a3  a4 = a4  b1 = b1  b2 = b2  b3 = b3
  c3 = c3  c4 = c4  d4 = d4  e2 = e2
  t0 = t0  t1 = t1  t2 = t2  t3 = t3  none = none
  BlockSet = {g, a1, a2, a3, a4, b1, c3}
  Block = {g, a1, a2, a3, a4, b1, c3}
  Genesis = g
  None = none
  Parent <- MCParent
  TotalDifficulty <- MCTotalDifficulty
  Tx <- MCTx
  Inputs <- MCInputs
  CellDeps <- MCCellDeps
  HeaderDeps <- MCHeaderDeps
  Txs <- MCTxs
  Proposals <- MCProposals
  Uncles <- MCUncles
  Epoch <- MCEpoch
  Bad = {}
  MaxUnclesNum = 2
  Closest = 2
  Farthest = 3
  AllowTruncate = TRUE
  MaxDbErrors = 1
SPECIFICATION Spec
INVARIANTS
  MainChainColumns
  VerifiedIsValid
  RestartIsInvisible
  ProposedIsCommittable
  InvalidIsJustified
