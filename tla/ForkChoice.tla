----------------------------- MODULE ForkChoice -----------------------------
(***************************************************************************)
(* What the chain component promises about the choice of the main chain,   *)
(* without its store: the tip only ever moves to a block of strictly       *)
(* greater total difficulty whose whole chain is valid, and every block    *)
(* that has been accepted weighs at most as much as the tip.               *)
(***************************************************************************)
EXTENDS BlockTree

CONSTANTS
  TotalDifficulty,  \* BlockExt::total_difficulty, the sum along the chain
  Valid             \* the blocks that pass verification, with all their ancestors

ASSUME DifficultyAssumption ==
  /\ TotalDifficulty \in [Block -> Nat]
  /\ \A b \in NonGenesis : TotalDifficulty[Parent[b]] < TotalDifficulty[b]

ASSUME ValidAssumption ==
  /\ Genesis \in Valid /\ Valid \subseteq Block
  /\ \A b \in Valid \ {Genesis} : Parent[b] \in Valid

VARIABLES
  tip,   \* the tip of the main chain
  known  \* the blocks that have a BlockExt

fcVars == <<tip, known>>

Init == tip = Genesis /\ known = {Genesis}

\* The bug of recording a heavier block as if it lost the comparison.
RecordAny(b) ==
  /\ Parent[b] \in known
  /\ known' = known \cup {b}
  /\ UNCHANGED tip

\* A block that is not heavier than the tip is recorded without being verified.
Record(b) ==
  /\ Parent[b] \in known
  /\ TotalDifficulty[b] <= TotalDifficulty[tip]
  /\ known' = known \cup {b}
  /\ UNCHANGED tip

\* The bug of following a block that has not been verified.
SwitchUnverified(b) ==
  /\ Parent[b] \in known
  /\ TotalDifficulty[tip] < TotalDifficulty[b]
  /\ tip' = b
  /\ known' = known \cup {b}

\* The bug of following any new valid block.
SwitchToLatest(b) ==
  /\ Parent[b] \in known
  /\ b \in Valid
  /\ tip' = b
  /\ known' = known \cup {b}

\* A heavier block whose chain is valid becomes the tip.
Switch(b) ==
  /\ Parent[b] \in known
  /\ TotalDifficulty[tip] < TotalDifficulty[b]
  /\ b \in Valid
  /\ tip' = b
  /\ known' = known \cup {b}

Next == \E b \in NonGenesis : Record(b) \/ Switch(b)

Spec == Init /\ [][Next]_fcVars

-----------------------------------------------------------------------------
TypeOK == tip \in Block /\ known \subseteq Block

\* The tip is the heaviest of the accepted blocks, its chain is valid, and no block is
\* accepted before its parent: is_better_than decides every change of the tip.
HeaviestTip ==
  /\ tip \in known \cap Valid
  /\ \A b \in known : TotalDifficulty[b] <= TotalDifficulty[tip]
  /\ \A b \in known \ {Genesis} : Parent[b] \in known

\* The main chain is a chain of accepted, valid blocks.
MainChainValid == Chain[tip] \subseteq known \cap Valid

\* No step of the chain component makes the main chain lighter.
NeverLighter == [][TotalDifficulty[tip] <= TotalDifficulty[tip']]_fcVars
=============================================================================
