-------------------------- MODULE ForkChoiceProofs --------------------------
(***************************************************************************)
(* The fork choice rule, for every tree of blocks and all difficulties:    *)
(* HeaviestTip is inductive, and the validity of the main chain and the    *)
(* monotonicity of its weight follow from it.                              *)
(***************************************************************************)
EXTENDS ForkChoice, TLAPS

Inv == TypeOK /\ HeaviestTip

LEMMA InitInv == Init => Inv
  BY BlockTreeAssumption, DifficultyAssumption, ValidAssumption
     DEF Init, Inv, TypeOK, HeaviestTip, NonGenesis

\* Neither accepting a lighter block nor switching to a heavier one disturbs Inv.
LEMMA NextInv == Inv /\ [Next]_fcVars => Inv'
<1> USE BlockTreeAssumption, DifficultyAssumption, ValidAssumption DEF NonGenesis, TypeOK
<1> SUFFICES ASSUME Inv, [Next]_fcVars PROVE Inv'
  OBVIOUS
<1>1. CASE UNCHANGED fcVars
  BY <1>1 DEF Inv, HeaviestTip, fcVars
<1>2. ASSUME NEW b \in NonGenesis, Record(b) PROVE Inv'
  BY <1>2 DEF Inv, HeaviestTip, Record
<1>3. ASSUME NEW b \in NonGenesis, Switch(b) PROVE Inv'
  <2>1. TypeOK'
    BY <1>3 DEF Inv, Switch
  <2>2. tip' \in known' \cap Valid
    BY <1>3 DEF Switch
  <2>3. \A c \in known' : TotalDifficulty[c] <= TotalDifficulty[tip']
    <3> SUFFICES ASSUME NEW c \in known, c # b PROVE TotalDifficulty[c] <= TotalDifficulty[b]
      BY <1>3 DEF Switch
    <3>1. TotalDifficulty[c] <= TotalDifficulty[tip] /\ TotalDifficulty[tip] < TotalDifficulty[b]
      BY <1>3 DEF Inv, HeaviestTip, Switch
    <3>2. TotalDifficulty[c] \in Nat /\ TotalDifficulty[tip] \in Nat /\ TotalDifficulty[b] \in Nat
      BY <1>3 DEF Inv
    <3> QED BY <3>1, <3>2
  <2>4. \A c \in known' \ {Genesis} : Parent[c] \in known'
    BY <1>3 DEF Inv, HeaviestTip, Switch
  <2> QED BY <2>1, <2>2, <2>3, <2>4 DEF Inv, HeaviestTip
<1> QED BY <1>1, <1>2, <1>3 DEF Next

\* The tip is always the heaviest accepted block, and valid: the total difficulty comparison
\* of verify_block never leaves the main chain behind an accepted branch.
THEOREM TipIsHeaviest == Spec => []HeaviestTip
<1>1. Inv => HeaviestTip
  BY DEF Inv
<1> QED BY InitInv, NextInv, <1>1, PTL DEF Spec

\* Every block of the main chain has been accepted and is valid, not only the tip.
THEOREM MainChainAlwaysValid == Spec => []MainChainValid
<1>1. Inv => MainChainValid
  <2> SUFFICES ASSUME Inv PROVE Chain[tip] \subseteq known \cap Valid
    BY DEF MainChainValid
  <2>1. AncestorClosed(known \cap Valid)
    BY ValidAssumption DEF Inv, HeaviestTip, AncestorClosed
  <2>2. known \cap Valid \in SUBSET Block /\ tip \in known \cap Valid /\ tip \in Block
    BY ValidAssumption DEF Inv, HeaviestTip, TypeOK
  <2> QED BY <2>1, <2>2 DEF Chain
<1> QED BY InitInv, NextInv, <1>1, PTL DEF Spec

\* The total difficulty of the tip never decreases, whatever blocks arrive.
THEOREM TipNeverLighter == Spec => NeverLighter
<1>1. Inv /\ [Next]_fcVars => [TotalDifficulty[tip] <= TotalDifficulty[tip']]_fcVars
  <2> SUFFICES ASSUME Inv, Next PROVE TotalDifficulty[tip] <= TotalDifficulty[tip']
    OBVIOUS
  <2>1. PICK b \in NonGenesis : Record(b) \/ Switch(b)
    BY DEF Next
  <2>2. TotalDifficulty[tip] \in Nat /\ TotalDifficulty[b] \in Nat
    BY DifficultyAssumption DEF Inv, TypeOK, NonGenesis
  <2> QED BY <2>1, <2>2 DEF Record, Switch
<1> QED BY InitInv, NextInv, <1>1, PTL DEF Spec, NeverLighter
=============================================================================
