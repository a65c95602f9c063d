------------------------ MODULE ChainPipelineProofs ------------------------
(***************************************************************************)
(* The threads of the chain component, for every tree of blocks, every     *)
(* length of the channels and any number of crashes: the types, the marks  *)
(* in is_pending_verify, and that all the threads together implement the   *)
(* fork choice rule.                                                       *)
(***************************************************************************)
EXTENDS ChainPipeline, FiniteSetTheorems, SequenceTheorems, TLAPS

\* Where the two threads are in their code says which of their locals are set.
ServiceOK(s) ==
  /\ s \in [pc : {"idle", "route", "send", "publish", "search", "leader"},
            block : Block \cup {None}, parentPending : BOOLEAN,
            work : Seq(NonGenesis), leaders : SUBSET Block]
  /\ s.pc = "route" => s.block \in NonGenesis
  /\ s.pc = "leader" => s.block \in Block
  /\ s.pc \in {"send", "publish"} => s.work # <<>>

VerifierOK(v) ==
  /\ v \in [pc : {"idle", "verified", "rejected", "done"}, block : NonGenesis \cup {None}]
  /\ v.pc = "idle" <=> v.block = None

TypeInv == TypeOK /\ ServiceOK(service) /\ VerifierOK(verifier)

LEMMA IdleOK == ServiceOK(ServiceIdle) /\ VerifierOK(VerifierIdle)
  BY DEF ServiceOK, ServiceIdle, VerifierOK, VerifierIdle

LEMMA SearchOK ==
  ASSUME NEW leaders \in SUBSET Block
  PROVE  ServiceOK(Search(leaders))
<1>1. CASE leaders = {}
  BY <1>1, IdleOK DEF Search
<1>2. CASE leaders # {}
  <2>1. Search(leaders) = [pc |-> "search", block |-> None, parentPending |-> FALSE,
                           work |-> <<>>, leaders |-> leaders]
    BY <1>2, Zenon DEF Search, ServiceIdle
  <2> QED BY <2>1 DEF ServiceOK
<1> QED BY <1>1, <1>2

LEMMA AcceptOK ==
  ASSUME NEW leaders \in SUBSET Block, NEW work \in Seq(NonGenesis)
  PROVE  ServiceOK(Accept(work, leaders))
  BY SearchOK, Zenon DEF Accept, ServiceOK, ServiceIdle

LEMMA DescendantsType ==
  ASSUME NEW l, NEW S, NEW work \in Descendants(Pool!Above(l, S))
  PROVE  work \in Seq(NonGenesis)
<1>1. Pool!Above(l, S) \subseteq NonGenesis
  BY DEF Pool!Above, Pool!NonGenesis, NonGenesis
<1>2. IsFiniteSet(Pool!Above(l, S))
  BY <1>1, PipelineAssumption, FS_Subset DEF NonGenesis
<1>3. Cardinality(Pool!Above(l, S)) \in Nat
  BY <1>2, FS_CardinalityType
<1>4. work \in [1..Cardinality(Pool!Above(l, S)) -> Pool!Above(l, S)]
  BY DEF Descendants
<1> QED BY <1>1, <1>3, <1>4

LEMMA AwaitedType ==
  ASSUME NEW S \in SUBSET NonGenesis
  PROVE  Pool!Awaited(S) \subseteq Block
  BY BlockTreeAssumption DEF Pool!Awaited

LEMMA AcceptDescendantsOK ==
  ASSUME NEW l, NEW leaders \in SUBSET Block, AcceptDescendants(l, leaders), orphans \subseteq NonGenesis
  PROVE  ServiceOK(service') /\ orphans' \subseteq NonGenesis
<1>1. PICK work \in Descendants(Pool!Above(l, orphans)) : service' = Accept(work, leaders)
  BY DEF AcceptDescendants
<1>2. ServiceOK(service')
  BY <1>1, DescendantsType, AcceptOK
<1> QED BY <1>2 DEF AcceptDescendants

LEMMA InitTypeInv == Init => TypeInv
<1> SUFFICES ASSUME Init PROVE TypeInv
  OBVIOUS
<1>1. ServiceOK(service) /\ VerifierOK(verifier)
  BY IdleOK DEF Init
<1>2. TypeOK
  BY <1>1, BlockTreeAssumption DEF Init, TypeOK, ServiceOK, VerifierOK, NonGenesis
<1> QED BY <1>1, <1>2 DEF TypeInv

-----------------------------------------------------------------------------
\* What the actions that deliver a block or a header do to the types.
LEMMA DeliveryTypeInv ==
  ASSUME TypeInv, NEW b \in NonGenesis,
         SubmitBlock(b) \/ SyncBlock(b) \/ RelayBlock(b) \/ CheckHeader(b) \/ LoadUnverified(b)
  PROVE  TypeInv'
<1> USE DEF TypeInv, TypeOK, NonGenesis, disk, queues
<1>1. CASE SubmitBlock(b)
  BY <1>1 DEF SubmitBlock, Send
<1>2. CASE SyncBlock(b)
  BY <1>2 DEF SyncBlock, Send, MarkReceived
<1>3. CASE RelayBlock(b)
  BY <1>3 DEF RelayBlock, Send, MarkReceived
<1>4. CASE CheckHeader(b)
  BY <1>4 DEF CheckHeader
<1>5. CASE LoadUnverified(b)
  BY <1>5 DEF LoadUnverified, Send
<1> QED BY <1>1, <1>2, <1>3, <1>4, <1>5, Zenon

\* The steps of ChainService.
LEMMA ServiceTypeInv == TypeInv /\ Service => TypeInv'
<1> SUFFICES ASSUME TypeInv, Service PROVE TypeInv'
  OBVIOUS
<1> USE DEF TypeInv, disk, queues
<1>1. CASE RejectBlock
  BY <1>1, PipelineAssumption DEF RejectBlock, TypeOK
<1>2. CASE TakeBlock
  <2>1. Head(inbox) \in NonGenesis /\ inbox' \in Seq(NonGenesis)
    BY <1>2 DEF TakeBlock, TypeOK
  <2>2. service' = [pc |-> "route", block |-> Head(inbox),
                    parentPending |-> (Parent[Head(inbox)] \in pending), work |-> <<>>, leaders |-> {}]
    BY <1>2, Zenon DEF TakeBlock, ServiceIdle
  <2>3. ServiceOK(service')
    BY <2>1, <2>2 DEF ServiceOK, NonGenesis
  <2> QED BY <1>2, <2>1, <2>3 DEF TakeBlock, TypeOK, ServiceOK, NonGenesis
<1>3. CASE Route
  <2>1. service.block \in NonGenesis
    BY <1>3 DEF Route, ServiceOK
  <2>2. orphans' \subseteq NonGenesis
    BY <1>3, <2>1 DEF Route, TypeOK
  <2>3. ServiceOK(service')
    <3>1. Pool!Awaited(orphans) \in SUBSET Block /\ Pool!Awaited(orphans') \in SUBSET Block
      BY <2>2, AwaitedType, Zenon DEF TypeOK
    <3>2. <<service.block>> \in Seq(NonGenesis)
      BY <2>1
    <3>3. service' \in {Accept(<<service.block>>, Pool!Awaited(orphans)),
                       Search(Pool!Awaited(orphans)), Search(Pool!Awaited(orphans'))}
      BY <1>3 DEF Route
    <3> QED BY <3>1, <3>2, <3>3, AcceptOK, SearchOK, Zenon
  <2>4. stored' \subseteq Block /\ cached' \subseteq Block
        /\ status' \in [Block -> {None, "received", "invalid"}]
    BY <1>3, <2>1 DEF Route, ProcessInvalid, TypeOK, NonGenesis
  <2> QED BY <1>3, <2>2, <2>3, <2>4 DEF Route, TypeOK, ServiceOK
<1>4. CASE SendUnverified
  <2>1. Head(service.work) \in NonGenesis
    BY <1>4 DEF SendUnverified, ServiceOK
  <2>2. ServiceOK(service')
    BY <1>4 DEF SendUnverified, ServiceOK
  <2>3. loadQ' \in Seq(NonGenesis) /\ pending' \subseteq NonGenesis
    BY <1>4, <2>1 DEF SendUnverified, TypeOK
  <2> QED BY <1>4, <2>2, <2>3, Zenon DEF SendUnverified, TypeOK, ServiceOK
<1>5. CASE PublishUnverifiedTip
  <2>1. Head(service.work) \in NonGenesis /\ Tail(service.work) \in Seq(NonGenesis)
        /\ service.leaders \in SUBSET Block
    BY <1>5 DEF PublishUnverifiedTip, ServiceOK
  <2>2. ServiceOK(service')
    BY <1>5, <2>1, AcceptOK, Zenon DEF PublishUnverifiedTip
  <2>3. candidate' \in Block
    BY <1>5, <2>1 DEF PublishUnverifiedTip, TypeOK, NonGenesis
  <2> QED BY <1>5, <2>2, <2>3 DEF PublishUnverifiedTip, TypeOK, ServiceOK
<1>6. CASE SearchPending
  <2>1. service.leaders \ {service.block} \in SUBSET Block
    BY DEF ServiceOK
  <2>2. ServiceOK(service') /\ orphans' \subseteq NonGenesis
    <3>1. CASE AcceptDescendants(service.block, service.leaders \ {service.block})
      BY <3>1, <2>1, AcceptDescendantsOK, Zenon DEF TypeOK
    <3>2. CASE service' = Search(service.leaders \ {service.block}) /\ UNCHANGED orphans
      BY <3>2, <2>1, SearchOK DEF TypeOK
    <3> QED BY <1>6, <3>1, <3>2 DEF SearchPending
  <2> QED BY <1>6, <2>2 DEF SearchPending, TypeOK, ServiceOK
<1>7. ASSUME NEW l \in Block, SearchLeader(l) PROVE TypeInv'
  <2>1. service.leaders \ {l} \in SUBSET Block
    BY DEF ServiceOK
  <2>2. ServiceOK(service') /\ orphans' \subseteq NonGenesis
    <3>1. CASE service' = [service EXCEPT !.pc = "leader", !.block = l] /\ UNCHANGED orphans
      <4>1. service' = [pc |-> "leader", block |-> l, parentPending |-> service.parentPending,
                        work |-> service.work, leaders |-> service.leaders]
        BY <3>1, Zenon DEF ServiceOK
      <4> QED BY <3>1, <4>1 DEF ServiceOK, TypeOK
    <3>2. CASE service' = Search(service.leaders \ {l}) /\ orphans' = orphans \ Pool!Above(l, orphans)
      BY <3>2, <2>1, SearchOK DEF TypeOK
    <3>3. CASE AcceptDescendants(l, service.leaders \ {l})
      BY <3>3, <2>1, AcceptDescendantsOK DEF TypeOK
    <3> QED BY <1>7, <3>1, <3>2, <3>3 DEF SearchLeader
  <2>3. stored' \subseteq Block /\ cached' \subseteq Block
        /\ status' \in [Block -> {None, "received", "invalid"}]
    <3>1. Pool!Above(l, orphans) \subseteq Block
      BY DEF Pool!Above, Pool!NonGenesis
    <3> QED BY <1>7, <3>1 DEF SearchLeader, ProcessInvalid, TypeOK
  <2> QED BY <1>7, <2>2, <2>3 DEF SearchLeader, TypeOK, ServiceOK
<1> QED BY <1>1, <1>2, <1>3, <1>4, <1>5, <1>6, <1>7 DEF Service

\* The steps of ConsumeUnverifiedBlocks.
LEMMA VerifierTypeInv == TypeInv /\ Verifier => TypeInv'
<1> SUFFICES ASSUME TypeInv, Verifier PROVE TypeInv'
  OBVIOUS
<1> USE PipelineAssumption DEF TypeInv, disk, queues
<1>1. CASE VerifyBlock
  <2> DEFINE b == Head(verifyQ).block
  <2>1. b \in NonGenesis /\ verifyQ' \in Seq([block : NonGenesis, hollow : BOOLEAN])
    <3>1. verifyQ # <<>> /\ verifyQ' = Tail(verifyQ)
      BY <1>1 DEF VerifyBlock
    <3>2. verifyQ \in Seq([block : NonGenesis, hollow : BOOLEAN])
      BY DEF TypeOK
    <3>3. Head(verifyQ) \in [block : NonGenesis, hollow : BOOLEAN]
      BY <3>1, <3>2, HeadTailProperties, Zenon
    <3> QED BY <3>1, <3>2, <3>3
  <2>2. b # None
    BY <2>1 DEF NonGenesis
  <2>3. VerifierOK(verifier')
    <3>1. PICK pc \in {"verified", "rejected", "done"} : verifier' = [pc |-> pc, block |-> b]
      BY <1>1, Zenon DEF VerifyBlock, Verified, Rejected
    <3> HIDE DEF b
    <3> QED BY <3>1, <2>1, <2>2 DEF VerifierOK
  <2>4. ext' \in [Block -> {None, "unverified", "verified"}] /\ tip' \in Block /\ candidate' \in Block
    <3>1. /\ \/ ext' = ext
             \/ ext' = [ext EXCEPT ![b] = "unverified"]
             \/ ext' = [a \in Block |-> IF a \in Chain[b] THEN "verified" ELSE ext[a]]
          /\ tip' = tip \/ tip' = b
          /\ candidate' = candidate \/ candidate' = tip
      BY <1>1, Zenon DEF VerifyBlock
    <3>2. b \in Block /\ ext \in [Block -> {None, "unverified", "verified"}]
          /\ tip \in Block /\ candidate \in Block
      BY <2>1, Zenon DEF TypeOK, NonGenesis
    <3> HIDE DEF b
    <3> QED BY <3>1, <3>2
  <2> QED BY <1>1, <2>1, <2>3, <2>4 DEF VerifyBlock, TypeOK, VerifierOK
<1>2. CASE Unmark
  BY <1>2, Zenon DEF Unmark, TypeOK, VerifierOK
<1>3. CASE MarkInvalid
  <2>1. verifier.block \in Block /\ VerifierOK(verifier')
    BY <1>3 DEF MarkInvalid, VerifierOK, NonGenesis
  <2>2. stored' \subseteq Block /\ cached' \subseteq Block
        /\ status' \in [Block -> {None, "received", "invalid"}]
    BY <1>3, <2>1 DEF MarkInvalid, TypeOK
  <2> QED BY <1>3, <2>1, <2>2 DEF MarkInvalid, TypeOK, VerifierOK
<1>4. CASE RemovePending
  BY <1>4, IdleOK DEF RemovePending, TypeOK, VerifierOK
<1> QED BY <1>1, <1>2, <1>3, <1>4 DEF Verifier

LEMMA NextTypeInv == TypeInv /\ [Next]_vars => TypeInv'
<1> SUFFICES ASSUME TypeInv, [Next]_vars PROVE TypeInv'
  OBVIOUS
<1> USE DEF TypeInv, disk, queues
<1>1. CASE UNCHANGED vars
  BY <1>1 DEF vars, TypeOK
<1>2. CASE InsertValidHeader
  BY <1>2 DEF InsertValidHeader, TypeOK
<1>3. CASE Preload
  <2>1. Head(loadQ) \in NonGenesis /\ loadQ' \in Seq(NonGenesis)
    BY <1>3 DEF Preload, TypeOK
  <2>2. verifyQ' \in Seq([block : NonGenesis, hollow : BOOLEAN])
    BY <1>3, <2>1 DEF Preload, TypeOK
  <2>3. cached' \subseteq Block
    BY <1>3, <2>1, BlockTreeAssumption DEF Preload, TypeOK, NonGenesis
  <2> QED BY <1>3, <2>1, <2>2, <2>3 DEF Preload, TypeOK
<1>4. CASE ScanNumber
  BY <1>4 DEF ScanNumber, TypeOK
<1>5. ASSUME NEW P \in SUBSET Pool!Awaited(orphans), CleanExpiredOrphans(P) PROVE TypeInv'
  <2>1. UNION {Pool!Above(p, orphans) : p \in P} \subseteq Block
    BY DEF Pool!Above, Pool!NonGenesis
  <2> QED BY <1>5, <2>1 DEF CleanExpiredOrphans, TypeOK
<1>6. CASE Crash
  BY <1>6, IdleOK DEF Crash, TypeOK, ServiceOK, VerifierOK
<1> QED
  BY <1>1, <1>2, <1>3, <1>4, <1>5, <1>6, DeliveryTypeInv, ServiceTypeInv, VerifierTypeInv
     DEF Next, InitLoad

\* Every field of the shared state, the channels and the two threads keeps its type, whatever the
\* interleaving of the threads and the crashes.
THEOREM PipelineTypeCorrect == Spec => []TypeOK
<1>1. TypeInv => TypeOK
  BY DEF TypeInv
<1> QED BY InitTypeInv, NextTypeInv, <1>1, PTL DEF Spec

-----------------------------------------------------------------------------
\* The members of a channel, and what Append and Tail do to them.
Carried(q) == {q[i].block : i \in DOMAIN q}

LEMMA ToSetAppend ==
  ASSUME NEW S, NEW q \in Seq(S), NEW x \in S
  PROVE  ToSet(q) \cup {x} \subseteq ToSet(Append(q, x))
<1>1. DOMAIN q = 1..Len(q) /\ DOMAIN Append(q, x) = 1..Len(q) + 1 /\ Len(q) \in Nat
  OBVIOUS
<1>2. \A i \in DOMAIN q : i \in DOMAIN Append(q, x) /\ Append(q, x)[i] = q[i]
  BY <1>1
<1>3. Len(q) + 1 \in DOMAIN Append(q, x) /\ Append(q, x)[Len(q) + 1] = x
  BY <1>1
<1> QED BY <1>2, <1>3, Zenon DEF ToSet

LEMMA ToSetTail ==
  ASSUME NEW S, NEW q \in Seq(S), q # <<>>
  PROVE  ToSet(q) \subseteq {Head(q)} \cup ToSet(Tail(q))
<1> SUFFICES ASSUME NEW i \in DOMAIN q, q[i] # Head(q)
             PROVE  \E j \in DOMAIN Tail(q) : Tail(q)[j] = q[i]
  BY Zenon DEF ToSet
<1>1. i \in 2..Len(q) /\ DOMAIN Tail(q) = 1..Len(q) - 1
  OBVIOUS
<1>2. i - 1 \in DOMAIN Tail(q) /\ Tail(q)[i - 1] = q[i]
  BY <1>1
<1> QED BY <1>2

LEMMA CarriedAppend ==
  ASSUME NEW S, NEW q \in Seq(S), NEW x \in S
  PROVE  Carried(q) \cup {x.block} \subseteq Carried(Append(q, x))
<1>1. DOMAIN q = 1..Len(q) /\ DOMAIN Append(q, x) = 1..Len(q) + 1 /\ Len(q) \in Nat
  OBVIOUS
<1>2. \A i \in DOMAIN q : i \in DOMAIN Append(q, x) /\ Append(q, x)[i] = q[i]
  BY <1>1
<1>3. Len(q) + 1 \in DOMAIN Append(q, x) /\ Append(q, x)[Len(q) + 1] = x
  BY <1>1
<1> QED BY <1>2, <1>3, Zenon DEF Carried

LEMMA CarriedTail ==
  ASSUME NEW S, NEW q \in Seq(S), q # <<>>
  PROVE  Carried(q) \subseteq {Head(q).block} \cup Carried(Tail(q))
<1> SUFFICES ASSUME NEW i \in DOMAIN q, q[i].block # Head(q).block
             PROVE  \E j \in DOMAIN Tail(q) : Tail(q)[j] = q[i]
  BY Zenon DEF Carried
<1>1. Head(q) = q[1]
  OBVIOUS
<1>2. i # 1
  BY <1>1, Zenon
<1>3. i \in 2..Len(q) /\ DOMAIN Tail(q) = 1..Len(q) - 1
  BY <1>2
<1>4. i - 1 \in DOMAIN Tail(q) /\ Tail(q)[i - 1] = q[i]
  BY <1>3
<1> QED BY <1>4

PendingInv == TypeInv /\ PendingIsQueued

LEMMA NextPendingInv == PendingInv /\ [Next]_vars => PendingInv'
<1> SUFFICES ASSUME PendingInv, [Next]_vars PROVE PendingInv'
  OBVIOUS
<1>t. TypeInv /\ TypeInv'
  BY NextTypeInv DEF PendingInv
<1>p. pending \subseteq ToSet(loadQ) \cup Carried(verifyQ) \cup {verifier.block}
  BY DEF PendingInv, PendingIsQueued, Queued, Carried
<1> SUFFICES pending' \subseteq ToSet(loadQ') \cup Carried(verifyQ') \cup {verifier'.block}
  BY <1>t DEF PendingInv, PendingIsQueued, Queued, Carried
<1>1. CASE UNCHANGED <<pending, loadQ, verifyQ, verifier>>
  BY <1>1, <1>p
<1>2. CASE SendUnverified
  <2>1. Head(service.work) \in NonGenesis /\ loadQ \in Seq(NonGenesis)
    BY <1>2, <1>t DEF SendUnverified, TypeInv, ServiceOK, TypeOK
  <2>2. ToSet(loadQ) \cup {Head(service.work)} \subseteq ToSet(loadQ')
    BY <1>2, <2>1, ToSetAppend DEF SendUnverified
  <2> QED BY <1>2, <1>p, <2>2 DEF SendUnverified
<1>3. CASE Preload
  <2> DEFINE x == [block |-> Head(loadQ), hollow |-> Head(loadQ) \notin stored]
  <2>1. loadQ \in Seq(NonGenesis) /\ loadQ # <<>> /\ Head(loadQ) \in NonGenesis
    BY <1>3, <1>t DEF Preload, TypeInv, TypeOK
  <2>2. x \in [block : NonGenesis, hollow : BOOLEAN] /\ x.block = Head(loadQ)
    BY <2>1
  <2>3. verifyQ \in Seq([block : NonGenesis, hollow : BOOLEAN])
        /\ verifyQ' = Append(verifyQ, x) /\ loadQ' = Tail(loadQ)
    BY <1>3, <1>t DEF Preload, TypeInv, TypeOK
  <2> HIDE DEF x
  <2>4. ToSet(loadQ) \subseteq {x.block} \cup ToSet(loadQ')
    BY <2>1, <2>2, <2>3, ToSetTail
  <2>5. Carried(verifyQ) \cup {x.block} \subseteq Carried(verifyQ')
    BY <2>2, <2>3, CarriedAppend, Zenon
  <2> QED BY <1>3, <1>p, <2>4, <2>5 DEF Preload
<1>4. CASE VerifyBlock
  <2>1. verifyQ \in Seq([block : NonGenesis, hollow : BOOLEAN])
        /\ verifyQ # <<>> /\ verifyQ' = Tail(verifyQ)
    BY <1>4, <1>t DEF VerifyBlock, TypeInv, TypeOK
  <2>2. Carried(verifyQ) \subseteq {Head(verifyQ).block} \cup Carried(verifyQ')
    BY <2>1, CarriedTail
  <2>3. verifier'.block = Head(verifyQ).block /\ UNCHANGED <<pending, loadQ>>
    BY <1>4 DEF VerifyBlock, Verified, Rejected
  <2>4. verifier.block \notin pending
    <3>1. verifier.block = None
      BY <1>4, <1>t, Zenon DEF VerifyBlock, TypeInv, VerifierOK
    <3>2. pending \subseteq Block
      BY <1>t, Zenon DEF TypeInv, TypeOK, NonGenesis
    <3> QED BY <3>1, <3>2, PipelineAssumption, Zenon
  <2> QED BY <1>p, <2>2, <2>3, <2>4
<1>5. CASE Unmark \/ MarkInvalid
  <2>1. verifier'.block = verifier.block /\ UNCHANGED <<pending, loadQ, verifyQ>>
    BY <1>5, <1>t DEF Unmark, MarkInvalid, queues, TypeInv, VerifierOK
  <2> QED BY <1>p, <2>1
<1>6. CASE RemovePending
  BY <1>6, <1>p DEF RemovePending, queues
<1>7. CASE Crash
  BY <1>7 DEF Crash
<1> QED
  BY <1>1, <1>2, <1>3, <1>4, <1>5, <1>6, <1>7, Zenon
     DEF Next, Service, Verifier, InitLoad, vars, disk, queues, SubmitBlock, SyncBlock, RelayBlock,
         CheckHeader, InsertValidHeader, RejectBlock, TakeBlock, Route, PublishUnverifiedTip,
         SearchPending, SearchLeader, CleanExpiredOrphans, ScanNumber, LoadUnverified

\* However the threads interleave and wherever a crash falls, a mark in is_pending_verify stands
\* for a block that is still in a channel or in the hands of the verifier.
THEOREM PendingAlwaysQueued == Spec => []PendingIsQueued
<1>1. Init => PendingInv
  BY InitTypeInv DEF PendingInv, PendingIsQueued, Init
<1>2. PendingInv => PendingIsQueued
  BY DEF PendingInv
<1> QED BY <1>1, <1>2, NextPendingInv, PTL DEF Spec

-----------------------------------------------------------------------------
\* A block has an ext only after its parent: with it, attaching a chain adds one block to known.
ExtClosed ==
  /\ ext[Genesis] # None
  /\ \A b \in NonGenesis : ext[b] # None => ext[Parent[b]] # None

ChoiceInv == TypeInv /\ ExtClosed

Known == {b \in Block : ext[b] # None}

LEMMA ChainInKnown ==
  ASSUME ChoiceInv, NEW b \in NonGenesis, ext[Parent[b]] # None
  PROVE  Chain[b] \subseteq Known \cup {b} /\ b \in Chain[b]
<1>1. AncestorClosed(Known \cup {b})
  BY BlockTreeAssumption DEF ChoiceInv, ExtClosed, Known, AncestorClosed, NonGenesis
<1>2. Known \cup {b} \in SUBSET Block /\ b \in Block
  BY DEF Known, NonGenesis
<1> QED BY <1>1, <1>2 DEF Chain

\* Only verify_block changes the exts or the tip.
LEMMA OthersKeepChoice ==
  ASSUME [Next]_vars, ~VerifyBlock
  PROVE  UNCHANGED <<ext, tip>>
  BY Zenon DEF Next, Service, Verifier, InitLoad, vars, disk, SubmitBlock, SyncBlock, RelayBlock,
         CheckHeader, InsertValidHeader, RejectBlock, TakeBlock, Route, SendUnverified,
         PublishUnverifiedTip, SearchPending, SearchLeader, CleanExpiredOrphans, Preload, Unmark,
         MarkInvalid, RemovePending, ScanNumber, LoadUnverified, Crash

\* The outcomes of verify_block as far as the exts and the tip see them.
LEMMA VerifyOutcomes ==
  ASSUME ChoiceInv, VerifyBlock
  PROVE  \/ UNCHANGED <<ext, tip>>
         \/ \E b \in NonGenesis :
              /\ ext[Parent[b]] # None /\ Known' = Known \cup {b}
              /\ \/ TotalDifficulty[b] <= TotalDifficulty[tip] /\ UNCHANGED tip
                 \/ TotalDifficulty[tip] < TotalDifficulty[b] /\ b \in Valid /\ tip' = b
<1> DEFINE b == Head(verifyQ).block
<1>1. b \in NonGenesis
  <2>1. verifyQ \in Seq([block : NonGenesis, hollow : BOOLEAN]) /\ verifyQ # <<>>
    BY DEF ChoiceInv, TypeInv, TypeOK, VerifyBlock
  <2>2. Head(verifyQ) \in [block : NonGenesis, hollow : BOOLEAN]
    BY <2>1, HeadTailProperties, Zenon
  <2> QED BY <2>2
<1>2. TotalDifficulty[b] \in Nat /\ TotalDifficulty[tip] \in Nat /\ b \in Block
  BY <1>1, PipelineAssumption DEF NonGenesis, ChoiceInv, TypeInv, TypeOK
<1>3. ext \in [Block -> {None, "unverified", "verified"}] /\ None \notin {"unverified", "verified"}
  BY PipelineAssumption DEF ChoiceInv, TypeInv, TypeOK
<1>4. CASE VerifyNew(b) /\ ~NewBestBlock(b) /\ ext' = [ext EXCEPT ![b] = "unverified"] /\ UNCHANGED tip
  <2>1. Known' = Known \cup {b}
    BY <1>2, <1>3, <1>4 DEF Known
  <2>2. ext[Parent[b]] # None
    BY <1>4 DEF VerifyNew, VerifyRejects
  <2>3. TotalDifficulty[b] <= TotalDifficulty[tip]
    BY <1>2, <1>4 DEF NewBestBlock
  <2> QED BY <1>1, <1>4, <2>1, <2>2, <2>3
<1>5. CASE /\ VerifyNew(b) /\ NewBestBlock(b) /\ b \in Valid /\ tip' = b
           /\ ext' = [a \in Block |-> IF a \in Chain[b] THEN "verified" ELSE ext[a]]
  <2>2. ext[Parent[b]] # None
    BY <1>5 DEF VerifyNew, VerifyRejects
  <2>1. Known' = Known \cup {b}
    BY <1>1, <1>2, <1>3, <1>5, <2>2, ChainInKnown DEF Known
  <2>3. TotalDifficulty[tip] < TotalDifficulty[b]
    BY <1>2, <1>5 DEF NewBestBlock
  <2> QED BY <1>1, <1>5, <2>1, <2>2, <2>3
<1>6. CASE UNCHANGED <<ext, tip>>
  BY <1>6
<1> QED BY <1>4, <1>5, <1>6 DEF VerifyBlock

LEMMA NextChoiceInv == ChoiceInv /\ [Next]_vars => ChoiceInv'
<1> SUFFICES ASSUME ChoiceInv, [Next]_vars PROVE ChoiceInv'
  OBVIOUS
<1>1. TypeInv'
  BY NextTypeInv DEF ChoiceInv
<1>2. CASE UNCHANGED ext
  BY <1>1, <1>2 DEF ChoiceInv, ExtClosed
<1>3. ASSUME NEW b \in NonGenesis, ext[Parent[b]] # None, Known' = Known \cup {b} PROVE ChoiceInv'
  <2>1. Genesis \in Known /\ Parent[b] \in Known /\ \A c \in Known \ {Genesis} : Parent[c] \in Known
    BY <1>3, BlockTreeAssumption DEF ChoiceInv, ExtClosed, Known, NonGenesis
  <2>2. Genesis \in Known' /\ \A c \in Known' \ {Genesis} : Parent[c] \in Known'
    BY <1>3, <2>1
  <2>3. ExtClosed'
    BY <2>2 DEF ExtClosed, Known, NonGenesis
  <2> QED BY <1>1, <2>3 DEF ChoiceInv
<1> QED BY <1>2, <1>3, VerifyOutcomes, OthersKeepChoice

\* The chain component as a whole - channels, orphan pool, verifier, restarts - implements the fork
\* choice rule, so the theorems of ForkChoiceProofs hold of its exts and its tip.
THEOREM PipelineImplementsForkChoice == Spec => ImplementsForkChoice
<1>1. Init => ChoiceInv /\ Choice!Init
  <2> SUFFICES ASSUME Init PROVE ChoiceInv /\ Choice!Init
    OBVIOUS
  <2>1. ext[Genesis] # None /\ \A b \in NonGenesis : ext[b] = None
    BY BlockTreeAssumption, PipelineAssumption DEF Init, NonGenesis
  <2> QED
    BY <2>1, InitTypeInv, BlockTreeAssumption DEF ChoiceInv, ExtClosed, Choice!Init, Init, NonGenesis
<1>2. ChoiceInv /\ [Next]_vars => [Choice!Next]_(Choice!fcVars)
  <2> SUFFICES ASSUME ChoiceInv, [Next]_vars
               PROVE  Choice!Next \/ UNCHANGED Choice!fcVars
    OBVIOUS
  <2>1. CASE UNCHANGED <<ext, tip>>
    BY <2>1 DEF Choice!fcVars
  <2>2. ASSUME NEW b \in NonGenesis, ext[Parent[b]] # None, Known' = Known \cup {b},
               \/ TotalDifficulty[b] <= TotalDifficulty[tip] /\ UNCHANGED tip
               \/ TotalDifficulty[tip] < TotalDifficulty[b] /\ b \in Valid /\ tip' = b
        PROVE  Choice!Next
    <3>1. Parent[b] \in Known
      BY <2>2, BlockTreeAssumption DEF Known
    <3>2. Choice!Record(b) \/ Choice!Switch(b)
      BY <2>2, <3>1 DEF Choice!Record, Choice!Switch, Known
    <3> QED BY <3>2 DEF Choice!Next, Choice!NonGenesis, NonGenesis
  <2> QED BY <2>1, <2>2, VerifyOutcomes, OthersKeepChoice
<1> QED BY <1>1, <1>2, NextChoiceInv, PTL DEF Spec, ImplementsForkChoice, Choice!Spec
=============================================================================
