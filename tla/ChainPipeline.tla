---------------------------- MODULE ChainPipeline ----------------------------
(***************************************************************************)
(* The threads a block passes through before it is part of the chain, and  *)
(* the state they share:                                                   *)
(*                                                                         *)
(*   network, RPC --inbox--> ChainService --loadQ--> preload --verifyQ-->  *)
(*   ConsumeUnverifiedBlocks --> ext, tip                                  *)
(*                                                                         *)
(* with the orphan pool inside ChainService, the block status map, the     *)
(* header map and is_pending_verify between them, the header sync beside   *)
(* them and InitLoadUnverified after a start.  Verification itself is the  *)
(* constant Valid; MainChain has what it does.                             *)
(***************************************************************************)
EXTENDS BlockTree, Sequences, SequencesExt

CONSTANTS
  TotalDifficulty,
  Valid,        \* the blocks whose whole chain passes contextual verification
  Malformed,    \* the blocks that fail the non-contextual checks
  Sources,      \* which of "submit", "sync" and "relay" deliver blocks
  QueueSize,    \* bound on the length of each channel
  AllowExpiry,  \* whether orphans may get older than EXPIRED_EPOCH
  MaxCrashes,   \* bound on the crashes in a behaviour
  QuietStart,   \* whether RPC and relay are silent until InitLoadUnverified has ended
  None

ASSUME PipelineAssumption ==
  /\ TotalDifficulty \in [Block -> Nat]
  /\ \A b \in NonGenesis : TotalDifficulty[Parent[b]] < TotalDifficulty[b]
  /\ Genesis \in Valid /\ Valid \subseteq Block
  /\ \A b \in Valid \ {Genesis} : Parent[b] \in Valid
  /\ Malformed \subseteq Block \ Valid
  /\ Sources \subseteq {"submit", "sync", "relay"}
  /\ QueueSize \in Nat \ {0} /\ MaxCrashes \in Nat
  /\ AllowExpiry \in BOOLEAN /\ QuietStart \in BOOLEAN
  /\ None \notin Block \cup {"unverified", "verified", "received", "invalid"}
  /\ IsFiniteSet(Block)

VARIABLES
  stored,     \* the blocks in the block columns of the database
  ext,        \* COLUMN_BLOCK_EXT: None, "unverified" or "verified"
  tip,        \* the tip of the database and of the snapshot
  cached,     \* the blocks in the caches of the store, which no deletion clears
  status,     \* block_status_map: None, "received" or "invalid"
  headers,    \* header_map
  pending,    \* is_pending_verify
  orphans,    \* the orphan pool (as OrphanSet)
  inbox,      \* process_block channel
  service,    \* ChainService
  loadQ,      \* preload_unverified channel
  verifyQ,    \* unverified_block channel
  verifier,   \* ConsumeUnverifiedBlocks
  candidate,  \* unverified_tip
  checked,    \* the header that HeaderAcceptor::accept has checked but not inserted
  scan,       \* InitLoadUnverified
  crashes

disk == <<stored, ext, tip>>
queues == <<inbox, loadQ, verifyQ>>
vars == <<disk, cached, status, headers, pending, orphans, queues, service, verifier,
          candidate, checked, scan, crashes>>

Pool == INSTANCE OrphanSet

ServiceIdle == [pc |-> "idle", block |-> None, parentPending |-> FALSE, work |-> <<>>, leaders |-> {}]
VerifierIdle == [pc |-> "idle", block |-> None]
ScanDone == [on |-> FALSE, tip |-> 0, number |-> 0, todo |-> {}]
ScanFrom(n) == [on |-> TRUE, tip |-> n, number |-> 1, todo |-> {}]

Init ==
  /\ stored = {Genesis} /\ tip = Genesis
  /\ ext = [b \in Block |-> IF b = Genesis THEN "verified" ELSE None]
  /\ cached = {} /\ headers = {} /\ pending = {} /\ orphans = {}
  /\ status = [b \in Block |-> None]
  /\ inbox = <<>> /\ loadQ = <<>> /\ verifyQ = <<>>
  /\ service = ServiceIdle /\ verifier = VerifierIdle
  /\ candidate = Genesis /\ checked = None
  /\ scan = ScanFrom(0)
  /\ crashes = 0

-----------------------------------------------------------------------------
\* Shared::get_block_status
Unmarked(b) == status[b] = None /\ b \notin headers
BlockInvalid(b) == status[b] = "invalid"
BlockStored(b) == Unmarked(b) /\ ext[b] # None
HeaderValidOnly(b) == status[b] = None /\ b \in headers
HeaderValid(b) == status[b] = "received" \/ HeaderValidOnly(b) \/ BlockStored(b)

\* get_header_index_view: the header map or the store has the block
HeaderKnown(b) == b \in headers \/ ext[b] # None

\* Shared::get_unverified_tip
GetUnverifiedTip == IF Number[candidate] < Number[tip] THEN tip ELSE candidate

\* Where a block can be between its arrival and the end of its verification.
Working == ToSet(inbox) \cup {service.block} \cup ToSet(service.work)
Queued == ToSet(loadQ) \cup {verifyQ[i].block : i \in DOMAIN verifyQ} \cup {verifier.block}
InPipeline == Working \cup orphans \cup Queued

Full(q) == Len(q) >= QueueSize

-----------------------------------------------------------------------------
\* ChainController: a block enters the channel of ChainService.
Send(b) == ~Full(inbox) /\ inbox' = Append(inbox, b)

MarkReceived(b) == status' = [status EXCEPT ![b] = IF @ = None THEN "received" ELSE @]

\* submit_block and the other local callers: no status is kept.
SubmitBlock(b) ==
  /\ "submit" \in Sources
  /\ QuietStart => ~scan.on
  /\ Send(b)
  /\ UNCHANGED <<disk, cached, status, headers, pending, orphans, loadQ, verifyQ, service,
                 verifier, candidate, checked, scan, crashes>>

\* BlockProcess: a block that was requested because its header is valid; nothing is
\* requested while the blocks of the last run are being loaded.
SyncBlock(b) ==
  /\ "sync" \in Sources
  /\ ~scan.on
  /\ HeaderValidOnly(b)
  /\ Send(b)
  /\ MarkReceived(b)
  /\ UNCHANGED <<disk, cached, headers, pending, orphans, loadQ, verifyQ, service, verifier,
                 candidate, checked, scan, crashes>>

\* Relayer::accept_block: the compact block was let in when its parent was known; when
\* it is complete only BLOCK_STORED is looked at again.
RelayBlock(b) ==
  /\ "relay" \in Sources
  /\ QuietStart => ~scan.on
  /\ HeaderKnown(Parent[b])
  /\ ~BlockStored(b)
  /\ Send(b)
  /\ MarkReceived(b)
  /\ UNCHANGED <<disk, cached, headers, pending, orphans, loadQ, verifyQ, service, verifier,
                 candidate, checked, scan, crashes>>

\* The bug of accepting a header whose parent is not known.
CheckHeaderUnconnected(b) ==
  /\ "sync" \in Sources
  /\ checked = None /\ ~HeaderValid(b)
  /\ checked' = b
  /\ UNCHANGED <<disk, cached, status, headers, pending, orphans, queues, service, verifier,
                 candidate, scan, crashes>>

\* HeaderAcceptor::accept up to its last line
CheckHeader(b) ==
  /\ "sync" \in Sources
  /\ checked = None
  /\ HeaderKnown(Parent[b])
  /\ ~HeaderValid(b)
  /\ IF BlockInvalid(Parent[b])
     THEN status' = [status EXCEPT ![b] = "invalid"] /\ UNCHANGED checked
     ELSE checked' = b /\ UNCHANGED status
  /\ UNCHANGED <<disk, cached, headers, pending, orphans, queues, service, verifier, candidate,
                 scan, crashes>>

\* insert_valid_header, whatever has happened since the check
InsertValidHeader ==
  /\ checked # None
  /\ headers' = headers \cup {checked}
  /\ checked' = None
  /\ UNCHANGED <<disk, cached, status, pending, orphans, queues, service, verifier, candidate,
                 scan, crashes>>

-----------------------------------------------------------------------------
\* asynchronous_process_block for a block that fails a check before it is stored: an error in
\* the body of an uncle removes the status, any other marks the block.
RejectBlock ==
  /\ service.pc = "idle" /\ inbox # <<>> /\ Head(inbox) \in Malformed
  /\ \E s \in {None, "invalid"} : status' = [status EXCEPT ![Head(inbox)] = s]
  /\ inbox' = Tail(inbox)
  /\ UNCHANGED <<disk, cached, headers, pending, orphans, loadQ, verifyQ, service, verifier,
                 candidate, checked, scan, crashes>>

\* The bug of routing a block before it is stored.
TakeBlockUnstored ==
  /\ service.pc = "idle" /\ inbox # <<>> /\ Head(inbox) \notin Malformed
  /\ service' = [ServiceIdle EXCEPT !.pc = "route", !.block = Head(inbox),
                                    !.parentPending = Parent[Head(inbox)] \in pending]
  /\ inbox' = Tail(inbox)
  /\ UNCHANGED <<disk, cached, status, headers, pending, orphans, loadQ, verifyQ, verifier,
                 candidate, checked, scan, crashes>>

\* asynchronous_process_block: insert_block, and the first read of process_lonely_block
TakeBlock ==
  /\ service.pc = "idle" /\ inbox # <<>> /\ Head(inbox) \notin Malformed
  /\ LET b == Head(inbox)
     IN  /\ stored' = stored \cup {b}
         /\ service' = [ServiceIdle EXCEPT !.pc = "route", !.block = b,
                                           !.parentPending = Parent[b] \in pending]
  /\ inbox' = Tail(inbox)
  /\ UNCHANGED <<ext, tip, cached, status, headers, pending, orphans, loadQ, verifyQ, verifier,
                 candidate, checked, scan, crashes>>

\* The bug of not looking at the orphans after a block.
NoSearch(leaders) == ServiceIdle

\* search_orphan_leaders goes on with the leaders that are left.
Search(leaders) ==
  IF leaders = {} THEN ServiceIdle ELSE [ServiceIdle EXCEPT !.pc = "search", !.leaders = leaders]
Accept(work, leaders) ==
  IF work = <<>> THEN Search(leaders)
  ELSE [ServiceIdle EXCEPT !.pc = "send", !.work = work, !.leaders = leaders]

\* process_invalid_block: the blocks are deleted and marked.
ProcessInvalid(S) ==
  /\ stored' = stored \ S
  /\ cached' = cached \cup S
  /\ status' = [b \in Block |-> IF b \in S THEN "invalid" ELSE status[b]]

\* The rest of process_lonely_block: the status of the parent is read after is_pending_verify.
Route ==
  /\ service.pc = "route"
  /\ LET b == service.block
     IN  \/ /\ service.parentPending \/ BlockStored(Parent[b])
            /\ service' = Accept(<<b>>, Pool!Awaited(orphans))
            /\ UNCHANGED <<stored, cached, status, orphans>>
         \/ /\ ~service.parentPending /\ BlockInvalid(Parent[b])
            /\ ProcessInvalid({b})
            /\ service' = Search(Pool!Awaited(orphans))
            /\ UNCHANGED orphans
         \/ /\ ~service.parentPending /\ ~BlockStored(Parent[b]) /\ ~BlockInvalid(Parent[b])
            /\ orphans' = orphans \cup {b}
            /\ service' = Search(Pool!Awaited(orphans'))
            /\ UNCHANGED <<stored, cached, status>>
  /\ UNCHANGED <<ext, tip, headers, pending, queues, verifier, candidate, checked, scan, crashes>>

\* process_descendant: is_pending_verify and the channel
SendUnverified ==
  /\ service.pc = "send"
  /\ ~Full(loadQ)
  /\ pending' = pending \cup {Head(service.work)}
  /\ loadQ' = Append(loadQ, Head(service.work))
  /\ service' = [service EXCEPT !.pc = "publish"]
  /\ UNCHANGED <<disk, cached, status, headers, orphans, inbox, verifyQ, verifier, candidate,
                 checked, scan, crashes>>

\* The bug of publishing another variable than the block that was sent.
PublishWrongTip ==
  /\ service.pc = "publish"
  /\ candidate' = service.block
  /\ service' = Accept(Tail(service.work), service.leaders)
  /\ UNCHANGED <<disk, cached, status, headers, pending, orphans, queues, verifier, checked, scan,
                 crashes>>

\* The end of send_unverified_block: the block is already in the channel.
PublishUnverifiedTip ==
  /\ service.pc = "publish"
  /\ LET b == Head(service.work)
     IN  candidate' = IF Number[b] > Number[tip] THEN b ELSE candidate
  /\ service' = Accept(Tail(service.work), service.leaders)
  /\ UNCHANGED <<disk, cached, status, headers, pending, orphans, queues, verifier, checked, scan,
                 crashes>>

\* The orders in which remove_blocks_by_parent may return a family: parents before children,
\* and the children of one parent as the hash map has them.
Descendants(S) ==
  {s \in [1..Cardinality(S) -> S] :
     \A i, j \in DOMAIN s : i < j => s[i] # s[j] /\ Number[s[i]] <= Number[s[j]]}

\* The bug of visiting a leader again after its descendants have been taken.
AcceptKeepsLeader(l, leaders) ==
  /\ orphans' = orphans \ Pool!Above(l, orphans)
  /\ \E work \in Descendants(Pool!Above(l, orphans)) : service' = Accept(work, leaders \cup {l})

AcceptDescendants(l, leaders) ==
  /\ orphans' = orphans \ Pool!Above(l, orphans)
  /\ \E work \in Descendants(Pool!Above(l, orphans)) : service' = Accept(work, leaders)

\* search_orphan_leader reads the status of the leader ...
SearchLeader(l) ==
  /\ service.pc = "search" /\ l \in service.leaders
  /\ \/ /\ BlockInvalid(l)
        /\ ProcessInvalid(Pool!Above(l, orphans))
        /\ orphans' = orphans \ Pool!Above(l, orphans)
        /\ service' = Search(service.leaders \ {l})
     \/ /\ BlockStored(l)
        /\ AcceptDescendants(l, service.leaders \ {l})
        /\ UNCHANGED <<stored, cached, status>>
     \/ /\ ~BlockInvalid(l) /\ ~BlockStored(l)
        /\ service' = [service EXCEPT !.pc = "leader", !.block = l]
        /\ UNCHANGED <<stored, cached, status, orphans>>
  /\ UNCHANGED <<ext, tip, headers, pending, queues, verifier, candidate, checked, scan, crashes>>

\* The bug of accepting the descendants of a leader that is neither stored nor pending.
SearchWithoutPending ==
  /\ service.pc = "leader"
  /\ AcceptDescendants(service.block, service.leaders \ {service.block})
  /\ UNCHANGED <<disk, cached, status, headers, pending, queues, verifier, candidate, checked,
                 scan, crashes>>

\* ... and is_pending_verify after it.
SearchPending ==
  /\ service.pc = "leader"
  /\ LET l == service.block
     IN  IF l \in pending
         THEN AcceptDescendants(l, service.leaders \ {l})
         ELSE service' = Search(service.leaders \ {l}) /\ UNCHANGED orphans
  /\ UNCHANGED <<disk, cached, status, headers, pending, queues, verifier, candidate, checked,
                 scan, crashes>>

\* clean_expired_orphans, for the orphans of some leaders.  They expire when the tip is
\* EXPIRED_EPOCH epochs past them, so that no other copy of them is on its way any more; the
\* epoch in the header of an orphan has not been checked, and only that of a valid block says
\* that the tip is past its number too.
CleanExpiredOrphans(P) ==
  /\ AllowExpiry
  /\ service.pc = "idle"
  /\ P # {}
  /\ LET S == UNION {Pool!Above(p, orphans) : p \in P}
     IN  /\ \A b \in S : b \in Valid => Number[b] <= Number[tip]
         /\ S \cap (ToSet(inbox) \cup Queued) = {}
         /\ orphans' = orphans \ S
         /\ stored' = stored \ S
         /\ cached' = cached \cup S
         /\ headers' = headers \ S
         /\ status' = [b \in Block |-> IF b \in S THEN None ELSE status[b]]
  /\ UNCHANGED <<ext, tip, pending, queues, service, verifier, candidate, checked, scan, crashes>>

-----------------------------------------------------------------------------
\* The `expect`s of load_full_unverified_block_by_hash
Loadable(b) == b \in stored \cup cached /\ Parent[b] \in stored \cup cached

\* The bug of dropping a block that has an ext without taking its pending mark away.
PreloadSkipsKnown ==
  /\ loadQ # <<>> /\ ~Full(verifyQ)
  /\ LET b == Head(loadQ)
     IN  verifyQ' = IF ext[b] # None THEN verifyQ ELSE Append(verifyQ, [block |-> b, hollow |-> FALSE])
  /\ loadQ' = Tail(loadQ)
  /\ UNCHANGED <<disk, cached, status, headers, pending, orphans, inbox, service, verifier,
                 candidate, checked, scan, crashes>>

\* PreloadUnverifiedBlocksChannel: a deleted block that is still cached is read without body.
Preload ==
  /\ loadQ # <<>> /\ ~Full(verifyQ)
  /\ LET b == Head(loadQ)
     IN  /\ Loadable(b)
         /\ verifyQ' = Append(verifyQ, [block |-> b, hollow |-> b \notin stored])
         /\ cached' = cached \cup {b, Parent[b]}
  /\ loadQ' = Tail(loadQ)
  /\ UNCHANGED <<disk, status, headers, pending, orphans, inbox, service, verifier, candidate,
                 checked, scan, crashes>>

-----------------------------------------------------------------------------
\* The bug of a comparison that is off by one.
NewBestOffByOne(b) == TotalDifficulty[b] > TotalDifficulty[tip] + 1

NewBestBlock(b) == TotalDifficulty[b] > TotalDifficulty[tip]

\* The bug of taking a block that has been verified for one that has failed.
VerifyRejectsAgain(b) == BlockInvalid(Parent[b]) \/ ext[Parent[b]] = None \/ ext[b] = "verified"

\* verify_block
VerifyRejects(b) == BlockInvalid(Parent[b]) \/ ext[Parent[b]] = None
VerifyAgain(b) == ~VerifyRejects(b) /\ ext[b] = "verified"
VerifyNew(b) == ~VerifyRejects(b) /\ ext[b] # "verified"

Verified(b) == verifier' = [pc |-> "verified", block |-> b]
Rejected(b) == verifier' = [pc |-> "rejected", block |-> b]

\* The transaction of verify_block, the snapshot it publishes, and how it ends.  A block without
\* its body fails or makes the cellbase check panic, which ends consume_unverified_blocks.
VerifyBlock ==
  /\ verifier.pc = "idle" /\ verifyQ # <<>>
  /\ LET b == Head(verifyQ).block
         hollow == Head(verifyQ).hollow
     IN  \/ /\ VerifyRejects(b) \/ (VerifyNew(b) /\ NewBestBlock(b) /\ (hollow \/ b \notin Valid))
            /\ candidate' = tip
            /\ Rejected(b)
            /\ UNCHANGED <<ext, tip>>
         \/ /\ VerifyNew(b) /\ NewBestBlock(b) /\ hollow
            /\ verifier' = [pc |-> "done", block |-> b]
            /\ UNCHANGED <<ext, tip, candidate>>
         \/ /\ VerifyAgain(b)
            /\ Verified(b)
            /\ UNCHANGED <<ext, tip, candidate>>
         \/ /\ VerifyNew(b) /\ ~NewBestBlock(b)
            /\ ext' = [ext EXCEPT ![b] = "unverified"]
            /\ Verified(b)
            /\ UNCHANGED <<tip, candidate>>
         \/ /\ VerifyNew(b) /\ NewBestBlock(b) /\ ~hollow /\ b \in Valid
            /\ ext' = [a \in Block |-> IF a \in Chain[b] THEN "verified" ELSE ext[a]]
            /\ tip' = b
            /\ Verified(b)
            /\ UNCHANGED candidate
  /\ verifyQ' = Tail(verifyQ)
  /\ UNCHANGED <<stored, cached, status, headers, pending, orphans, inbox, loadQ, service, checked,
                 scan, crashes>>

\* The bug of leaving BLOCK_RECEIVED behind.
UnmarkHeaderOnly ==
  /\ verifier.pc = "verified"
  /\ headers' = headers \ {verifier.block}
  /\ verifier' = [verifier EXCEPT !.pc = "done"]
  /\ UNCHANGED <<disk, cached, status, pending, orphans, queues, service, candidate, checked, scan,
                 crashes>>

\* consume_unverified_blocks after Ok: remove_block_status and remove_header_view
Unmark ==
  /\ verifier.pc = "verified"
  /\ status' = [status EXCEPT ![verifier.block] = None]
  /\ headers' = headers \ {verifier.block}
  /\ verifier' = [verifier EXCEPT !.pc = "done"]
  /\ UNCHANGED <<disk, cached, pending, orphans, queues, service, candidate, checked, scan, crashes>>

\* The bug of marking a block without deleting it.
MarkInvalidKeeps ==
  /\ verifier.pc = "rejected"
  /\ status' = [status EXCEPT ![verifier.block] = "invalid"]
  /\ verifier' = [verifier EXCEPT !.pc = "done"]
  /\ UNCHANGED <<disk, cached, headers, pending, orphans, queues, service, candidate, checked, scan,
                 crashes>>

\* The bug of clearing the caches of the store while another copy of the block is queued.
MarkInvalidEvicts ==
  /\ verifier.pc = "rejected"
  /\ stored' = stored \ {verifier.block}
  /\ cached' = cached \ {verifier.block}
  /\ status' = [status EXCEPT ![verifier.block] = "invalid"]
  /\ verifier' = [verifier EXCEPT !.pc = "done"]
  /\ UNCHANGED <<ext, tip, headers, pending, orphans, queues, service, candidate, checked, scan,
                 crashes>>

\* ... and after Err: delete_unverified_block and BLOCK_INVALID
MarkInvalid ==
  /\ verifier.pc = "rejected"
  /\ stored' = stored \ {verifier.block}
  /\ cached' = cached \cup {verifier.block}
  /\ status' = [status EXCEPT ![verifier.block] = "invalid"]
  /\ verifier' = [verifier EXCEPT !.pc = "done"]
  /\ UNCHANGED <<ext, tip, headers, pending, orphans, queues, service, candidate, checked, scan,
                 crashes>>

\* ... and last, whatever the outcome, is_pending_verify.remove
RemovePending ==
  /\ verifier.pc = "done"
  /\ pending' = pending \ {verifier.block}
  /\ verifier' = VerifierIdle
  /\ UNCHANGED <<disk, cached, status, headers, orphans, queues, service, candidate, checked, scan,
                 crashes>>

-----------------------------------------------------------------------------
\* The bug of a scan that ends at the tip.
ScanToTip ==
  /\ scan.on /\ scan.todo = {}
  /\ scan' = IF scan.number > scan.tip THEN ScanDone
             ELSE [scan EXCEPT !.todo = {b \in stored : Number[b] = scan.number /\ ext[b] = None},
                               !.number = @ + 1]
  /\ UNCHANGED <<disk, cached, status, headers, pending, orphans, queues, service, verifier,
                 candidate, checked, crashes>>

\* find_unverified_blocks: one number, or the end of the scan
ScanNumber ==
  /\ scan.on /\ scan.todo = {}
  /\ LET found == {b \in stored : Number[b] = scan.number /\ ext[b] = None}
     IN  scan' = IF scan.number > scan.tip /\ found = {} THEN ScanDone
                 ELSE [scan EXCEPT !.todo = found, !.number = @ + 1]
  /\ UNCHANGED <<disk, cached, status, headers, pending, orphans, queues, service, verifier,
                 candidate, checked, crashes>>

\* find_and_verify_unverified_blocks, for one block
LoadUnverified(b) ==
  /\ scan.on /\ b \in scan.todo
  /\ Send(b)
  /\ scan' = [scan EXCEPT !.todo = @ \ {b}]
  /\ UNCHANGED <<disk, cached, status, headers, pending, orphans, loadQ, verifyQ, service, verifier,
                 candidate, checked, crashes>>

\* The process dies and starts again with what is on disk.
Crash ==
  /\ crashes < MaxCrashes
  /\ crashes' = crashes + 1
  /\ cached' = {} /\ headers' = {} /\ pending' = {} /\ orphans' = {}
  /\ status' = [b \in Block |-> None]
  /\ inbox' = <<>> /\ loadQ' = <<>> /\ verifyQ' = <<>>
  /\ service' = ServiceIdle /\ verifier' = VerifierIdle
  /\ candidate' = tip /\ checked' = None
  /\ scan' = ScanFrom(Number[tip])
  /\ UNCHANGED disk

-----------------------------------------------------------------------------
Service ==
  \/ RejectBlock \/ TakeBlock \/ Route \/ SendUnverified \/ PublishUnverifiedTip \/ SearchPending
  \/ \E l \in Block : SearchLeader(l)

Verifier == VerifyBlock \/ Unmark \/ MarkInvalid \/ RemovePending

InitLoad == ScanNumber \/ \E b \in NonGenesis : LoadUnverified(b)

Next ==
  \/ \E b \in NonGenesis : SubmitBlock(b) \/ SyncBlock(b) \/ RelayBlock(b) \/ CheckHeader(b)
  \/ InsertValidHeader
  \/ Service \/ Preload \/ Verifier \/ InitLoad
  \/ \E P \in SUBSET Pool!Awaited(orphans) : CleanExpiredOrphans(P)
  \/ Crash

Spec == Init /\ [][Next]_vars

\* Every thread that can make a step makes one; InitLoadUnverified, which competes with the network
\* for the channel, is served like any other sender that waits for it.
Fairness == WF_vars(Service) /\ WF_vars(Preload) /\ WF_vars(Verifier) /\ SF_vars(InitLoad)

FairSpec == Spec /\ Fairness

\* Blocks keep arriving, whichever they are.
BlocksArrive == []<><<TakeBlock>>_vars

ArrivingSpec == Spec /\ Fairness /\ BlocksArrive

-----------------------------------------------------------------------------
TypeOK ==
  /\ stored \subseteq Block /\ tip \in Block
  /\ ext \in [Block -> {None, "unverified", "verified"}]
  /\ cached \subseteq Block /\ headers \subseteq NonGenesis /\ pending \subseteq NonGenesis
  /\ status \in [Block -> {None, "received", "invalid"}]
  /\ orphans \subseteq NonGenesis
  /\ inbox \in Seq(NonGenesis) /\ loadQ \in Seq(NonGenesis)
  /\ verifyQ \in Seq([block : NonGenesis, hollow : BOOLEAN])
  /\ service \in [pc : {"idle", "route", "send", "publish", "search", "leader"},
                  block : Block \cup {None}, parentPending : BOOLEAN,
                  work : Seq(NonGenesis), leaders : SUBSET Block]
  /\ verifier \in [pc : {"idle", "verified", "rejected", "done"}, block : NonGenesis \cup {None}]
  /\ candidate \in Block /\ checked \in NonGenesis \cup {None}

\* A block is in is_pending_verify only while it is in a channel or being verified: a mark
\* that stayed behind would let children of a block that never comes pass for connected.
PendingIsQueued == pending \subseteq Queued

\* A block marked BLOCK_RECEIVED is somewhere between the channel and the verifier: it is not
\* requested again, so a mark without the block would lose it until the next start.
ReceivedIsInPipeline == \A b \in Block : status[b] = "received" => b \in InPipeline

\* No interleaving of the threads marks a block of a valid chain as invalid.
ValidNeverInvalid == \A b \in Valid : status[b] # "invalid"

\* A block has an ext only after its parent, and only while it is stored.
ExtIsStored ==
  \A b \in Block : ext[b] # None => b \in stored /\ (b # Genesis => ext[Parent[b]] # None)

\* A rejected block does not stay in the database once the last copy of it has been processed.
RejectedIsDeleted == \A b \in Block \ InPipeline : status[b] = "invalid" => b \notin stored

\* The block and the parent header that the preload thread expects are in the store or its caches.
PreloadFinds == loadQ # <<>> => Loadable(Head(loadQ))

\* A leader still has descendants when search_orphan_leader comes to it.
LeaderHasDescendants ==
  service.pc \in {"search", "leader"} => \A l \in service.leaders : Pool!ChildrenIn(l, orphans) # {}

\* insert_valid_header finds the parent that accept has seen.
HeaderParentKnown == checked # None => HeaderKnown(Parent[checked])

\* An orphan is connected, or rejected, after its parent has been accepted.
OrphansConnect ==
  \A b \in NonGenesis : (b \in orphans /\ ext[Parent[b]] # None) ~> (b \notin orphans)

\* A valid block that is on disk with its whole chain when the node starts is verified without
\* being received again: the scan of InitLoadUnverified by number reaches it.
RestartLoads ==
  \A b \in Valid \ {Genesis} :
    (scan.on /\ scan.number = 1 /\ Chain[b] \subseteq stored) ~> (ext[b] # None)

\* With all its threads the chain component implements the fork choice rule: a block gets an ext
\* after its parent, heavier valid blocks become the tip, and nothing else moves the tip.
Choice == INSTANCE ForkChoice WITH known <- {b \in Block : ext[b] # None}
ImplementsForkChoice == Choice!Spec

\* Every block of the main chain can be read from the database.
MainChainIsStored == Chain[tip] \subseteq stored
=============================================================================
