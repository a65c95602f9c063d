----------------------------- MODULE ForkChanges -----------------------------
(***************************************************************************)
(* How a heavier block is turned into a list of blocks to detach from the  *)
(* main chain and a list of blocks to attach: find_fork walks the index of *)
(* the main chain and the parents of the new tip.                          *)
(*                                                                         *)
(* A ForkChanges is [attached, detached, dirty]; the ext records of        *)
(* dirty_exts are named by the block whose ext they are.  The walk also    *)
(* carries the GlobalIndex (number, hash, unseen) and found, which is      *)
(* FALSE once one of the `expect`s on the store has failed.                *)
(***************************************************************************)
EXTENDS ChainStore

NoChanges == [attached |-> <<>>, detached |-> <<>>, dirty |-> <<>>]

\* ForkChanges::verified_len
VerifiedLen(fork) == Len(fork.attached) - Len(fork.dirty)

\* The bug of collecting unverified exts below a verified block as well.
AttachStepForgetful(db, f) ==
  [f EXCEPT !.attached = <<f.hash>> \o @,
            !.dirty = IF db.ext[f.hash] # None THEN <<f.hash>> \o @ ELSE @,
            !.found = @ /\ f.hash \in db.stored,
            !.number = @ - 1,
            !.hash = Parent[@]]

\* The bug of walking past a block that the store does not have.
AttachStepUnchecked(db, f) ==
  LET unverified == f.unseen /\ db.ext[f.hash] = "unverified"
  IN  [f EXCEPT !.attached = <<f.hash>> \o @,
                !.dirty = IF unverified THEN <<f.hash>> \o @ ELSE @,
                !.unseen = unverified,
                !.number = @ - 1,
                !.hash = Parent[@]]

\* One block of the new branch, whose ext joins dirty_exts as long as no verified
\* block has been met: the bodies of both loops.
AttachStep(db, f) ==
  LET unverified == f.unseen /\ db.ext[f.hash] = "unverified"
  IN  [f EXCEPT !.attached = <<f.hash>> \o @,
                !.dirty = IF unverified THEN <<f.hash>> \o @ ELSE @,
                !.unseen = unverified,
                !.found = @ /\ f.hash \in db.stored /\ (f.unseen => db.ext[f.hash] # None),
                !.number = @ - 1,
                !.hash = Parent[@]]

\* alignment_fork: make both branches end at the same number.
AlignmentFork(db, f, newTip, tipNumber) ==
  IF newTip <= tipNumber
  THEN LET old == [i \in 1..(tipNumber - newTip + 1) |-> db.byNumber[newTip + i - 1]]
       IN  [f EXCEPT !.detached = old, !.found = @ /\ ToSet(old) \subseteq db.stored]
  ELSE LET walk[n \in Nat] == IF n = 0 THEN f ELSE AttachStep(db, walk[n - 1])
       IN  walk[f.number - tipNumber]

\* find_fork_until_latest_common: go down both branches until they meet.
FindForkUntilLatestCommon(db, f) ==
  LET Met(w) == w.number = 0 \/ db.byNumber[w.number] = w.hash
      Down(w) == LET old == db.byNumber[w.number]
                 IN  AttachStep(db, [w EXCEPT !.detached = <<old>> \o @,
                                              !.found = @ /\ old \in db.stored])
      walk[n \in Nat] == IF n = 0 THEN f
                         ELSE LET w == walk[n - 1] IN IF Met(w) THEN w ELSE Down(w)
  IN  walk[f.number]

\* find_fork for a new tip b that is not stored as best yet.
FindFork(db, tipNumber, b) ==
  LET start == [attached |-> <<b>>, detached |-> <<>>, dirty |-> <<b>>, found |-> TRUE,
                number |-> Number[b] - 1, hash |-> Parent[b], unseen |-> TRUE]
  IN  FindForkUntilLatestCommon(db, AlignmentFork(db, start, Number[b], tipNumber))

\* make_fork_for_truncate
MakeForkForTruncate(db, target, tipNumber) ==
  [NoChanges EXCEPT !.detached =
     [i \in 1..(tipNumber - Number[target]) |-> db.byNumber[Number[target] + i]]]

-----------------------------------------------------------------------------
\* What find_fork is meant to return: the two branches above the last common
\* block of the chains of tip and b.
PathAbove(b, common) == [i \in 1..(Number[b] - Number[common]) |-> AncestorAt(b, Number[common] + i)]
LastCommon(tip, b) ==
  CHOOSE a \in Chain[tip] \cap Chain[b] : \A c \in Chain[tip] \cap Chain[b] : Number[c] <= Number[a]
=============================================================================
