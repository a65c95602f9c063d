---------------------------- MODULE ProposalTable ----------------------------
(***************************************************************************)
(* The table of proposed transactions by block number, and the view of it  *)
(* that a snapshot of the chain carries.  A table is a function from the   *)
(* block numbers it has to sets of proposal ids; it is always called with  *)
(* the numbers of one chain.                                               *)
(***************************************************************************)
EXTENDS Integers, TLC

CONSTANTS
  Closest,   \* ProposalWindow::closest
  Farthest   \* ProposalWindow::farthest

ASSUME ProposalWindowAssumption ==
  /\ Closest \in Nat \ {0}
  /\ Farthest \in Nat
  /\ Closest <= Farthest

SaturatingSub(a, b) == IF a > b THEN a - b ELSE 0

\* The bug of filing the proposals of a block under the next number.
TableInsertNext(table, n, ids) == (n + 1 :> ids) @@ table

TableInsert(table, n, ids) == (n :> ids) @@ table
TableRemove(table, n) == [m \in DOMAIN table \ {n} |-> table[m]]

\* All ids in the table between two numbers, both included.
IdsIn(table, from, to) == UNION {table[n] : n \in {m \in DOMAIN table : from <= m /\ m <= to}}

EmptyView == [gap |-> {}, set |-> {}]

\* The part of the table finalize keeps: split_off at the start of the window.
Trimmed(table, number) ==
  LET start == SaturatingSub(number + 1, Farthest)
  IN  IF start > 1 THEN [m \in {n \in DOMAIN table : n >= start} |-> table[m]] ELSE table

\* The bug of a window that ends one block early.
ViewOneLate(table, number) ==
  LET end == SaturatingSub(number, Closest)
  IN  [gap |-> IdsIn(table, end + 1, number),
       set |-> IdsIn(table, SaturatingSub(number, Farthest), end)]

\* The ProposalView finalize returns for the (trimmed) table.
ViewAt(table, number) ==
  LET candidate == number + 1
      start == SaturatingSub(candidate, Farthest)
      end == SaturatingSub(candidate, Closest)
  IN  IF candidate <= Closest
      THEN [gap |-> IdsIn(table, 0, number), set |-> {}]
      ELSE [gap |-> IdsIn(table, end + 1, number), set |-> IdsIn(table, start, end)]

\* ProposalTable::finalize: the kept table, the new view and the ids that left it.
Finalize(table, origin, number) ==
  LET kept == Trimmed(table, number)
      view == ViewAt(kept, number)
  IN  [table |-> kept, view |-> view, removed |-> origin.set \ view.set]
=============================================================================
