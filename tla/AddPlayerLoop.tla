--------------------------- MODULE AddPlayerLoop ---------------------------
(***************************************************************************)
(* World::add_player (world.h:58-86) one loop iteration at a time, from    *)
(* every table of players up to a size. It implements the one-step         *)
(* allocation SlotFor of module World, which the world manager uses.       *)
(***************************************************************************)
EXTENDS World

CONSTANT MaxSlot   \* bound: tables use slots 0 .. MaxSlot

ASSUME MaxSlotAssumption == MaxSlot \in Nat

VARIABLES
  used,      \* the keys of players_ when add_player is called
  unvisited, \* the keys the range-for has not reached yet
  counter,   \* the local variable index
  pc         \* "test", "loop" or "done"

loopVars == <<used, unvisited, counter, pc>>

LoopTypeOK ==
  /\ used \in SUBSET (0 .. MaxSlot)
  /\ unvisited \in SUBSET used
  /\ counter \in 0 .. MaxSlot + 1
  /\ pc \in {"test", "loop", "done"}

LoopInit ==
  /\ used \in SUBSET (0 .. MaxSlot)
  /\ unvisited = used
  /\ counter = 0
  /\ pc = "test"

\* players_.empty() || players_.crbegin()->first == players_.size() - 1
LastIsSizeMinusOne == used # {} => Max(used) = Cardinality(used) - 1

InsertAtEnd ==
  /\ pc = "test"
  /\ LastIsSizeMinusOne
  /\ counter' = Cardinality(used)
  /\ pc' = "done"
  /\ UNCHANGED <<used, unvisited>>

Search ==
  /\ pc = "test"
  /\ ~LastIsSizeMinusOne
  /\ pc' = "loop"
  /\ UNCHANGED <<used, unvisited, counter>>

\* Seeded defect: the mismatching key does not advance the counter.
VisitKeepsCounter ==
  /\ pc = "loop" /\ unvisited # {}
  /\ pc' = IF Min(unvisited) # counter THEN "done" ELSE "loop"
  /\ unvisited' = unvisited \ {Min(unvisited)}
  /\ counter' = IF Min(unvisited) # counter THEN counter ELSE counter + 1
  /\ UNCHANGED used

\* if (kIndex.first != index++) break;
Visit ==
  /\ pc = "loop" /\ unvisited # {}
  /\ pc' = IF Min(unvisited) # counter THEN "done" ELSE "loop"
  /\ unvisited' = unvisited \ {Min(unvisited)}
  /\ counter' = counter + 1
  /\ UNCHANGED used

LoopNext == InsertAtEnd \/ Search \/ Visit

LoopSpec == LoopInit /\ [][LoopNext]_loopVars

-----------------------------------------------------------------------------
(* Properties *)

\* The slot the loop ends with is the one SlotFor names, for every table.
LoopComputesSlotFor == pc = "done" => counter = SlotFor(used)

\* The search always stops at a gap: the range-for never runs off the end of
\* the table, where the counter would name the slot size() instead.
SearchFindsGap == pc = "loop" => unvisited # {}

\* A table with a gap never grows: the slot handed out after a search is not
\* above the greatest slot in use.
SearchStaysInside ==
  pc = "done" /\ ~LastIsSizeMinusOne => counter <= Max(used)

\* What the world manager relies on when it takes add_player for one step.
LoopIsAddPlayer == LoopTypeOK /\ LoopComputesSlotFor /\ SearchFindsGap /\ SearchStaysInside
=============================================================================
