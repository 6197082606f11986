------------------------------- MODULE World -------------------------------
(***************************************************************************)
(* The player table of a game world (src/game/include/openrs/game/world.h) *)
(* as operators on its map players_ from slot numbers to player objects.   *)
(* A std::map is a function whose domain is the finite set of its keys.    *)
(***************************************************************************)
EXTENDS Naturals, FiniteSets, FiniteSetsExt

\* std::map::insert: an existing entry is kept and the new value dropped.
Insert(map, key, value) ==
  [k \in DOMAIN map \cup {key} |-> IF k \in DOMAIN map THEN map[k] ELSE value]

\* std::map::erase of every key in a set; an absent key is ignored.
Erase(map, keys) == [k \in DOMAIN map \ keys |-> map[k]]

EmptyMap == [k \in {} |-> k]

\* The test of add_player: the table is empty or its greatest key is size()-1.
NoGaps(used) ==
  \/ used = {}
  \/ \E last \in used :
       /\ \A k \in used : k <= last
       /\ last = Cardinality(used) - 1

\* The smallest slot no player has: the position of the first key, in
\* ascending order, that differs from the loop's counter.
FirstGap(used) == Min((0 .. Cardinality(used)) \ used)

\* The counter when the loop stops. It is incremented once for every key
\* visited, the mismatching key included, so it ends one past the gap.
LoopCounter(used) == Min({FirstGap(used) + 1, Cardinality(used)})

\* Seeded defect: a table with gaps is always extended past its last slot.
SlotPastLast(used) == IF NoGaps(used) THEN Cardinality(used) ELSE Max(used) + 1

\* The slot add_player inserts at.
SlotFor(used) == IF NoGaps(used) THEN Cardinality(used) ELSE LoopCounter(used)

add_player(players, player) == Insert(players, SlotFor(DOMAIN players), player)

remove_player(players, slots) == Erase(players, slots)
=============================================================================
