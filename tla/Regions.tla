------------------------------ MODULE Regions ------------------------------
(***************************************************************************)
(* WorldTile::GetMapRegions and GetDynamicMapRegions: the loops that list  *)
(* the regions around a tile, one column of the outer loop at a time.      *)
(***************************************************************************)
EXTENDS Integers, Sequences, SequencesExt, FiniteSets

CONSTANTS
  Chunks,    \* chunk coordinates of tiles, in each direction
  MapSizes   \* MAP_SIZES >> 4

\* The packed coordinates have ten bits for a chunk.
ASSUME RegionsAssumption ==
  /\ Chunks \subseteq Nat /\ MapSizes \subseteq Nat
  /\ \A c \in Chunks, size \in MapSizes : c + size < 1024

VARIABLES
  chunkX, chunkY, mapSize,   \* the tile, and how far the map reaches
  dynamic,                   \* which of the two functions is called
  plane, x,                  \* loop variables
  output, real               \* the list, and the set of real regions

regionVars == <<chunkX, chunkY, mapSize, dynamic, plane, x, output, real>>

\* (Seeded defect.) The map does not end at the edge of the world.
LowestWraps(c, size, step) == ((c - size) % 65536) \div step

\* The lowest and the highest region (or chunk) of a map, in one direction.
Lowest(c, size, step) == IF c < size THEN 0 ELSE (c - size) \div step
Highest(c, size, step) == (c + size) \div step

Step8 == IF dynamic THEN 1 ELSE 8

RegionsInit ==
  /\ chunkX \in Chunks /\ chunkY \in Chunks /\ mapSize \in MapSizes
  /\ dynamic \in BOOLEAN
  /\ plane = 0 /\ x = Lowest(chunkX, mapSize, Step8)
  /\ output = <<>> /\ real = {}

\* The inner loop.
Column ==
  LET low == Lowest(chunkY, mapSize, Step8)
  IN  [i \in 1 .. Highest(chunkY, mapSize, Step8) - low + 1 |-> low + i - 1]

RegionId(rx, ry) == ry + rx * 256

Fixed ==
  /\ ~dynamic /\ x <= Highest(chunkX, mapSize, 8)
  /\ output' = output \o [i \in DOMAIN Column |-> RegionId(x, Column[i])]
  /\ x' = x + 1
  /\ UNCHANGED <<chunkX, chunkY, mapSize, dynamic, plane, real>>

\* Chunks at the edge of the world are invalid.
Invalid(cx, cy) == cx = 0 \/ cy = 0

ClientRegion(cx, cy) ==
  IF Invalid(cx, cy) THEN 0 ELSE plane * 16777216 + cx * 16384 + cy * 8

\* The region a chunk is in.
RealRegion(cx, cy) == RegionId(cx \div 8, cy \div 8)

Dynamic ==
  /\ dynamic /\ plane < 4 /\ x <= Highest(chunkX, mapSize, 1)
  /\ output' = output \o [i \in DOMAIN Column |-> ClientRegion(x, Column[i])]
  /\ real' = real \cup {RealRegion(x, y) : y \in {c \in ToSet(Column) : ~Invalid(x, c)}}
  /\ LET last == x = Highest(chunkX, mapSize, 1)
     IN  /\ x' = IF last THEN Lowest(chunkX, mapSize, 1) ELSE x + 1
         /\ plane' = IF last THEN plane + 1 ELSE plane
  /\ UNCHANGED <<chunkX, chunkY, mapSize, dynamic>>

RegionsNext == Fixed \/ Dynamic

-----------------------------------------------------------------------------
(* Properties *)

Reaches(c, d) == d >= 0 /\ c - mapSize <= d /\ d <= c + mapSize
Around(c) == {d \in 0 .. c + mapSize : Reaches(c, d)}

\* When the list is complete it has every region with a chunk in reach of the
\* tile, each once, and nothing else: also where the map passes the edge of
\* the world, where an unsigned difference would wrap.
ListsRegions ==
  ~dynamic /\ x > Highest(chunkX, mapSize, 8) =>
    /\ ToSet(output) = {RegionId(cx \div 8, cy \div 8) : cx \in Around(chunkX), cy \in Around(chunkY)}
    /\ Len(output) = Cardinality(ToSet(output))

\* The keys sent with a dynamic map are those of the regions its chunks lie
\* in, and the map has an entry for every chunk of each plane.
KeysOfTheMap ==
  plane = 4 =>
    /\ Len(output) = 4 * Cardinality(Around(chunkX)) * Cardinality(Around(chunkY))
    /\ real = {RegionId(((h \div 16384) % 1024) \div 8, ((h \div 8) % 2048) \div 8) : h \in ToSet(output) \ {0}}

\* The client gets the regions around its player, in either form of the list.
ListsTheMap == ListsRegions /\ KeysOfTheMap
=============================================================================
