---------------------------- MODULE PlayerUpdate ----------------------------
(***************************************************************************)
(* What a client is told of a player that comes into its view: the         *)
(* graphics an Entity keeps, and the update that the handler of a move     *)
(* (worldmanager.cpp) builds of them, block by block with their sizes.     *)
(***************************************************************************)
EXTENDS Integers, Sequences, SequencesExt, FiniteSets, FiniteSetsExt

CONSTANTS
  GraphicIds,   \* graphics that are set: an id stands for its other fields too
  NameLengths   \* lengths of a user name

ASSUME GraphicAssumption ==
  (\A id \in GraphicIds : id \in Nat /\ 0 < id /\ id < 65536) /\ NameLengths \subseteq Nat

VARIABLES
  graphics,     \* graphics_, slots 0 to 3; 0 is none
  username,     \* the length of the player's user name
  faces,        \* face_entity_last() is not -2
  moving,       \* update_movement_type()
  blocks        \* the last update: its blocks, or none

updateVars == <<graphics, username, faces, moving, blocks>>

\* The slot a zero is stored in: the highest in use, or the first.
LastInUse(g) == CHOOSE i \in 0 .. 3 : (i # 0 => g[i] # 0) /\ \A j \in i + 1 .. 3 : g[j] = 0

\* The slot a graphic is stored in: the first free one, or the last.
FirstFree(g) == Min({i \in 0 .. 2 : g[i] = 0} \cup {3})

\* Entity::SetNextGraphics.
SetNextGraphics(id) ==
  /\ graphics' =
       IF id = 0 THEN [graphics EXCEPT ![LastInUse(graphics)] = 0]
       ELSE IF \E i \in 0 .. 3 : graphics[i] = id THEN graphics
       ELSE [graphics EXCEPT ![FirstFree(graphics)] = id]
  /\ UNCHANGED <<username, faces, moving, blocks>>

\* The constructors of Entity and Player, and a name.
UpdateInit ==
  /\ graphics = [i \in 0 .. 3 |-> IF i = 0 THEN 188 ELSE 0]
  /\ username \in NameLengths
  /\ faces = TRUE /\ moving = TRUE
  /\ blocks = <<>>

set_update_movement_type(value) == moving' = value /\ UNCHANGED <<graphics, username, faces, blocks>>

\* The bits of the mask, by what they announce.
GraphicBit == <<4, 32768, 4194304, 8388608>>
AppearanceBit == 16
ClanBit == 262144
FaceBit == 1
MovementBit == 128

Flag(condition, bit) == IF condition THEN bit ELSE 0

\* The flags, and two more for a second and a third byte of the mask.
Mask ==
  LET mask == ClanBit + AppearanceBit + Flag(faces, FaceBit)
                + Flag(graphics[0] # 0, GraphicBit[1]) + Flag(graphics[1] # 0, GraphicBit[2])
                + Flag(graphics[2] # 0, GraphicBit[3]) + Flag(graphics[3] # 0, GraphicBit[4])
                + Flag(moving, MovementBit)
      two == mask + Flag(mask >= 255, 2)
  IN  two + Flag(two >= 65535, 1024)

MaskBytes == 1 + (IF Mask > 255 THEN 1 ELSE 0) + (IF Mask > 65535 THEN 1 ELSE 0)

Block(bit, size) == [bit |-> bit, size |-> size, length |-> 0]

\* The fields of GetPlayerAppearance, in bytes.
AppearanceFields ==
  1 + 1 + 1 + 1                  \* flag, skull, and two more
  + 1 + 1 + 1 + 1 + 2 + 1        \* hat, cape, amulet, weapon, chest, shield
  + 2 + 2 + 2 + 2 + 2 + 1 + 2    \* arms, legs, hands, feet, beard, aura, slots
  + 10                           \* colours
  + 2 + (username + 1)           \* render emote, name
  + 1 + 1 + 1 + 1                \* combat level twice, and two more

\* GetPlayerAppearance: the length of what follows, in one byte before it.
GetPlayerAppearance ==
  [bit |-> AppearanceBit, size |-> 1 + AppearanceFields, length |-> AppearanceFields % 256]

GraphicBlocks == [i \in 0 .. 3 |-> IF graphics[i] # 0 THEN <<Block(GraphicBit[i + 1], 2 + 4 + 1)>> ELSE <<>>]

\* (Seeded defect.) The direction is not sent with the rest.
WithoutFace ==
  GraphicBlocks[0] \o GraphicBlocks[1] \o GraphicBlocks[2] \o GraphicBlocks[3]
  \o <<GetPlayerAppearance>> \o <<Block(ClanBit, 1)>>
  \o (IF moving THEN <<Block(MovementBit, 4)>> ELSE <<>>)

\* The blocks behind the mask.
Blocks ==
  GraphicBlocks[0] \o GraphicBlocks[1] \o GraphicBlocks[2] \o GraphicBlocks[3]
  \o <<GetPlayerAppearance>>
  \o (IF faces THEN <<Block(FaceBit, 4)>> ELSE <<>>)
  \o <<Block(ClanBit, 1)>>
  \o (IF moving THEN <<Block(MovementBit, 4)>> ELSE <<>>)

\* The player comes into view.
MovedIntoView == blocks' = Blocks /\ UNCHANGED <<graphics, username, faces, moving>>

UpdateNext ==
  \/ \E id \in GraphicIds \cup {0} : SetNextGraphics(id)
  \/ \E value \in BOOLEAN : set_update_movement_type(value)
  \/ MovedIntoView

-----------------------------------------------------------------------------
(* Properties *)

\* Whatever is set and cleared, the graphics fill the slots from the first and
\* none is there twice: the four flags of the mask never skip one.
GraphicsPacked ==
  \A i, j \in 0 .. 3 :
    /\ i < j /\ graphics[j] # 0 => graphics[i] # 0
    /\ i # j /\ graphics[i] # 0 => graphics[i] # graphics[j]

MaskHas(bit) == (Mask \div bit) % 2 = 1
AllBits == ToSet(GraphicBit) \cup {AppearanceBit, ClanBit, FaceBit, MovementBit}

\* An update carries a block for every flag of its mask, once and no other,
\* and the mask is as long as its two flags for that say.
AnnouncedIsSent ==
  LET update == Blocks
  IN  /\ \A bit \in AllBits : Cardinality({i \in 1 .. Len(update) : update[i].bit = bit}) = (IF MaskHas(bit) THEN 1 ELSE 0)
      /\ MaskHas(2) <=> MaskBytes >= 2
      /\ MaskHas(1024) <=> MaskBytes = 3

\* The longest name whose appearance a byte can measure.
kLongestMeasured == 214

\* A client that skips an appearance by its length arrives at the next block,
\* as long as the name is no longer than a byte allows.
LengthLeadsToNextBlock ==
  username <= kLongestMeasured =>
    \A i \in 1 .. Len(blocks) : blocks[i].bit = AppearanceBit => 1 + blocks[i].length = blocks[i].size

\* A client can find its way through an update.
UpdateCanBeRead == GraphicsPacked /\ AnnouncedIsSent /\ LengthLeadsToNextBlock
=============================================================================
