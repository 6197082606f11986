----------------------------- MODULE BitBuffer -----------------------------
(***************************************************************************)
(* openrs::common::io::BitBuffer, one byte at a time, under the programs   *)
(* that write with it: GetLocalPlayerUpdate and the two messages of a move *)
(* (worldmanager.cpp).  A bit is the number of the write it came from and  *)
(* its place in the data, or Zero.                                         *)
(***************************************************************************)
EXTENDS Integers, Sequences, FiniteSets, FiniteSetsExt

CONSTANTS
  kSlots,       \* players the buffer of an update is sized for: 2046
  MaxPlayerSlot \* bound: slots of the players

ASSUME BitBufferAssumption == kSlots \in Nat /\ MaxPlayerSlot \in Nat

VARIABLES
  others,       \* the slots of the other players of the world
  bits,         \* the contents, eight to a byte
  bitPosition,
  program,      \* the writes still to be made
  unplaced,     \* players the loop of an update has still to come to
  written,      \* history: where each write began, and its width
  left,         \* bits of the current write that are not stored yet
  byte,         \* the byte the loop is at
  offset,       \* the bits of that byte that are free, from its low end
  overrun       \* a byte outside of the contents was stored to

callVars == <<left, byte, offset>>
bitVars == <<others, bits, bitPosition, program, unplaced, written, callVars, overrun>>

Zero == <<0, 0>>
Zeros(bytes) == [i \in 1 .. 8 * bytes |-> Zero]
Size8 == Len(bits) \div 8

\* The parts of an update: a tile hash for oneself and a region hash for every
\* slot, whether somebody is there or not.
TileBits == 30
RegionBits == 18
UpdateBytes == (TileBits + kSlots * RegionBits + 7) \div 8

Write(at, width) == [at |-> at, width |-> width]
Here == -1

\* (Seeded defect.) The place of an entry counts its players, not its slot.
PlaceByRank(slot, slots) == Write(TileBits + RegionBits * Cardinality({s \in slots : s < slot}), RegionBits)

Place(slot, slots) == Write(TileBits + RegionBits * slot, RegionBits)

\* GetLocalPlayerUpdate, up to the loop over the other players.
LocalUpdate == <<Write(Here, TileBits)>>

\* The bits that precede an appearance.
MovedOut == <<Write(Here, 1), Write(Here, 1), Write(Here, 2), Write(Here, 1)>>
MovedIn == <<Write(Here, 1), Write(Here, 1), Write(Here, 2)>>

BitInit ==
  /\ others \in SUBSET (0 .. MaxPlayerSlot)
  /\ unplaced = others
  /\ \/ program = LocalUpdate /\ bits = Zeros(UpdateBytes)
     \/ program \in {MovedOut, MovedIn} /\ others = {} /\ bits = <<>>
  /\ bitPosition = 0 /\ written = <<>> /\ overrun = FALSE
  /\ left = 0 /\ byte = 0 /\ offset = 0

\* seek, where the program asks for it, and the head of PutData.
Begin(w) ==
  LET start == IF w.at = Here THEN bitPosition ELSE w.at
  IN  /\ left = 0 /\ ~overrun
      /\ written' = Append(written, Write(start, w.width))
      /\ bitPosition' = start + w.width
      /\ left' = w.width
      /\ byte' = start \div 8
      /\ offset' = 8 - (start % 8)
      /\ UNCHANGED <<others, bits, overrun>>

BeginPut ==
  /\ program # <<>> /\ Begin(Head(program))
  /\ program' = Tail(program) /\ UNCHANGED unplaced

\* The loop over the other players, in ascending order.
BeginPlayer ==
  /\ program = <<>> /\ unplaced # {}
  /\ Begin(Place(Min(unplaced), others))
  /\ unplaced' = unplaced \ {Min(unplaced)} /\ UNCHANGED program

\* The data's bits that go to the current byte, the highest first.
Stored(n) ==
  [i \in 1 .. Len(bits) |->
    IF i - 1 - (8 * byte + 8 - offset) \in 0 .. n - 1
    THEN <<Len(written), left - (i - 1 - (8 * byte + 8 - offset))>>
    ELSE bits[i]]

\* resize(byte_position) makes room for the bytes before, not for this one.
Missing == Size8 <= byte

PutFullByte ==
  /\ left > offset /\ ~Missing /\ ~overrun
  /\ bits' = Stored(offset)
  /\ left' = left - offset /\ byte' = byte + 1 /\ offset' = 8
  /\ UNCHANGED <<others, bitPosition, program, unplaced, written, overrun>>

\* The last byte is made in time where it is the first of the buffer.
NoRoomForLast == Missing /\ byte # 0

MakeFirstByte ==
  /\ left \in 1 .. offset /\ Missing /\ ~NoRoomForLast
  /\ bits' = Zeros(1)
  /\ UNCHANGED <<others, bitPosition, program, unplaced, written, callVars, overrun>>

PutLastByte ==
  /\ left \in 1 .. offset /\ ~Missing /\ ~overrun
  /\ bits' = Stored(left)
  /\ left' = 0
  /\ UNCHANGED <<others, bitPosition, program, unplaced, written, byte, offset, overrun>>

\* A store past the end.
Overrun ==
  /\ ~overrun
  /\ (left > offset /\ Missing) \/ (left \in 1 .. offset /\ NoRoomForLast)
  /\ overrun' = TRUE
  /\ UNCHANGED <<others, bits, bitPosition, program, unplaced, written, callVars>>

BitNext == BeginPut \/ BeginPlayer \/ PutFullByte \/ MakeFirstByte \/ PutLastByte \/ Overrun

-----------------------------------------------------------------------------
(* Properties *)

\* Between two writes every bit written so far is where it was put: no write
\* touches the bits of another, in whichever byte they share. The entry of a
\* slot is where its number says, and the entries of empty slots are zero.
WrittenInPlace ==
  left = 0 =>
    /\ \A i \in 1 .. Len(written) : \A b \in 1 .. written[i].width :
         bits[written[i].at + b] = <<i, written[i].width + 1 - b>>
    /\ \A p \in 1 .. Len(bits) :
         bits[p] # Zero => \E i \in 1 .. Len(written) : p - written[i].at \in 1 .. written[i].width
    /\ program = <<>> /\ unplaced = {} /\ others # {} =>
         \A slot \in 0 .. MaxPlayerSlot :
           8 * Size8 >= TileBits + RegionBits * (slot + 1) =>
             (slot \in others <=> bits[TileBits + RegionBits * slot + 1] # Zero)

\* A store past the end needs a player beyond the slots the update has room
\* for; nothing in add_player keeps one out.
OverrunNeedsManyPlayers == overrun => \E slot \in others : slot >= kSlots

\* The client finds every bit where it looks for it, and none is stored beyond
\* the bytes as long as the slots fit.
BitsStayInPlace == WrittenInPlace /\ OverrunNeedsManyPlayers
=============================================================================
