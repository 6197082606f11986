------------------------------- MODULE Buffer -------------------------------
(***************************************************************************)
(* openrs::common::io::Buffer: bytes with a position.  Values are put one  *)
(* behind the other in one of the codings of the protocol, and taken out   *)
(* again in the same order, by this server or by its client.               *)
(***************************************************************************)
EXTENDS Integers, Sequences

CONSTANTS
  Values2, Values4,  \* what is put into two and into four bytes
  Texts,             \* strings, as sequences of characters
  MaxPuts            \* bound: values in one buffer

\* No string holds one of the two characters that end it for a reader.
ASSUME BufferAssumption ==
  /\ \A v \in Values2 : v \in Nat /\ v < 65536
  /\ \A v \in Values4 : v \in Nat /\ v \div 65536 < 65536
  /\ \A text \in Texts : text \in Seq(Nat) /\ \A i \in 1 .. Len(text) : text[i] \notin {0, 10}
  /\ MaxPuts \in Nat

VARIABLES
  content,   \* the bytes
  position,  \* where the next value is taken
  puts,      \* history: the codings and the values put, in order
  taken      \* what has been taken out, in order

bufferVars == <<content, position, puts, taken>>

Shift == 128

\* The bytes of a value, the lowest first, and what each is worth.
Weight == <<1, 256, 65536, 16777216>>
ByteOf(v, i) == (v \div Weight[i]) % 256

\* PutData, PutDataLE: the bytes as they lie in memory.
BytesLE(v, n) == [i \in 1 .. n |-> ByteOf(v, i)]

\* PutDataBE.
BytesBE(v, n) == [i \in 1 .. n |-> ByteOf(v, n + 1 - i)]

\* PutDataVBE: the bytes of each pair change places. PutDataVLE: the pairs do.
BytesVBE(v, n) == [i \in 1 .. n |-> ByteOf(v, IF i % 2 = 1 THEN i + 1 ELSE i - 1)]
BytesVLE(v, n) == [i \in 1 .. n |-> ByteOf(v, n + 1 - 2 * ((i + 1) \div 2) + (1 - (i % 2)))]

\* ShiftNegative of a byte: its eight bits are taken from the shift.
ShiftNegative(v) == (Shift - v) % 256

\* (Seeded defect.) The sum is not cut to eight bits.
ShiftPositiveCarries(v, n) == (v + Shift) % Weight[n + 1]

\* ShiftPositive: the low byte alone is moved.
ShiftPositive(v, n) == (v - (v % 256)) + ((Shift + (v % 256)) % 256)

\* PutSmartBE: one byte below 127, else two with the highest bit set.
Smart(v) == IF v >= 127 THEN BytesBE((v + 32768) % 65536, 2) ELSE <<v>>

\* The sixteen bits of a number, and a byte from eight of them.
BitWeight == <<1, 2, 4, 8, 16, 32, 64, 128, 256, 512, 1024, 2048, 4096, 8192, 16384, 32768>>
Bit(v, i) == (v \div BitWeight[i + 1]) % 2
Octet(b) == b[0] + 2 * b[1] + 4 * b[2] + 8 * b[3] + 16 * b[4] + 32 * b[5] + 64 * b[6] + 128 * b[7]

\* PutBitSetBE and PutBitSetLE, for the sixteen bits of a number.
BitSetBE(v) == [k \in 1 .. 2 |-> Octet([i \in 0 .. 7 |-> Bit(v, 8 * k - 1 - i)])]
BitSetLE(v) == [k \in 1 .. 2 |-> Octet([i \in 0 .. 7 |-> Bit(v, 8 * (2 - k) + i)])]

\* PutString ends a string with a zero.
Terminated(text) == text \o <<0>>

\* The codings, and what each is used for.
Codings2 == {"LE", "BE", "ShiftedPosBE", "ShiftedPosLE", "VBE", "VLE", "BitSetBE", "BitSetLE"}
Codings4 == {"LE4", "BE4", "VBE4", "VLE4"}
Encoded(coding, v) ==
  CASE coding = "Byte" -> <<v>>
    [] coding = "ShiftedNeg" -> <<ShiftNegative(v)>>
    [] coding = "ShiftedPos" -> <<ShiftPositive(v, 1)>>
    [] coding = "Smart" -> Smart(v)
    [] coding = "LE" -> BytesLE(v, 2)
    [] coding = "BE" -> BytesBE(v, 2)
    [] coding = "ShiftedPosBE" -> BytesBE(ShiftPositive(v, 2), 2)
    [] coding = "ShiftedPosLE" -> BytesLE(ShiftPositive(v, 2), 2)
    [] coding = "VBE" -> BytesVBE(v, 2)
    [] coding = "VLE" -> BytesVLE(v, 2)
    [] coding = "BitSetBE" -> BitSetBE(v)
    [] coding = "BitSetLE" -> BitSetLE(v)
    [] coding = "LE4" -> BytesLE(v, 4)
    [] coding = "BE4" -> BytesBE(v, 4)
    [] coding = "VBE4" -> BytesVBE(v, 4)
    [] coding = "VLE4" -> BytesVLE(v, 4)
    [] coding = "TriByte" -> BytesBE(v, 3)
    [] coding = "String" -> Terminated(v)

\* A coding with a value it is used for.
Coded ==
  ({"Byte", "ShiftedNeg", "ShiftedPos"} \X {v \in Values2 : v < 256}) \cup ({"Smart"} \X {v \in Values2 : v < 32768})
  \cup (Codings2 \X Values2) \cup (Codings4 \X Values4) \cup ({"TriByte"} \X {v \in Values4 : v < 16777216})

BufferInit == content = <<>> /\ position = 0 /\ puts = <<>> /\ taken = <<>>

\* Every Put appends.
Put(coding, v) ==
  /\ Len(puts) < MaxPuts
  /\ content' = content \o Encoded(coding, v)
  /\ puts' = Append(puts, <<coding, v>>)
  /\ UNCHANGED <<position, taken>>

Remaining == Len(content) - position
At(i) == content[position + i]

\* GetData leaves the position where it is when there are too few bytes.
GetData(n) == n <= Remaining /\ position' = position + n

\* GetString leaves the position behind the first zero or end of a line; what
\* it returns goes up to the first zero, the end of a line included.
Until(ends) == CHOOSE n \in 0 .. Remaining - 1 : At(n + 1) \in ends /\ \A i \in 1 .. n : At(i) \notin ends

Pair == At(1) * 256 + At(2)
LowFirst == At(1) + At(2) * 256
Triple == At(1) * 65536 + At(2) * 256 + At(3)
Quad(a, b, c, d) == At(a) * 16777216 + At(b) * 65536 + At(c) * 256 + At(d)
SmartTaken == IF At(1) >= 128 THEN Pair - 32768 ELSE At(1)
Unshifted(v) == (v - (v % 256)) + (((v % 256) - Shift) % 256)
Mirrored(b) == Octet([i \in 0 .. 7 |-> Bit(b, 7 - i)])
MirroredPair == Mirrored(At(1)) + Mirrored(At(2)) * 256

\* How the reader takes a value out: how many bytes, and what they mean.
Size(coding) ==
  CASE coding \in {"Byte", "ShiftedNeg", "ShiftedPos"} -> 1
    [] coding = "Smart" -> IF At(1) >= 128 THEN 2 ELSE 1
    [] coding \in Codings2 -> 2
    [] coding = "TriByte" -> 3
    [] coding = "String" -> Until({0, 10}) + 1
    [] coding \in Codings4 -> 4
Decoded(coding) ==
  CASE coding = "Byte" -> At(1)
    [] coding = "ShiftedNeg" -> (Shift - At(1)) % 256
    [] coding = "ShiftedPos" -> Unshifted(At(1))
    [] coding = "Smart" -> SmartTaken
    [] coding \in {"LE", "VLE"} -> LowFirst
    [] coding \in {"BE", "VBE", "BitSetLE"} -> Pair
    [] coding = "ShiftedPosBE" -> Unshifted(Pair)
    [] coding = "ShiftedPosLE" -> Unshifted(LowFirst)
    [] coding = "BitSetBE" -> MirroredPair
    [] coding = "TriByte" -> Triple
    [] coding = "BE4" -> Quad(1, 2, 3, 4)
    [] coding = "LE4" -> Quad(4, 3, 2, 1)
    [] coding = "VBE4" -> Quad(3, 4, 1, 2)
    [] coding = "VLE4" -> Quad(2, 1, 4, 3)
    [] coding = "String" -> SubSeq(content, position + 1, position + Until({0}))

Get ==
  /\ Len(taken) < Len(puts)
  /\ LET coding == puts[Len(taken) + 1][1]
     IN  /\ GetData(Size(coding))
         /\ taken' = Append(taken, Decoded(coding))
  /\ UNCHANGED <<content, puts>>

\* ClearOldData: what was taken goes, and the position starts again.
ClearOldData ==
  /\ position # 0
  /\ content' = SubSeq(content, position + 1, Len(content))
  /\ position' = 0
  /\ UNCHANGED <<puts, taken>>

BufferNext ==
  \/ \E c \in Coded : Put(c[1], c[2])
  \/ \E text \in Texts : Put("String", text)
  \/ Get \/ ClearOldData

-----------------------------------------------------------------------------
(* Properties *)

\* The values come out as they were put in, whatever coding stands before
\* them: none writes a byte more or less than its reader takes.
SameValues == \A i \in 1 .. Len(taken) : taken[i] = puts[i][2]

\* When all values are out the position is at the end, and nothing is left
\* after the old data is cleared.
NothingLeft == taken # <<>> /\ Len(taken) = Len(puts) => Remaining = 0

\* Reader and writer agree on every coding, alone and behind any other.
ValuesComeBack == SameValues /\ NothingLeft
=============================================================================
