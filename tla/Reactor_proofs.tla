--------------------------- MODULE Reactor_proofs ---------------------------
(* What the buffers of the sessions are given comes back, for any values;   *)
(* and the tables of the reactor belong together, for any number of clients. *)
EXTENDS Reactor, Buffer, SequenceTheorems, TLAPS

-----------------------------------------------------------------------------
(* Buffers *)

\* The four bytes of a value add up to it.
LEMMA BytesAddUp ==
  ASSUME NEW v \in Nat
  PROVE  /\ \A i \in 1 .. 4 : ByteOf(v, i) \in 0 .. 255
         /\ v < 256 => v = ByteOf(v, 1)
         /\ v < 65536 => v = ByteOf(v, 1) + ByteOf(v, 2) * 256
         /\ v < 16777216 => v = ByteOf(v, 1) + ByteOf(v, 2) * 256 + ByteOf(v, 3) * 65536
         /\ v \div 65536 < 65536 =>
              v = ByteOf(v, 1) + ByteOf(v, 2) * 256 + ByteOf(v, 3) * 65536 + ByteOf(v, 4) * 16777216
<1>1. /\ ByteOf(v, 1) = v % 256
      /\ ByteOf(v, 2) = (v \div 256) % 256
      /\ ByteOf(v, 3) = (v \div 65536) % 256
      /\ ByteOf(v, 4) = (v \div 16777216) % 256
  BY DEF ByteOf, Weight
<1>2. \A i \in 1 .. 4 : i \in {1, 2, 3, 4}
  OBVIOUS
<1> DEFINE a == v % 256
           b == (v \div 256) % 256
           c == (v \div 65536) % 256
           d == (v \div 16777216) % 256
<1>3. v = a + 256 * (v \div 256) /\ a \in 0 .. 255 /\ v \div 256 \in Nat
  OBVIOUS
<1>4. v \div 256 = b + 256 * (v \div 65536) /\ b \in 0 .. 255 /\ v \div 65536 \in Nat
  OBVIOUS
<1>5. v \div 65536 = c + 256 * (v \div 16777216) /\ c \in 0 .. 255 /\ v \div 16777216 \in Nat
  OBVIOUS
<1>6. v \div 65536 < 65536 => d = v \div 16777216
  OBVIOUS
<1>7. d \in 0 .. 255
  OBVIOUS
<1> DEFINE q == v \div 256
           r == v \div 65536
           s == v \div 16777216
<1>8. /\ v = a + 256 * q /\ q = b + 256 * r /\ r = c + 256 * s
      /\ (r < 65536 => d = s)
      /\ a \in 0 .. 255 /\ b \in 0 .. 255 /\ c \in 0 .. 255 /\ d \in 0 .. 255
      /\ q \in Nat /\ r \in Nat /\ s \in Nat
  BY <1>3, <1>4, <1>5, <1>6, <1>7
<1> HIDE DEF a, b, c, d, q, r, s
<1>9. /\ v < 256 => v = a
      /\ v < 65536 => v = a + b * 256
      /\ v < 16777216 => v = a + b * 256 + c * 65536
      /\ r < 65536 => v = a + b * 256 + c * 65536 + d * 16777216
  BY <1>8
<1> QED
  BY <1>1, <1>2, <1>8, <1>9 DEF a, b, c, d, q, r, s

\* A number as its lowest bit and the rest.
LEMMA LowestBit ==
  ASSUME NEW v \in Nat
  PROVE  v = 2 * (v \div 2) + (v % 2) /\ v % 2 \in 0 .. 1 /\ v \div 2 \in Nat
<1>1. v = 2 * (v \div 2) + (v % 2)
  OBVIOUS
<1>2. v % 2 \in 0 .. 1 /\ v \div 2 \in Nat
  OBVIOUS
<1> QED
  BY <1>1, <1>2

\* Eight bits in turn, from any place, are the number they begin.
LEMMA EightBits ==
  ASSUME NEW v \in Nat
  PROVE  v % 256 = (v % 2) + 2 * ((v \div 2) % 2) + 4 * ((v \div 4) % 2) + 8 * ((v \div 8) % 2)
                   + 16 * ((v \div 16) % 2) + 32 * ((v \div 32) % 2) + 64 * ((v \div 64) % 2)
                   + 128 * ((v \div 128) % 2)
<1> DEFINE q1 == v \div 2
           q2 == v \div 4
           q3 == v \div 8
           q4 == v \div 16
           q5 == v \div 32
           q6 == v \div 64
           q7 == v \div 128
           q8 == v \div 256
<1>1. q1 \div 2 = q2 /\ q1 \in Nat
  OBVIOUS
<1>2. q2 \div 2 = q3 /\ q2 \in Nat
  OBVIOUS
<1>3. q3 \div 2 = q4 /\ q3 \in Nat
  OBVIOUS
<1>4. q4 \div 2 = q5 /\ q4 \in Nat
  OBVIOUS
<1>5. q5 \div 2 = q6 /\ q5 \in Nat
  OBVIOUS
<1>6. q6 \div 2 = q7 /\ q6 \in Nat
  OBVIOUS
<1>7. q7 \div 2 = q8 /\ q7 \in Nat
  OBVIOUS
<1>8. v = 256 * q8 + (v % 256) /\ q8 \in Nat /\ v \div 2 = q1 /\ v % 256 \in Nat
  OBVIOUS
<1> HIDE DEF q1, q2, q3, q4, q5, q6, q7, q8
<1>9. /\ v = 2 * q1 + (v % 2) /\ q1 = 2 * q2 + (q1 % 2) /\ q2 = 2 * q3 + (q2 % 2) /\ q3 = 2 * q4 + (q3 % 2)
      /\ q4 = 2 * q5 + (q4 % 2) /\ q5 = 2 * q6 + (q5 % 2) /\ q6 = 2 * q7 + (q6 % 2) /\ q7 = 2 * q8 + (q7 % 2)
      /\ v % 2 \in 0 .. 1 /\ q1 % 2 \in 0 .. 1 /\ q2 % 2 \in 0 .. 1 /\ q3 % 2 \in 0 .. 1
      /\ q4 % 2 \in 0 .. 1 /\ q5 % 2 \in 0 .. 1 /\ q6 % 2 \in 0 .. 1 /\ q7 % 2 \in 0 .. 1
  BY <1>1, <1>2, <1>3, <1>4, <1>5, <1>6, <1>7, <1>8, LowestBit
<1> DEFINE b0 == v % 2
           b1 == q1 % 2
           b2 == q2 % 2
           b3 == q3 % 2
           b4 == q4 % 2
           b5 == q5 % 2
           b6 == q6 % 2
           b7 == q7 % 2
           m == v % 256
<1>10. /\ v = 2 * q1 + b0 /\ q1 = 2 * q2 + b1 /\ q2 = 2 * q3 + b2 /\ q3 = 2 * q4 + b3
       /\ q4 = 2 * q5 + b4 /\ q5 = 2 * q6 + b5 /\ q6 = 2 * q7 + b6 /\ q7 = 2 * q8 + b7
       /\ v = 256 * q8 + m
       /\ b0 \in Int /\ b1 \in Int /\ b2 \in Int /\ b3 \in Int /\ b4 \in Int /\ b5 \in Int /\ b6 \in Int /\ b7 \in Int
       /\ q1 \in Int /\ q2 \in Int /\ q3 \in Int /\ q4 \in Int /\ q5 \in Int /\ q6 \in Int /\ q7 \in Int /\ q8 \in Int
       /\ m \in Int
  BY <1>1, <1>2, <1>3, <1>4, <1>5, <1>6, <1>7, <1>8, <1>9
<1> HIDE DEF b0, b1, b2, b3, b4, b5, b6, b7, m
<1>11. m = b0 + 2 * b1 + 4 * b2 + 8 * b3 + 16 * b4 + 32 * b5 + 64 * b6 + 128 * b7
  BY <1>10
<1> QED
  BY <1>11 DEF b0, b1, b2, b3, b4, b5, b6, b7, m, q1, q2, q3, q4, q5, q6, q7

\* A bit is nought or one.
LEMMA BitType ==
  ASSUME NEW v \in Nat, NEW i \in 0 .. 15
  PROVE  Bit(v, i) \in 0 .. 1
<1>1. i \in {0, 1, 2, 3, 4, 5, 6, 7, 8, 9, 10, 11, 12, 13, 14, 15}
  OBVIOUS
<1>2. \A m \in Nat : m % 2 \in 0 .. 1
  OBVIOUS
<1>3. v \div BitWeight[i + 1] \in Nat
  BY <1>1 DEF BitWeight
<1> QED
  BY <1>2, <1>3 DEF Bit

\* The two bytes of a number are made of its bits.
LEMMA OctetsOfNumber ==
  ASSUME NEW v \in Nat
  PROVE  /\ Octet([i \in 0 .. 7 |-> Bit(v, i)]) = v % 256
         /\ Octet([i \in 0 .. 7 |-> Bit(v, 8 + i)]) = (v \div 256) % 256
<1>1. Octet([i \in 0 .. 7 |-> Bit(v, i)]) = v % 256
  <2>1. Octet([i \in 0 .. 7 |-> Bit(v, i)]) =
          Bit(v, 0) + 2 * Bit(v, 1) + 4 * Bit(v, 2) + 8 * Bit(v, 3) + 16 * Bit(v, 4) + 32 * Bit(v, 5)
          + 64 * Bit(v, 6) + 128 * Bit(v, 7)
    BY DEF Octet
  <2> DEFINE sum == (v % 2) + 2 * ((v \div 2) % 2) + 4 * ((v \div 4) % 2) + 8 * ((v \div 8) % 2)
                    + 16 * ((v \div 16) % 2) + 32 * ((v \div 32) % 2) + 64 * ((v \div 64) % 2)
                    + 128 * ((v \div 128) % 2)
  <2>4. /\ Bit(v, 0) = v % 2 /\ Bit(v, 1) = (v \div 2) % 2 /\ Bit(v, 2) = (v \div 4) % 2
        /\ Bit(v, 3) = (v \div 8) % 2 /\ Bit(v, 4) = (v \div 16) % 2 /\ Bit(v, 5) = (v \div 32) % 2
        /\ Bit(v, 6) = (v \div 64) % 2 /\ Bit(v, 7) = (v \div 128) % 2
    BY DEF Bit, BitWeight
  <2>2. Octet([i \in 0 .. 7 |-> Bit(v, i)]) = sum
    BY <2>1, <2>4, Zenon
  <2>3. v % 256 = sum
    BY EightBits
  <2> QED
    BY <2>2, <2>3
<1>2. Octet([i \in 0 .. 7 |-> Bit(v, 8 + i)]) = (v \div 256) % 256
  <2>1. Octet([i \in 0 .. 7 |-> Bit(v, 8 + i)]) =
          Bit(v, 8) + 2 * Bit(v, 9) + 4 * Bit(v, 10) + 8 * Bit(v, 11) + 16 * Bit(v, 12) + 32 * Bit(v, 13)
          + 64 * Bit(v, 14) + 128 * Bit(v, 15)
    BY DEF Octet
  <2>0. /\ Bit(v, 8) = (v \div 256) % 2 /\ Bit(v, 9) = (v \div 512) % 2 /\ Bit(v, 10) = (v \div 1024) % 2
        /\ Bit(v, 11) = (v \div 2048) % 2 /\ Bit(v, 12) = (v \div 4096) % 2 /\ Bit(v, 13) = (v \div 8192) % 2
        /\ Bit(v, 14) = (v \div 16384) % 2 /\ Bit(v, 15) = (v \div 32768) % 2
    BY DEF Bit, BitWeight
  <2> DEFINE w == v \div 256
  <2>2. w \in Nat
    OBVIOUS
  <2>3. v \div 512 = w \div 2 /\ v \div 1024 = w \div 4 /\ v \div 2048 = w \div 8 /\ v \div 4096 = w \div 16
    OBVIOUS
  <2>4. v \div 8192 = w \div 32 /\ v \div 16384 = w \div 64 /\ v \div 32768 = w \div 128
    OBVIOUS
  <2> HIDE DEF w
  <2> DEFINE sum == (w % 2) + 2 * ((w \div 2) % 2) + 4 * ((w \div 4) % 2) + 8 * ((w \div 8) % 2)
                    + 16 * ((w \div 16) % 2) + 32 * ((w \div 32) % 2) + 64 * ((w \div 64) % 2)
                    + 128 * ((w \div 128) % 2)
  <2>5. w % 256 = sum
    BY <2>2, EightBits
  <2>6. /\ Bit(v, 8) = w % 2 /\ Bit(v, 9) = (w \div 2) % 2 /\ Bit(v, 10) = (w \div 4) % 2
        /\ Bit(v, 11) = (w \div 8) % 2 /\ Bit(v, 12) = (w \div 16) % 2 /\ Bit(v, 13) = (w \div 32) % 2
        /\ Bit(v, 14) = (w \div 64) % 2 /\ Bit(v, 15) = (w \div 128) % 2
    <3>1. v \div 256 = w
      BY DEF w
    <3>2. Bit(v, 8) = w % 2
      BY <2>0, <3>1
    <3>3. Bit(v, 9) = (w \div 2) % 2 /\ Bit(v, 10) = (w \div 4) % 2
      BY <2>0, <2>3
    <3>4. Bit(v, 11) = (w \div 8) % 2 /\ Bit(v, 12) = (w \div 16) % 2
      BY <2>0, <2>3
    <3>5. Bit(v, 13) = (w \div 32) % 2 /\ Bit(v, 14) = (w \div 64) % 2 /\ Bit(v, 15) = (w \div 128) % 2
      BY <2>0, <2>4
    <3> QED
      BY <3>2, <3>3, <3>4, <3>5
  <2>7. Octet([i \in 0 .. 7 |-> Bit(v, 8 + i)]) = sum
    BY <2>1, <2>6, Zenon
  <2> QED
    BY <2>5, <2>7 DEF w
<1> QED
  BY <1>1, <1>2

\* A byte made of eight bits has these bits.
LEMMA BitsOfOctet ==
  ASSUME NEW x \in [0 .. 7 -> 0 .. 1]
  PROVE  Octet(x) \in 0 .. 255 /\ \A i \in 0 .. 7 : Bit(Octet(x), i) = x[i]
<1> DEFINE m == Octet(x)
<1>0. /\ x[0] \in 0 .. 1 /\ x[1] \in 0 .. 1 /\ x[2] \in 0 .. 1 /\ x[3] \in 0 .. 1
      /\ x[4] \in 0 .. 1 /\ x[5] \in 0 .. 1 /\ x[6] \in 0 .. 1 /\ x[7] \in 0 .. 1
  OBVIOUS
<1>1. m = x[0] + 2 * x[1] + 4 * x[2] + 8 * x[3] + 16 * x[4] + 32 * x[5] + 64 * x[6] + 128 * x[7]
  BY DEF Octet
<1>2. m \in 0 .. 255
  BY <1>0, <1>1
<1> HIDE DEF m
<1>3. m \in Nat
  BY <1>2
<1>4. ASSUME NEW bit \in 0 .. 1, NEW rest \in Nat
      PROVE  (2 * rest + bit) % 2 = bit /\ (2 * rest + bit) \div 2 = rest
  OBVIOUS
<1> DEFINE r7 == x[7]
           r6 == 2 * r7 + x[6]
           r5 == 2 * r6 + x[5]
           r4 == 2 * r5 + x[4]
           r3 == 2 * r4 + x[3]
           r2 == 2 * r3 + x[2]
           r1 == 2 * r2 + x[1]
<1>5. /\ r7 \in Nat /\ r6 \in Nat /\ r5 \in Nat /\ r4 \in Nat /\ r3 \in Nat /\ r2 \in Nat /\ r1 \in Nat
      /\ r7 = 2 * 0 + x[7] /\ r6 = 2 * r7 + x[6] /\ r5 = 2 * r6 + x[5] /\ r4 = 2 * r5 + x[4]
      /\ r3 = 2 * r4 + x[3] /\ r2 = 2 * r3 + x[2] /\ r1 = 2 * r2 + x[1] /\ m = 2 * r1 + x[0]
  BY <1>0, <1>1
<1> HIDE DEF r1, r2, r3, r4, r5, r6, r7
<1>6. /\ m \div 2 = r1 /\ r1 \div 2 = r2 /\ r2 \div 2 = r3 /\ r3 \div 2 = r4
      /\ r4 \div 2 = r5 /\ r5 \div 2 = r6 /\ r6 \div 2 = r7
      /\ m % 2 = x[0] /\ r1 % 2 = x[1] /\ r2 % 2 = x[2] /\ r3 % 2 = x[3]
      /\ r4 % 2 = x[4] /\ r5 % 2 = x[5] /\ r6 % 2 = x[6] /\ r7 % 2 = x[7]
  BY <1>0, <1>4, <1>5
<1>7. /\ m % 2 = x[0] /\ (m \div 2) % 2 = x[1] /\ (m \div 4) % 2 = x[2] /\ (m \div 8) % 2 = x[3]
      /\ (m \div 16) % 2 = x[4] /\ (m \div 32) % 2 = x[5] /\ (m \div 64) % 2 = x[6] /\ (m \div 128) % 2 = x[7]
  <2>1. /\ m \div 4 = (m \div 2) \div 2 /\ m \div 8 = (m \div 4) \div 2 /\ m \div 16 = (m \div 8) \div 2
        /\ m \div 32 = (m \div 16) \div 2
    BY <1>3
  <2>2. m \div 64 = (m \div 32) \div 2 /\ m \div 128 = (m \div 64) \div 2
    BY <1>3
  <2>3. m \div 4 = r2
    BY ONLY <1>6, <2>1
  <2>4. m \div 8 = r3
    BY ONLY <1>6, <2>1, <2>3
  <2>5. m \div 16 = r4
    BY ONLY <1>6, <2>1, <2>4
  <2>6. m \div 32 = r5
    BY ONLY <1>6, <2>1, <2>5
  <2>7. m \div 64 = r6
    BY ONLY <1>6, <2>2, <2>6
  <2>8. m \div 128 = r7
    BY ONLY <1>6, <2>2, <2>7
  <2> QED
    BY ONLY <1>6, <2>3, <2>4, <2>5, <2>6, <2>7, <2>8
<1>8. ASSUME NEW i \in 0 .. 7 PROVE Bit(m, i) = x[i]
  <2>1. i \in {0, 1, 2, 3, 4, 5, 6, 7}
    OBVIOUS
  <2>2. /\ Bit(m, 0) = m % 2 /\ Bit(m, 1) = (m \div 2) % 2 /\ Bit(m, 2) = (m \div 4) % 2
        /\ Bit(m, 3) = (m \div 8) % 2 /\ Bit(m, 4) = (m \div 16) % 2 /\ Bit(m, 5) = (m \div 32) % 2
        /\ Bit(m, 6) = (m \div 64) % 2 /\ Bit(m, 7) = (m \div 128) % 2
    BY <1>3 DEF Bit, BitWeight
  <2>3. /\ Bit(m, 0) = x[0] /\ Bit(m, 1) = x[1] /\ Bit(m, 2) = x[2] /\ Bit(m, 3) = x[3]
        /\ Bit(m, 4) = x[4] /\ Bit(m, 5) = x[5] /\ Bit(m, 6) = x[6] /\ Bit(m, 7) = x[7]
    BY <1>7, <2>2, Zenon
  <2> QED
    BY <2>1, <2>3, Zenon
<1> QED
  BY <1>2, <1>8 DEF m

\* A byte whose bits are turned round twice is as it was.
LEMMA MirroredTwice ==
  ASSUME NEW x \in [0 .. 7 -> 0 .. 1]
  PROVE  Mirrored(Octet([i \in 0 .. 7 |-> x[7 - i]])) = Octet(x)
<1> DEFINE y == [i \in 0 .. 7 |-> x[7 - i]]
<1>1. y \in [0 .. 7 -> 0 .. 1]
  OBVIOUS
<1>2. \A i \in 0 .. 7 : Bit(Octet(y), i) = y[i]
  BY <1>1, BitsOfOctet
<1>3. \A i \in 0 .. 7 : 7 - i \in 0 .. 7 /\ y[7 - i] = x[i]
  OBVIOUS
<1>4. [i \in 0 .. 7 |-> Bit(Octet(y), 7 - i)] = [i \in 0 .. 7 |-> x[i]]
  BY <1>2, <1>3
<1>5. [i \in 0 .. 7 |-> x[i]] = x
  OBVIOUS
<1> QED
  BY <1>4, <1>5 DEF Mirrored

\* What ShiftPositive does to the low byte is undone, whatever stands above it.
LEMMA ShiftUndone ==
  ASSUME NEW v \in Nat, NEW n
  PROVE  /\ Unshifted(ShiftPositive(v, n)) = v
         /\ ShiftPositive(v, n) \in Nat
         /\ v < 256 => ShiftPositive(v, n) < 256
         /\ v < 65536 => ShiftPositive(v, n) < 65536
<1> DEFINE low == v % 256
           high == v \div 256
           moved == (128 + (v % 256)) % 256
           w == ShiftPositive(v, n)
<1>1. v = 256 * high + low /\ low \in 0 .. 255 /\ high \in Nat
  OBVIOUS
<1>2. moved \in 0 .. 255 /\ w = (v - low) + moved
  BY DEF ShiftPositive, Shift
<1>3. moved = (128 + low) % 256
  OBVIOUS
<1>4. Unshifted(w) = (w - (w % 256)) + (((w % 256) - 128) % 256)
  BY DEF Unshifted, Shift
<1> HIDE DEF low, high, moved, w
<1>5. (moved - 128) % 256 = low
  <2>1. CASE low < 128
    BY ONLY <1>1, <1>3, <2>1
  <2>2. CASE low >= 128
    BY ONLY <1>1, <1>3, <2>2
  <2> QED
    BY <1>1, <2>1, <2>2
<1>6. w = 256 * high + moved
  BY <1>1, <1>2
<1>7. w % 256 = moved /\ w \in Nat
  BY <1>1, <1>2, <1>6
<1>8. Unshifted(w) = v
  BY <1>1, <1>2, <1>4, <1>5, <1>6, <1>7
<1>9. (v < 256 => w < 256) /\ (v < 65536 => w < 65536)
  BY <1>1, <1>2, <1>6
<1> QED
  BY <1>7, <1>8, <1>9 DEF w

\* The codings one by one: the bytes that are put,
LEMMA EncodedAs ==
  ASSUME NEW v
  PROVE  /\ Encoded("Byte", v) = <<v>>
         /\ Encoded("ShiftedNeg", v) = <<ShiftNegative(v)>>
         /\ Encoded("ShiftedPos", v) = <<ShiftPositive(v, 1)>>
         /\ Encoded("Smart", v) = Smart(v)
         /\ Encoded("LE", v) = BytesLE(v, 2)
         /\ Encoded("BE", v) = BytesBE(v, 2)
         /\ Encoded("ShiftedPosBE", v) = BytesBE(ShiftPositive(v, 2), 2)
         /\ Encoded("ShiftedPosLE", v) = BytesLE(ShiftPositive(v, 2), 2)
         /\ Encoded("VBE", v) = BytesVBE(v, 2)
         /\ Encoded("VLE", v) = BytesVLE(v, 2)
         /\ Encoded("BitSetBE", v) = BitSetBE(v)
         /\ Encoded("BitSetLE", v) = BitSetLE(v)
         /\ Encoded("LE4", v) = BytesLE(v, 4)
         /\ Encoded("BE4", v) = BytesBE(v, 4)
         /\ Encoded("VBE4", v) = BytesVBE(v, 4)
         /\ Encoded("VLE4", v) = BytesVLE(v, 4)
         /\ Encoded("TriByte", v) = BytesBE(v, 3)
         /\ Encoded("String", v) = Terminated(v)
BY Zenon DEF Encoded

\* how many are taken,
LEMMA SizeAs ==
  /\ Size("Byte") = 1
  /\ Size("ShiftedNeg") = 1
  /\ Size("ShiftedPos") = 1
  /\ Size("Smart") = (IF At(1) >= 128 THEN 2 ELSE 1)
  /\ Size("LE") = 2
  /\ Size("BE") = 2
  /\ Size("ShiftedPosBE") = 2
  /\ Size("ShiftedPosLE") = 2
  /\ Size("VBE") = 2
  /\ Size("VLE") = 2
  /\ Size("BitSetBE") = 2
  /\ Size("BitSetLE") = 2
  /\ Size("LE4") = 4
  /\ Size("BE4") = 4
  /\ Size("VBE4") = 4
  /\ Size("VLE4") = 4
  /\ Size("TriByte") = 3
  /\ Size("String") = Until({0, 10}) + 1
BY Zenon DEF Size, Codings2, Codings4

\* and what they are read as.
LEMMA DecodedAs ==
  /\ Decoded("Byte") = At(1)
  /\ Decoded("ShiftedNeg") = (Shift - At(1)) % 256
  /\ Decoded("ShiftedPos") = Unshifted(At(1))
  /\ Decoded("Smart") = SmartTaken
  /\ Decoded("LE") = LowFirst
  /\ Decoded("BE") = Pair
  /\ Decoded("ShiftedPosBE") = Unshifted(Pair)
  /\ Decoded("ShiftedPosLE") = Unshifted(LowFirst)
  /\ Decoded("VBE") = Pair
  /\ Decoded("VLE") = LowFirst
  /\ Decoded("BitSetBE") = MirroredPair
  /\ Decoded("BitSetLE") = Pair
  /\ Decoded("LE4") = Quad(4, 3, 2, 1)
  /\ Decoded("BE4") = Quad(1, 2, 3, 4)
  /\ Decoded("VBE4") = Quad(3, 4, 1, 2)
  /\ Decoded("VLE4") = Quad(2, 1, 4, 3)
  /\ Decoded("TriByte") = Triple
  /\ Decoded("String") = SubSeq(content, position + 1, position + Until({0}))
BY Zenon DEF Decoded

\* The bytes of a value, written out.
LEMMA BytesInTurn ==
  ASSUME NEW v
  PROVE  /\ BytesLE(v, 2) = <<ByteOf(v, 1), ByteOf(v, 2)>>
         /\ BytesBE(v, 2) = <<ByteOf(v, 2), ByteOf(v, 1)>>
         /\ BytesVBE(v, 2) = <<ByteOf(v, 2), ByteOf(v, 1)>>
         /\ BytesVLE(v, 2) = <<ByteOf(v, 1), ByteOf(v, 2)>>
         /\ BytesBE(v, 3) = <<ByteOf(v, 3), ByteOf(v, 2), ByteOf(v, 1)>>
         /\ BytesLE(v, 4) = <<ByteOf(v, 1), ByteOf(v, 2), ByteOf(v, 3), ByteOf(v, 4)>>
         /\ BytesBE(v, 4) = <<ByteOf(v, 4), ByteOf(v, 3), ByteOf(v, 2), ByteOf(v, 1)>>
         /\ BytesVBE(v, 4) = <<ByteOf(v, 2), ByteOf(v, 1), ByteOf(v, 4), ByteOf(v, 3)>>
         /\ BytesVLE(v, 4) = <<ByteOf(v, 3), ByteOf(v, 4), ByteOf(v, 1), ByteOf(v, 2)>>
<1>1. /\ BytesLE(v, 2) = <<ByteOf(v, 1), ByteOf(v, 2)>>
      /\ BytesBE(v, 2) = <<ByteOf(v, 2), ByteOf(v, 1)>>
  BY DEF BytesLE, BytesBE
<1>2. BytesVBE(v, 2) = <<ByteOf(v, 2), ByteOf(v, 1)>>
  BY DEF BytesVBE
<1>3. BytesVLE(v, 2) = <<ByteOf(v, 1), ByteOf(v, 2)>>
  BY DEF BytesVLE
<1>4. BytesBE(v, 3) = <<ByteOf(v, 3), ByteOf(v, 2), ByteOf(v, 1)>>
  BY DEF BytesBE
<1>5. BytesLE(v, 4) = <<ByteOf(v, 1), ByteOf(v, 2), ByteOf(v, 3), ByteOf(v, 4)>>
  BY DEF BytesLE
<1>6. BytesBE(v, 4) = <<ByteOf(v, 4), ByteOf(v, 3), ByteOf(v, 2), ByteOf(v, 1)>>
  BY DEF BytesBE
<1>7. BytesVBE(v, 4) = <<ByteOf(v, 2), ByteOf(v, 1), ByteOf(v, 4), ByteOf(v, 3)>>
  BY DEF BytesVBE
<1>8. BytesVLE(v, 4) = <<ByteOf(v, 3), ByteOf(v, 4), ByteOf(v, 1), ByteOf(v, 2)>>
  BY DEF BytesVLE
<1> QED
  BY <1>1, <1>2, <1>3, <1>4, <1>5, <1>6, <1>7, <1>8

\* The next bytes of the buffer are these.
Ahead(bytes) ==
  /\ position + Len(bytes) <= Len(content)
  /\ \A i \in 1 .. Len(bytes) : At(i) = bytes[i]

\* A byte that is ahead is read, and so are two, three and four.
LEMMA OneAhead ==
  ASSUME NEW a, Ahead(<<a>>)
  PROVE  At(1) = a
BY DEF Ahead

\* The same of two.
LEMMA TwoAhead ==
  ASSUME NEW a, NEW b, Ahead(<<a, b>>)
  PROVE  At(1) = a /\ At(2) = b
BY DEF Ahead

\* The same of three.
LEMMA ThreeAhead ==
  ASSUME NEW a, NEW b, NEW c, Ahead(<<a, b, c>>)
  PROVE  At(1) = a /\ At(2) = b /\ At(3) = c
BY DEF Ahead

\* The same of four.
LEMMA FourAhead ==
  ASSUME NEW a, NEW b, NEW c, NEW d, Ahead(<<a, b, c, d>>)
  PROVE  At(1) = a /\ At(2) = b /\ At(3) = c /\ At(4) = d
BY DEF Ahead

\* The reader of a coding takes as many bytes as were put, and reads the value.
Agree(coding, v) == Size(coding) = Len(Encoded(coding, v)) /\ Decoded(coding) = v

\* One byte: as it is, or moved by the shift.
LEMMA ByteAgrees ==
  ASSUME NEW v \in 0 .. 255, NEW coding \in {"Byte", "ShiftedNeg", "ShiftedPos"}, Ahead(Encoded(coding, v))
  PROVE  Agree(coding, v)
<1>1. CASE coding = "Byte"
  <2>1. Encoded("Byte", v) = <<v>>
    BY EncodedAs
  <2>2. Size("Byte") = 1
    BY SizeAs
  <2>3. Decoded("Byte") = At(1)
    BY DecodedAs
  <2>4. At(1) = v
    BY <1>1, <2>1, OneAhead
  <2> QED
    BY <1>1, <2>1, <2>2, <2>3, <2>4 DEF Agree
<1>2. CASE coding = "ShiftedNeg"
  <2> DEFINE b == ShiftNegative(v)
  <2>1. Encoded("ShiftedNeg", v) = <<b>>
    BY EncodedAs
  <2>2. Size("ShiftedNeg") = 1
    BY SizeAs
  <2>3. Decoded("ShiftedNeg") = (Shift - At(1)) % 256
    BY DecodedAs
  <2>4. At(1) = b
    BY <1>2, <2>1, OneAhead
  <2>5. b = (128 - v) % 256
    BY DEF ShiftNegative, Shift
  <2>6. (128 - b) % 256 = v
    <3> HIDE DEF b
    <3>1. CASE v <= 128
      BY ONLY <2>5, <3>1, v \in 0 .. 255
    <3>2. CASE v > 128
      BY ONLY <2>5, <3>2, v \in 0 .. 255
    <3> QED
      BY <3>1, <3>2
  <2> HIDE DEF b
  <2> QED
    BY <1>2, <2>1, <2>2, <2>3, <2>4, <2>6 DEF Agree, Shift
<1>3. CASE coding = "ShiftedPos"
  <2> DEFINE b == ShiftPositive(v, 1)
  <2>1. Encoded("ShiftedPos", v) = <<b>>
    BY EncodedAs
  <2>2. Size("ShiftedPos") = 1
    BY SizeAs
  <2>3. Decoded("ShiftedPos") = Unshifted(At(1))
    BY DecodedAs
  <2>4. At(1) = b
    BY <1>3, <2>1, OneAhead
  <2>5. Unshifted(b) = v
    BY ShiftUndone
  <2> HIDE DEF b
  <2> QED
    BY <1>3, <2>1, <2>2, <2>3, <2>4, <2>5 DEF Agree
<1> QED
  BY <1>1, <1>2, <1>3

\* The smart coding tells by the highest bit which of its two forms it has.
LEMMA SmartAgrees ==
  ASSUME NEW v \in Nat, v < 32768, Ahead(Encoded("Smart", v))
  PROVE  Agree("Smart", v)
<1>1. Encoded("Smart", v) = Smart(v)
  BY EncodedAs
<1>2. Size("Smart") = IF At(1) >= 128 THEN 2 ELSE 1
  BY SizeAs
<1>3. Decoded("Smart") = SmartTaken
  BY DecodedAs
<1>4. CASE v < 127
  <2>1. Smart(v) = <<v>>
    BY <1>4 DEF Smart
  <2>2. At(1) = v
    BY <1>1, <2>1, OneAhead
  <2>3. Size("Smart") = 1 /\ SmartTaken = v
    BY <1>2, <1>4, <2>2 DEF SmartTaken
  <2>4. Len(Encoded("Smart", v)) = 1
    BY <1>1, <2>1
  <2> QED
    BY ONLY <1>3, <2>3, <2>4, Zenon DEF Agree
<1>5. CASE v >= 127
  <2> DEFINE w == (v + 32768) % 65536
             a == ByteOf(w, 2)
             b == ByteOf(w, 1)
  <2>1. w = v + 32768 /\ w \in Nat /\ w < 65536
    OBVIOUS
  <2>2. Smart(v) = <<a, b>>
    BY <1>5, BytesInTurn DEF Smart
  <2> HIDE DEF w
  <2>3. w = b + a * 256 /\ a \in 0 .. 255 /\ b \in 0 .. 255
    BY <2>1, BytesAddUp
  <2> HIDE DEF a, b
  <2>4. At(1) = a /\ At(2) = b
    BY <1>1, <2>2, TwoAhead
  <2>5. At(1) >= 128
    BY <2>1, <2>3, <2>4
  <2>6. Size("Smart") = 2
    BY <1>2, <2>5
  <2>7. SmartTaken = v
    BY <2>1, <2>3, <2>4, <2>5 DEF SmartTaken, Pair
  <2>8. Len(Encoded("Smart", v)) = 2
    BY <1>1, <2>2
  <2> QED
    BY ONLY <1>3, <2>6, <2>7, <2>8, Zenon DEF Agree
<1> QED
  BY <1>4, <1>5

\* Two bytes in either order, as they are or with the low one moved.
LEMMA PairAgrees ==
  ASSUME NEW v \in Nat, v < 65536,
         NEW coding \in {"LE", "BE", "VBE", "VLE", "ShiftedPosBE", "ShiftedPosLE"}, Ahead(Encoded(coding, v))
  PROVE  Agree(coding, v)
<1>1. ASSUME NEW w \in Nat, w < 65536, Ahead(<<ByteOf(w, 1), ByteOf(w, 2)>>)
      PROVE  LowFirst = w
  <2> DEFINE a == ByteOf(w, 1)
             b == ByteOf(w, 2)
  <2>1. w = a + b * 256 /\ a \in 0 .. 255 /\ b \in 0 .. 255
    BY <1>1, BytesAddUp
  <2>2. At(1) = a /\ At(2) = b
    BY <1>1, TwoAhead
  <2> HIDE DEF a, b
  <2> QED
    BY <2>1, <2>2 DEF LowFirst
<1>2. ASSUME NEW w \in Nat, w < 65536, Ahead(<<ByteOf(w, 2), ByteOf(w, 1)>>)
      PROVE  Pair = w
  <2> DEFINE a == ByteOf(w, 1)
             b == ByteOf(w, 2)
  <2>1. w = a + b * 256 /\ a \in 0 .. 255 /\ b \in 0 .. 255
    BY <1>2, BytesAddUp
  <2>2. At(1) = b /\ At(2) = a
    BY <1>2, TwoAhead
  <2> HIDE DEF a, b
  <2> QED
    BY <2>1, <2>2 DEF Pair
<1> DEFINE s == ShiftPositive(v, 2)
<1>3. s \in Nat /\ s < 65536 /\ Unshifted(s) = v
  BY ShiftUndone
<1> HIDE DEF s
<1>4. CASE coding \in {"LE", "VLE"}
  <2>1. Encoded(coding, v) = <<ByteOf(v, 1), ByteOf(v, 2)>> /\ Size(coding) = 2 /\ Decoded(coding) = LowFirst
    BY <1>4, EncodedAs, SizeAs, DecodedAs, BytesInTurn
  <2>2. LowFirst = v
    BY <1>1, <2>1
  <2> QED
    BY <2>1, <2>2 DEF Agree
<1>5. CASE coding \in {"BE", "VBE"}
  <2>1. Encoded(coding, v) = <<ByteOf(v, 2), ByteOf(v, 1)>> /\ Size(coding) = 2 /\ Decoded(coding) = Pair
    BY <1>5, EncodedAs, SizeAs, DecodedAs, BytesInTurn
  <2>2. Pair = v
    BY <1>2, <2>1
  <2> QED
    BY <2>1, <2>2 DEF Agree
<1>6. CASE coding = "ShiftedPosBE"
  <2>1. Encoded(coding, v) = <<ByteOf(s, 2), ByteOf(s, 1)>> /\ Size(coding) = 2 /\ Decoded(coding) = Unshifted(Pair)
    BY <1>6, EncodedAs, SizeAs, DecodedAs, BytesInTurn DEF s
  <2>2. Pair = s
    BY <1>2, <1>3, <2>1
  <2> QED
    BY <1>3, <2>1, <2>2 DEF Agree
<1>7. CASE coding = "ShiftedPosLE"
  <2>1. Encoded(coding, v) = <<ByteOf(s, 1), ByteOf(s, 2)>> /\ Size(coding) = 2 /\ Decoded(coding) = Unshifted(LowFirst)
    BY <1>7, EncodedAs, SizeAs, DecodedAs, BytesInTurn DEF s
  <2>2. LowFirst = s
    BY <1>1, <1>3, <2>1
  <2> QED
    BY <1>3, <2>1, <2>2 DEF Agree
<1> QED
  BY <1>4, <1>5, <1>6, <1>7

\* Three bytes, and four in any of their orders.
LEMMA WideAgrees ==
  ASSUME NEW v \in Nat, NEW coding \in Codings4 \cup {"TriByte"}, Ahead(Encoded(coding, v)),
         IF coding = "TriByte" THEN v < 16777216 ELSE v \div 65536 < 65536
  PROVE  Agree(coding, v)
<1> DEFINE a == ByteOf(v, 1)
           b == ByteOf(v, 2)
           c == ByteOf(v, 3)
           d == ByteOf(v, 4)
<1>1. CASE coding = "TriByte"
  <2>1. Encoded(coding, v) = <<c, b, a>> /\ Size(coding) = 3 /\ Decoded(coding) = Triple
    BY <1>1, EncodedAs, SizeAs, DecodedAs, BytesInTurn
  <2>2. v = a + b * 256 + c * 65536 /\ a \in 0 .. 255 /\ b \in 0 .. 255 /\ c \in 0 .. 255
    BY <1>1, BytesAddUp
  <2> HIDE DEF a, b, c, d
  <2>3. At(1) = c /\ At(2) = b /\ At(3) = a
    BY <2>1, ThreeAhead
  <2>4. Triple = v
    BY <2>2, <2>3 DEF Triple
  <2> QED
    BY <2>1, <2>4 DEF Agree
<1>2. CASE coding \in Codings4
  <2>1. /\ v = a + b * 256 + c * 65536 + d * 16777216
        /\ a \in 0 .. 255 /\ b \in 0 .. 255 /\ c \in 0 .. 255 /\ d \in 0 .. 255
    <3>1. v \div 65536 < 65536
      BY <1>2 DEF Codings4
    <3> QED
      BY <3>1, BytesAddUp
  <2>2. Size(coding) = 4
    BY <1>2, SizeAs DEF Codings4
  <2>3. CASE coding = "BE4"
    <3>1. Encoded(coding, v) = <<d, c, b, a>> /\ Decoded(coding) = Quad(1, 2, 3, 4)
      BY <2>3, EncodedAs, DecodedAs, BytesInTurn
    <3> HIDE DEF a, b, c, d
    <3>2. At(1) = d /\ At(2) = c /\ At(3) = b /\ At(4) = a
      BY <3>1, FourAhead
    <3>3. Quad(1, 2, 3, 4) = v
      BY <2>1, <3>2 DEF Quad
    <3> QED
      BY <2>2, <3>1, <3>3 DEF Agree
  <2>4. CASE coding = "LE4"
    <3>1. Encoded(coding, v) = <<a, b, c, d>> /\ Decoded(coding) = Quad(4, 3, 2, 1)
      BY <2>4, EncodedAs, DecodedAs, BytesInTurn
    <3> HIDE DEF a, b, c, d
    <3>2. At(1) = a /\ At(2) = b /\ At(3) = c /\ At(4) = d
      BY <3>1, FourAhead
    <3>3. Quad(4, 3, 2, 1) = v
      BY <2>1, <3>2 DEF Quad
    <3> QED
      BY <2>2, <3>1, <3>3 DEF Agree
  <2>5. CASE coding = "VBE4"
    <3>1. Encoded(coding, v) = <<b, a, d, c>> /\ Decoded(coding) = Quad(3, 4, 1, 2)
      BY <2>5, EncodedAs, DecodedAs, BytesInTurn
    <3> HIDE DEF a, b, c, d
    <3>2. At(1) = b /\ At(2) = a /\ At(3) = d /\ At(4) = c
      BY <3>1, FourAhead
    <3>3. Quad(3, 4, 1, 2) = v
      BY <2>1, <3>2 DEF Quad
    <3> QED
      BY <2>2, <3>1, <3>3 DEF Agree
  <2>6. CASE coding = "VLE4"
    <3>1. Encoded(coding, v) = <<c, d, a, b>> /\ Decoded(coding) = Quad(2, 1, 4, 3)
      BY <2>6, EncodedAs, DecodedAs, BytesInTurn
    <3> HIDE DEF a, b, c, d
    <3>2. At(1) = c /\ At(2) = d /\ At(3) = a /\ At(4) = b
      BY <3>1, FourAhead
    <3>3. Quad(2, 1, 4, 3) = v
      BY <2>1, <3>2 DEF Quad
    <3> QED
      BY <2>2, <3>1, <3>3 DEF Agree
  <2> QED
    BY <1>2, <2>3, <2>4, <2>5, <2>6 DEF Codings4
<1> QED
  BY <1>1, <1>2

\* The sixteen bits of a number, written in either order.
LEMMA BitSetAgrees ==
  ASSUME NEW v \in Nat, v < 65536, NEW coding \in {"BitSetBE", "BitSetLE"}, Ahead(Encoded(coding, v))
  PROVE  Agree(coding, v)
<1> DEFINE low == [i \in 0 .. 7 |-> Bit(v, i)]
           high == [i \in 0 .. 7 |-> Bit(v, 8 + i)]
           turnedLow == [i \in 0 .. 7 |-> low[7 - i]]
           turnedHigh == [i \in 0 .. 7 |-> high[7 - i]]
<1>1. low \in [0 .. 7 -> 0 .. 1] /\ high \in [0 .. 7 -> 0 .. 1]
  BY BitType
<1>2. v = Octet(low) + Octet(high) * 256
  <2> DEFINE a == ByteOf(v, 1)
             b == ByteOf(v, 2)
  <2>1. v = a + b * 256 /\ a = v % 256 /\ b = (v \div 256) % 256
    BY BytesAddUp DEF ByteOf, Weight
  <2> HIDE DEF a, b
  <2>2. Octet(low) = v % 256 /\ Octet(high) = (v \div 256) % 256
    BY OctetsOfNumber
  <2> QED
    BY <2>1, <2>2
<1>3. BitSetBE(v) = <<Octet(turnedLow), Octet(turnedHigh)>>
  <2>1. turnedLow = [i \in 0 .. 7 |-> Bit(v, 8 * 1 - 1 - i)]
    OBVIOUS
  <2>2. turnedHigh = [i \in 0 .. 7 |-> Bit(v, 8 * 2 - 1 - i)]
    OBVIOUS
  <2> HIDE DEF turnedLow, turnedHigh
  <2>3. BitSetBE(v) = <<Octet([i \in 0 .. 7 |-> Bit(v, 8 * 1 - 1 - i)]), Octet([i \in 0 .. 7 |-> Bit(v, 8 * 2 - 1 - i)])>>
    BY DEF BitSetBE
  <2> QED
    BY <2>1, <2>2, <2>3
<1>4. BitSetLE(v) = <<Octet(high), Octet(low)>>
  <2>1. high = [i \in 0 .. 7 |-> Bit(v, 8 * (2 - 1) + i)]
    OBVIOUS
  <2>2. low = [i \in 0 .. 7 |-> Bit(v, 8 * (2 - 2) + i)]
    OBVIOUS
  <2> HIDE DEF low, high
  <2>3. BitSetLE(v) = <<Octet([i \in 0 .. 7 |-> Bit(v, 8 * (2 - 1) + i)]), Octet([i \in 0 .. 7 |-> Bit(v, 8 * (2 - 2) + i)])>>
    BY DEF BitSetLE
  <2> QED
    BY <2>1, <2>2, <2>3
<1>5. Mirrored(Octet(turnedLow)) = Octet(low) /\ Mirrored(Octet(turnedHigh)) = Octet(high)
  BY <1>1, MirroredTwice
<1>6. Octet(low) \in 0 .. 255 /\ Octet(high) \in 0 .. 255
  BY <1>1, BitsOfOctet
<1> DEFINE a == Octet(low)
           b == Octet(high)
           c == Octet(turnedLow)
           d == Octet(turnedHigh)
<1> HIDE DEF low, high, turnedLow, turnedHigh, a, b, c, d
<1>7. CASE coding = "BitSetBE"
  <2>1. Encoded(coding, v) = <<c, d>> /\ Size(coding) = 2 /\ Decoded(coding) = MirroredPair
    BY <1>3, <1>7, EncodedAs, SizeAs, DecodedAs DEF c, d
  <2>2. At(1) = c /\ At(2) = d
    BY <2>1, TwoAhead
  <2>3. MirroredPair = v
    <3>1. Mirrored(c) = a /\ Mirrored(d) = b
      BY <1>5 DEF a, b, c, d
    <3>2. v = a + b * 256 /\ a \in Int /\ b \in Int
      BY <1>2, <1>6 DEF a, b
    <3> QED
      BY ONLY <2>2, <3>1, <3>2 DEF MirroredPair
  <2> QED
    BY <2>1, <2>3 DEF Agree
<1>8. CASE coding = "BitSetLE"
  <2>1. Encoded(coding, v) = <<b, a>> /\ Size(coding) = 2 /\ Decoded(coding) = Pair
    BY <1>4, <1>8, EncodedAs, SizeAs, DecodedAs DEF a, b
  <2>2. At(1) = b /\ At(2) = a
    BY <2>1, TwoAhead
  <2>3. Pair = v
    <3>1. v = a + b * 256 /\ a \in Int /\ b \in Int
      BY <1>2, <1>6 DEF a, b
    <3> QED
      BY ONLY <2>2, <3>1 DEF Pair
  <2> QED
    BY <2>1, <2>3 DEF Agree
<1> QED
  BY <1>7, <1>8

\* A string ends where its zero stands, for no character ends it before.
LEMMA StringAgrees ==
  ASSUME content \in Seq(Nat), position \in Nat, NEW text \in Seq(Nat), \A i \in 1 .. Len(text) : text[i] \notin {0, 10},
         Ahead(Encoded("String", text))
  PROVE  Agree("String", text)
<1> DEFINE n == Len(text)
           bytes == Terminated(text)
<1>1. n \in Nat
  OBVIOUS
<1>2. Encoded("String", text) = bytes /\ Size("String") = Until({0, 10}) + 1
      /\ Decoded("String") = SubSeq(content, position + 1, position + Until({0}))
  BY EncodedAs, SizeAs, DecodedAs
<1>3. Len(bytes) = n + 1 /\ bytes[n + 1] = 0 /\ \A i \in 1 .. n : bytes[i] = text[i]
  BY DEF Terminated
<1> HIDE DEF bytes
<1>0. position + (n + 1) <= Len(content) /\ \A i \in 1 .. n + 1 : At(i) = bytes[i]
  <2>1. Ahead(bytes)
    BY <1>2
  <2> QED
    BY <1>3, <2>1 DEF Ahead
<1>4. n \in 0 .. Remaining - 1
  <2> HIDE DEF n
  <2> QED
    BY <1>0, <1>1 DEF Remaining
<1>5. At(n + 1) = 0 /\ \A i \in 1 .. n : At(i) = text[i]
  BY <1>0, <1>1, <1>3
<1>6. \A i \in 1 .. n : At(i) \notin {0, 10}
  BY <1>5
<1>7. ASSUME NEW ends, 0 \in ends, ends \subseteq {0, 10}
      PROVE  Until(ends) = n
  <2>0. At(n + 1) \in ends /\ \A i \in 1 .. n : At(i) \notin ends
    BY <1>5, <1>6, <1>7
  <2>1. ASSUME NEW m \in 0 .. Remaining - 1, At(m + 1) \in ends, \A i \in 1 .. m : At(i) \notin ends, m # n
        PROVE  FALSE
    <3>0. m \in Nat
      BY <2>1 DEF Remaining
    <3> HIDE DEF n
    <3>1. CASE m < n
      <4>1. m + 1 \in 1 .. n
        BY <1>1, <3>0, <3>1
      <4> QED
        BY <2>0, <2>1, <4>1
    <3>2. CASE m > n
      <4>1. n + 1 \in 1 .. m
        BY <1>1, <3>0, <3>2
      <4> QED
        BY <2>0, <2>1, <4>1
    <3> QED
      BY <1>1, <2>1, <3>0, <3>1, <3>2
  <2> QED
    BY <1>4, <2>0, <2>1 DEF Until
<1>8. Until({0, 10}) = n /\ Until({0}) = n
  BY <1>7
<1>9. SubSeq(content, position + 1, position + n) = text
  <2>1. position + n <= Len(content)
    BY <1>0, <1>1
  <2> DEFINE part == SubSeq(content, position + 1, position + n)
  <2>2. \A i \in position + 1 .. position + n : content[i] \in Nat
    BY <1>1, <2>1, ElementOfSeq
  <2>3. /\ part \in Seq(Nat)
        /\ Len(part) = IF position + 1 <= position + n THEN (position + n) - (position + 1) + 1 ELSE 0
        /\ \A i \in 1 .. (position + n) - (position + 1) + 1 : part[i] = content[position + 1 + i - 1]
    BY <1>1, <2>2, SubSeqProperties
  <2> HIDE DEF part, n
  <2>6. Len(part) = n
    BY <1>1, <2>3
  <2>4. \A i \in 1 .. n : part[i] = text[i]
    BY <1>1, <1>5, <2>3 DEF At
  <2>5. part = text
    BY <2>3, <2>4, <2>6, SeqEqual DEF n
  <2> QED
    BY <2>5 DEF part
<1> QED
  BY <1>2, <1>3, <1>8, <1>9 DEF Agree

\* What a buffer may be given.
Puttable == Coded \cup ({"String"} \X Texts)

\* Whatever is given is put as bytes, and the reader and the writer of its
\* coding agree wherever it stands in a buffer.
LEMMA EveryCodingAgrees ==
  ASSUME content \in Seq(Nat), position \in Nat,
         NEW c, NEW v, <<c, v>> \in Puttable, Ahead(Encoded(c, v))
  PROVE  Agree(c, v)
<1>2. CASE <<c, v>> \in {"String"} \X Texts
  <2>1. c = "String" /\ v \in Texts
    BY <1>2
  <2>2. v \in Seq(Nat) /\ \A i \in 1 .. Len(v) : v[i] \notin {0, 10}
    BY <2>1, BufferAssumption
  <2>3. Agree("String", v)
    BY <2>1, <2>2, StringAgrees
  <2> QED
    BY <2>1, <2>3
<1>3. CASE <<c, v>> \in Codings2 \X Values2
  <2>1. c \in Codings2 /\ v \in Nat /\ v < 65536
    BY <1>3, BufferAssumption
  <2>2. CASE c \in {"BitSetBE", "BitSetLE"}
    BY <2>1, <2>2, BitSetAgrees
  <2>3. CASE c \in {"LE", "BE", "VBE", "VLE", "ShiftedPosBE", "ShiftedPosLE"}
    BY <2>1, <2>3, PairAgrees
  <2> QED
    BY <2>1, <2>2, <2>3 DEF Codings2
<1>4. CASE <<c, v>> \in {"Byte", "ShiftedNeg", "ShiftedPos"} \X {u \in Values2 : u < 256}
  <2>0. c \in {"Byte", "ShiftedNeg", "ShiftedPos"} /\ v \in Nat /\ v < 256
    BY <1>4, BufferAssumption
  <2>1. v \in 0 .. 255
    BY ONLY <2>0
  <2> QED
    BY <2>0, <2>1, ByteAgrees
<1>5. CASE <<c, v>> \in {"Smart"} \X {u \in Values2 : u < 32768}
  <2>1. c = "Smart" /\ v \in Nat /\ v < 32768
    BY <1>5, BufferAssumption
  <2>2. Agree("Smart", v)
    BY <2>1, SmartAgrees
  <2> QED
    BY <2>1, <2>2
<1>6. CASE <<c, v>> \in (Codings4 \X Values4) \cup ({"TriByte"} \X {u \in Values4 : u < 16777216})
  <2>1. /\ c \in Codings4 \cup {"TriByte"} /\ v \in Nat /\ v \div 65536 < 65536
        /\ c = "TriByte" => v < 16777216
    BY <1>6, BufferAssumption DEF Codings4
  <2> QED
    BY <2>1, WideAgrees
<1> QED
  BY <1>2, <1>3, <1>4, <1>5, <1>6 DEF Puttable, Coded

\* Everything that is put is a sequence of numbers.
LEMMA BytesAreNumbers ==
  ASSUME NEW c, NEW v, <<c, v>> \in Puttable
  PROVE  Encoded(c, v) \in Seq(Nat)
<1>1. CASE <<c, v>> \in {"String"} \X Texts
  <2>1. c = "String" /\ v \in Seq(Nat)
    BY <1>1, BufferAssumption
  <2>2. Encoded("String", v) = v \o <<0>>
    BY EncodedAs DEF Terminated
  <2>3. <<0>> \in Seq(Nat)
    OBVIOUS
  <2>4. v \o <<0>> \in Seq(Nat)
    BY <2>1, <2>3, ConcatProperties
  <2> QED
    BY <2>1, <2>2, <2>4
<1>2. CASE <<c, v>> \notin {"String"} \X Texts
  <2>1. c \in {"Byte", "ShiftedNeg", "ShiftedPos", "Smart", "TriByte"} \cup Codings2 \cup Codings4 /\ v \in Nat
    BY <1>2, BufferAssumption DEF Puttable, Coded
  <2>2. \A u \in Nat : ByteOf(u, 1) \in Nat /\ ByteOf(u, 2) \in Nat /\ ByteOf(u, 3) \in Nat /\ ByteOf(u, 4) \in Nat
    BY DEF ByteOf, Weight
  <2>3. ASSUME NEW u \in Nat
        PROVE  /\ BytesLE(u, 2) \in Seq(Nat) /\ BytesBE(u, 2) \in Seq(Nat) /\ BytesVBE(u, 2) \in Seq(Nat)
               /\ BytesVLE(u, 2) \in Seq(Nat) /\ BytesBE(u, 3) \in Seq(Nat) /\ BytesLE(u, 4) \in Seq(Nat)
               /\ BytesBE(u, 4) \in Seq(Nat) /\ BytesVBE(u, 4) \in Seq(Nat) /\ BytesVLE(u, 4) \in Seq(Nat)
    <3>1. \A e, f, g, h \in Nat : <<e, f>> \in Seq(Nat) /\ <<e, f, g>> \in Seq(Nat) /\ <<e, f, g, h>> \in Seq(Nat)
      OBVIOUS
    <3> DEFINE b1 == ByteOf(u, 1)
               b2 == ByteOf(u, 2)
               b3 == ByteOf(u, 3)
               b4 == ByteOf(u, 4)
    <3>2. b1 \in Nat /\ b2 \in Nat /\ b3 \in Nat /\ b4 \in Nat
      BY <2>2
    <3>3. /\ BytesLE(u, 2) = <<b1, b2>> /\ BytesBE(u, 2) = <<b2, b1>> /\ BytesVBE(u, 2) = <<b2, b1>>
          /\ BytesVLE(u, 2) = <<b1, b2>> /\ BytesBE(u, 3) = <<b3, b2, b1>> /\ BytesLE(u, 4) = <<b1, b2, b3, b4>>
          /\ BytesBE(u, 4) = <<b4, b3, b2, b1>> /\ BytesVBE(u, 4) = <<b2, b1, b4, b3>>
          /\ BytesVLE(u, 4) = <<b3, b4, b1, b2>>
      BY BytesInTurn
    <3> HIDE DEF b1, b2, b3, b4
    <3> QED
      BY <3>2, <3>3, <3>1
  <2>4. ShiftNegative(v) \in Nat /\ ShiftPositive(v, 1) \in Nat /\ ShiftPositive(v, 2) \in Nat
    <3>1. ShiftNegative(v) \in Nat
      BY <2>1 DEF ShiftNegative, Shift
    <3> QED
      BY <2>1, <3>1, ShiftUndone
  <2>5. Smart(v) \in Seq(Nat)
    <3>1. (v + 32768) % 65536 \in Nat
      BY <2>1
    <3> QED
      BY <2>1, <2>3, <3>1 DEF Smart
  <2>6. BitSetBE(v) \in Seq(Nat) /\ BitSetLE(v) \in Seq(Nat)
    <3>1. \A i \in 0 .. 15 : Bit(v, i) \in 0 .. 1
      BY <2>1, BitType
    <3>2. \A k \in 1 .. 2 : /\ [i \in 0 .. 7 |-> Bit(v, 8 * k - 1 - i)] \in [0 .. 7 -> 0 .. 1]
                            /\ [i \in 0 .. 7 |-> Bit(v, 8 * (2 - k) + i)] \in [0 .. 7 -> 0 .. 1]
      BY <3>1
    <3>3. \A k \in 1 .. 2 : /\ Octet([i \in 0 .. 7 |-> Bit(v, 8 * k - 1 - i)]) \in Nat
                            /\ Octet([i \in 0 .. 7 |-> Bit(v, 8 * (2 - k) + i)]) \in Nat
      BY <3>2, BitsOfOctet
    <3> QED
      BY <3>3 DEF BitSetBE, BitSetLE
  <2>7. CASE c \in {"Byte", "ShiftedNeg", "ShiftedPos"}
    <3>1. <<v>> \in Seq(Nat) /\ <<ShiftNegative(v)>> \in Seq(Nat) /\ <<ShiftPositive(v, 1)>> \in Seq(Nat)
      BY <2>1, <2>4
    <3> QED
      BY <2>7, <3>1, EncodedAs
  <2>8. CASE c \in {"Smart", "BitSetBE", "BitSetLE"}
    BY <2>5, <2>6, <2>8, EncodedAs
  <2>9. CASE c \in {"LE", "BE", "VBE", "VLE", "TriByte", "LE4", "BE4", "VBE4", "VLE4"}
    <3>1. /\ Encoded("LE", v) = BytesLE(v, 2) /\ Encoded("BE", v) = BytesBE(v, 2) /\ Encoded("VBE", v) = BytesVBE(v, 2)
          /\ Encoded("VLE", v) = BytesVLE(v, 2) /\ Encoded("TriByte", v) = BytesBE(v, 3) /\ Encoded("LE4", v) = BytesLE(v, 4)
          /\ Encoded("BE4", v) = BytesBE(v, 4) /\ Encoded("VBE4", v) = BytesVBE(v, 4) /\ Encoded("VLE4", v) = BytesVLE(v, 4)
      BY EncodedAs
    <3> QED
      BY <2>1, <2>3, <2>9, <3>1
  <2>10. CASE c \in {"ShiftedPosBE", "ShiftedPosLE"}
    <3>1. Encoded("ShiftedPosBE", v) = BytesBE(ShiftPositive(v, 2), 2) /\ Encoded("ShiftedPosLE", v) = BytesLE(ShiftPositive(v, 2), 2)
      BY EncodedAs
    <3> QED
      BY <2>3, <2>4, <2>10, <3>1
  <2> QED
    BY <2>1, <2>7, <2>8, <2>9, <2>10 DEF Codings2, Codings4
<1> QED
  BY <1>1, <1>2

\* The values of s behind the first n lie in the content c one behind the
\* other, from the position p to the end: place[k] is where the k-th begins.
Bytes(item) == Encoded(item[1], item[2])
Laid(c, p, n, s, place) ==
  /\ place[n + 1] = p
  /\ place[Len(s) + 1] = Len(c)
  /\ \A j, k \in n + 1 .. Len(s) + 1 : j <= k => place[j] <= place[k]
  /\ \A k \in n + 1 .. Len(s) :
       /\ place[k + 1] = place[k] + Len(Bytes(s[k]))
       /\ \A i \in 1 .. Len(Bytes(s[k])) : c[place[k] + i] = Bytes(s[k])[i]

\* The bytes of a value are a sequence of numbers.
LEMMA ItemBytes ==
  ASSUME NEW item \in Puttable
  PROVE  item = <<item[1], item[2]>> /\ Bytes(item) \in Seq(Nat) /\ Len(Bytes(item)) \in Nat
<1>1. item = <<item[1], item[2]>>
  BY DEF Puttable, Coded
<1>2. <<item[1], item[2]>> \in Puttable
  BY <1>1
<1>3. Bytes(item) \in Seq(Nat)
  BY <1>2, BytesAreNumbers DEF Bytes
<1> QED
  BY <1>1, <1>3

\* A place behind a length lies within the length and what is added to it.
LEMMA PlaceBehind ==
  ASSUME NEW l \in Nat, NEW more \in Nat, NEW i \in Nat, 1 <= i, i <= more
  PROVE  l + i \in 1 .. (l + more) /\ ~ (l + i <= l) /\ (l + i) - l = i
OBVIOUS

\* A place within a length stays within it when something is added.
LEMMA PlaceBefore ==
  ASSUME NEW l \in Nat, NEW more \in Nat, NEW x \in Nat, NEW k \in Nat, NEW i \in Nat, 1 <= i, i <= k, x + k <= l
  PROVE  x + i \in 1 .. (l + more) /\ x + i <= l
OBVIOUS

\* Puts go to the end.
LEMMA LaidByPut ==
  ASSUME NEW c \in Seq(Nat), NEW p \in Nat, NEW n \in Nat, NEW s \in Seq(Puttable), n <= Len(s),
         NEW place \in [Nat -> Nat], Laid(c, p, n, s, place), NEW item \in Puttable, NEW e \in Seq(Nat), e = Bytes(item)
  PROVE  \E q \in [Nat -> Nat] : Laid(c \o e, p, n, Append(s, item), q)
<1> DEFINE m == Len(s)
           t == Append(s, item)
           d == c \o e
           total == Len(c) + Len(e)
           q == [place EXCEPT ![m + 2] = total]
<1>1. m \in Nat /\ n <= m /\ Len(c) \in Nat /\ Len(e) \in Nat /\ total \in Nat
  <2>1. m \in Nat /\ n <= m
    OBVIOUS
  <2>3. Len(c) \in Nat
    BY ONLY c \in Seq(Nat)
  <2>4. Len(e) \in Nat
    BY ONLY e \in Seq(Nat)
  <2>2. Len(c) \in Nat /\ Len(e) \in Nat
    BY ONLY <2>3, <2>4
  <2> QED
    BY ONLY <2>1, <2>2
<1>13. Len(c) \in Nat /\ Len(e) \in Nat /\ total = Len(c) + Len(e)
  BY ONLY <1>1
<1>2. Len(t) = m + 1 /\ t[m + 1] = item /\ \A k \in 1 .. m : t[k] = s[k]
  BY ONLY s \in Seq(Puttable), item \in Puttable, AppendProperties
<1>3. Len(d) = total /\ \A i \in 1 .. total : d[i] = IF i <= Len(c) THEN c[i] ELSE e[i - Len(c)]
  BY ONLY c \in Seq(Nat), e \in Seq(Nat), ConcatProperties
<1>4. place[n + 1] = p /\ place[m + 1] = Len(c)
  BY DEF Laid
<1>5. \A j, k \in n + 1 .. m + 1 : j <= k => place[j] <= place[k]
  BY DEF Laid
<1>6. \A k \in n + 1 .. m : /\ place[k + 1] = place[k] + Len(Bytes(s[k]))
                            /\ \A i \in 1 .. Len(Bytes(s[k])) : c[place[k] + i] = Bytes(s[k])[i]
  BY DEF Laid
<1>7. q \in [Nat -> Nat] /\ q[m + 2] = total /\ \A k \in Nat : k # m + 2 => q[k] = place[k]
  <2> HIDE DEF m, total
  <2>1. m + 2 \in Nat
    BY <1>1
  <2> QED
    BY ONLY <1>1, <2>1, place \in [Nat -> Nat]
<1>8. \A k \in Nat : place[k] \in Nat
  OBVIOUS
<1> HIDE DEF m, t, d, total, q
<1>9. q[n + 1] = p /\ q[Len(t) + 1] = Len(d)
  BY <1>1, <1>2, <1>3, <1>4, <1>7
<1>10. ASSUME NEW j \in n + 1 .. Len(t) + 1, NEW k \in n + 1 .. Len(t) + 1, j <= k
       PROVE  q[j] <= q[k]
  <2>0. j \in Nat /\ k \in Nat /\ n + 1 <= j /\ k <= m + 2
    <3>1. m \in Nat
      BY ONLY <1>1
    <3>2. Len(t) = m + 1
      BY ONLY <1>2
    <3>3. j \in n + 1 .. m + 2 /\ k \in n + 1 .. m + 2
      BY ONLY <3>1, <3>2, j \in n + 1 .. Len(t) + 1, k \in n + 1 .. Len(t) + 1
    <3> QED
      BY ONLY <3>1, <3>3, n \in Nat
  <2>1. CASE k <= m + 1
    <3>0. j \in n + 1 .. m + 1 /\ k \in n + 1 .. m + 1
      BY <1>1, <1>10, <2>0, <2>1
    <3>1. j \in n + 1 .. m + 1 /\ k \in n + 1 .. m + 1 /\ j # m + 2 /\ k # m + 2
      BY <1>1, <2>0, <2>1, <3>0
    <3>2. place[j] <= place[k]
      BY <1>5, <1>10, <3>1
    <3> QED
      BY ONLY <1>7, <2>0, <3>1, <3>2
  <2>2. CASE k = m + 2 /\ j <= m + 1
    <3>1. j \in n + 1 .. m + 1 /\ m + 1 \in n + 1 .. m + 1 /\ j # m + 2
      BY ONLY <1>1, <2>0, <2>2, n \in Nat
    <3>2. place[j] <= place[m + 1]
      BY <1>5, <2>2, <3>1
    <3>4. place[j] <= Len(c) /\ place[j] \in Nat
      BY ONLY <1>4, <1>8, <2>0, <3>2
    <3>3. place[j] <= total /\ place[j] \in Nat
      BY ONLY <1>13, <3>4
    <3> QED
      BY ONLY <1>7, <2>0, <2>2, <3>1, <3>3
  <2>3. CASE j = m + 2 /\ k = m + 2
    BY ONLY <1>1, <1>7, <2>3
  <2> QED
    BY ONLY <1>1, <1>10, <2>0, <2>1, <2>2, <2>3
<1>11. ASSUME NEW k \in n + 1 .. Len(t)
       PROVE  /\ q[k + 1] = q[k] + Len(Bytes(t[k]))
              /\ \A i \in 1 .. Len(Bytes(t[k])) : d[q[k] + i] = Bytes(t[k])[i]
  <2>0. k \in Nat /\ n + 1 <= k /\ k <= m + 1
    BY ONLY <1>1, <1>2, n \in Nat, k \in n + 1 .. Len(t)
  <2>1. CASE k = m + 1
    <3>1. Bytes(t[k]) = e /\ q[k] = Len(c) /\ q[k + 1] = total
      BY ONLY <1>1, <1>2, <1>4, <1>7, <2>1, e = Bytes(item)
    <3>2. ASSUME NEW i \in 1 .. Len(e) PROVE d[Len(c) + i] = e[i]
      <4>1. Len(c) + i \in 1 .. total /\ ~ (Len(c) + i <= Len(c)) /\ (Len(c) + i) - Len(c) = i
        <5>1. i \in Nat /\ 1 <= i /\ i <= Len(e)
          BY <1>1
        <5> QED
          BY ONLY <1>13, <5>1, PlaceBehind
      <4> QED
        BY ONLY <1>3, <4>1
    <3> QED
      BY ONLY <3>1, <3>2 DEF total
  <2>2. CASE k <= m
    <3> DEFINE b == Bytes(s[k])
    <3>1. k \in n + 1 .. m /\ k \in 1 .. m /\ k + 1 \in n + 1 .. m + 1 /\ m + 1 \in n + 1 .. m + 1
      BY ONLY <1>1, <2>0, <2>2, n \in Nat
    <3>2. s[k] \in Puttable
      BY ONLY <3>1, s \in Seq(Puttable), ElementOfSeq DEF m
    <3>3. Len(b) \in Nat
      BY <3>2, ItemBytes
    <3>4. Bytes(t[k]) = b /\ q[k] = place[k] /\ q[k + 1] = place[k + 1]
      <4>1. t[k] = s[k]
        BY ONLY <1>2, <3>1
      <4>2. k # m + 2 /\ k + 1 # m + 2 /\ k + 1 \in Nat
        BY ONLY <1>1, <2>0, <2>2
      <4> QED
        BY ONLY <1>7, <2>0, <4>1, <4>2
    <3>5. place[k + 1] = place[k] + Len(b) /\ \A i \in 1 .. Len(b) : c[place[k] + i] = b[i]
      BY ONLY <1>6, <3>1
    <3>6. place[k + 1] <= Len(c) /\ place[k] \in Nat /\ place[k + 1] \in Nat
      <4>1. place[k + 1] <= place[m + 1]
        BY ONLY <1>5, <1>1, <2>0, <2>2, <3>1
      <4> QED
        BY ONLY <1>4, <1>8, <2>0, <4>1
    <3> HIDE DEF b
    <3>7. ASSUME NEW i \in 1 .. Len(b) PROVE d[place[k] + i] = b[i]
      <4>1. place[k] + i \in 1 .. total /\ place[k] + i <= Len(c)
        <5>1. i \in Nat /\ 1 <= i /\ i <= Len(b)
          BY <3>3
        <5>2. place[k] + Len(b) <= Len(c)
          BY ONLY <3>5, <3>6
        <5> QED
          BY ONLY <1>13, <3>3, <3>6, <5>1, <5>2, PlaceBefore
      <4>2. d[place[k] + i] = c[place[k] + i]
        BY ONLY <1>3, <4>1
      <4> QED
        BY ONLY <3>5, <4>2, i \in 1 .. Len(b)
    <3> QED
      BY ONLY <3>4, <3>5, <3>7
  <2>3. k = m + 1 \/ k <= m
    BY ONLY <1>1, <2>0
  <2> QED
    BY ONLY <2>1, <2>2, <2>3
<1>12. Laid(d, p, n, t, q)
  BY ONLY <1>9, <1>10, <1>11 DEF Laid
<1> QED
  BY ONLY <1>7, <1>12 DEF t, d

\* The next value lies at the position, and behind it the others.
LEMMA LaidByGet ==
  ASSUME NEW c \in Seq(Nat), NEW p \in Nat, NEW n \in Nat, NEW s \in Seq(Puttable), n < Len(s),
         NEW place \in [Nat -> Nat], Laid(c, p, n, s, place), NEW b, b = Bytes(s[n + 1])
  PROVE  /\ p + Len(b) <= Len(c)
         /\ \A i \in 1 .. Len(b) : c[p + i] = b[i]
         /\ Laid(c, p + Len(b), n + 1, s, place)
<1> DEFINE m == Len(s)
<1>1. m \in Nat /\ n < m
  OBVIOUS
<1>2. place[n + 1] = p /\ place[m + 1] = Len(c)
  BY DEF Laid
<1>3. \A j, k \in n + 1 .. m + 1 : j <= k => place[j] <= place[k]
  BY DEF Laid
<1>4. \A k \in n + 1 .. m : /\ place[k + 1] = place[k] + Len(Bytes(s[k]))
                            /\ \A i \in 1 .. Len(Bytes(s[k])) : c[place[k] + i] = Bytes(s[k])[i]
  BY DEF Laid
<1> HIDE DEF m
<1>5. n + 1 \in n + 1 .. m /\ n + 2 \in n + 1 .. m + 1 /\ m + 1 \in n + 1 .. m + 1 /\ n + 2 <= m + 1 /\ (n + 1) + 1 = n + 2
  BY ONLY <1>1, n \in Nat
<1>6. /\ place[n + 2] = p + Len(b)
      /\ \A i \in 1 .. Len(b) : c[p + i] = b[i]
  BY ONLY <1>2, <1>4, <1>5, b = Bytes(s[n + 1])
<1>7. place[n + 2] <= Len(c)
  BY ONLY <1>2, <1>3, <1>5
<1>8. \A k \in (n + 1) + 1 .. m + 1 : k \in n + 1 .. m + 1
  BY ONLY <1>1, n \in Nat
<1>9. \A k \in (n + 1) + 1 .. m : k \in n + 1 .. m
  BY ONLY <1>1, n \in Nat
<1>10. \A j, k \in (n + 1) + 1 .. m + 1 : j <= k => place[j] <= place[k]
  BY ONLY <1>3, <1>8
<1>11. \A k \in (n + 1) + 1 .. m : /\ place[k + 1] = place[k] + Len(Bytes(s[k]))
                                   /\ \A i \in 1 .. Len(Bytes(s[k])) : c[place[k] + i] = Bytes(s[k])[i]
  BY ONLY <1>4, <1>9
<1>12. place[(n + 1) + 1] = p + Len(b)
  BY ONLY <1>5, <1>6
<1>13. Laid(c, p + Len(b), n + 1, s, place)
  BY ONLY <1>2, <1>10, <1>11, <1>12 DEF Laid, m
<1> QED
  BY ONLY <1>6, <1>7, <1>13

\* Without the old data everything lies as far from the start as it lay from
\* the position.
LEMMA LaidByClear ==
  ASSUME NEW c \in Seq(Nat), NEW p \in Nat, NEW n \in Nat, NEW s \in Seq(Puttable), n <= Len(s),
         NEW place \in [Nat -> Nat], Laid(c, p, n, s, place)
  PROVE  /\ p <= Len(c)
         /\ SubSeq(c, p + 1, Len(c)) \in Seq(Nat)
         /\ \E q \in [Nat -> Nat] : Laid(SubSeq(c, p + 1, Len(c)), 0, n, s, q)
<1> DEFINE m == Len(s)
           l == Len(c)
           d == SubSeq(c, p + 1, l)
           q == [k \in Nat |-> IF k \in n + 1 .. m + 1 THEN place[k] - p ELSE 0]
<1>1. m \in Nat /\ n <= m
  OBVIOUS
<1>0. l \in Nat
  OBVIOUS
<1>2. place[n + 1] = p /\ place[m + 1] = l
  BY DEF Laid
<1>3. \A j, k \in n + 1 .. m + 1 : j <= k => place[j] <= place[k]
  BY DEF Laid
<1>4. \A k \in n + 1 .. m : /\ place[k + 1] = place[k] + Len(Bytes(s[k]))
                            /\ \A i \in 1 .. Len(Bytes(s[k])) : c[place[k] + i] = Bytes(s[k])[i]
  BY DEF Laid
<1>5. \A k \in Nat : place[k] \in Nat
  OBVIOUS
<1>6. n + 1 \in n + 1 .. m + 1 /\ m + 1 \in n + 1 .. m + 1 /\ \A k \in n + 1 .. m + 1 : n + 1 <= k /\ k <= m + 1 /\ k \in Nat
  <2> HIDE DEF m
  <2> QED
    BY ONLY <1>1, n \in Nat
<1>7. \A k \in n + 1 .. m + 1 : p <= place[k] /\ place[k] <= l /\ place[k] \in Nat
  <2> HIDE DEF m, l
  <2> QED
    BY ONLY <1>2, <1>3, <1>5, <1>6
<1>8. p <= l
  <2> HIDE DEF m, l
  <2> QED
    BY ONLY <1>2, <1>6, <1>7
<1>9. d \in Seq(Nat) /\ Len(d) = l - p /\ \A i \in 1 .. l - p : d[i] = c[p + i]
  <2>1. \A i \in p + 1 .. l : c[i] \in Nat
    <3>1. \A i \in p + 1 .. Len(c) : i \in 1 .. Len(c)
      OBVIOUS
    <3> QED
      BY ONLY c \in Seq(Nat), <3>1, ElementOfSeq
  <2> HIDE DEF l
  <2>2. /\ SubSeq(c, p + 1, l) \in Seq(Nat)
        /\ Len(SubSeq(c, p + 1, l)) = IF p + 1 <= l THEN l - (p + 1) + 1 ELSE 0
        /\ \A i \in 1 .. l - (p + 1) + 1 : SubSeq(c, p + 1, l)[i] = c[(p + 1) + i - 1]
    BY ONLY <1>0, <2>1, p \in Nat, SubSeqProperties
  <2>3. /\ l - (p + 1) + 1 = l - p
        /\ (p + 1 <= l) \/ l - p = 0
    BY ONLY <1>0, <1>8, p \in Nat
  <2>4. \A i \in Int : (p + 1) + i - 1 = p + i
    BY ONLY p \in Nat
  <2>5. Len(d) = l - p
    BY ONLY <2>2, <2>3
  <2>6. ASSUME NEW i \in 1 .. l - p PROVE d[i] = c[p + i]
    <3>1. i \in 1 .. l - (p + 1) + 1 /\ i \in Int
      BY ONLY <2>3, i \in 1 .. l - p, <1>0, p \in Nat
    <3>2. SubSeq(c, p + 1, l)[i] = c[(p + 1) + i - 1]
      BY ONLY <2>2, <3>1
    <3>3. (p + 1) + i - 1 = p + i
      BY ONLY <2>4, <3>1
    <3> QED
      BY ONLY <3>2, <3>3
  <2> QED
    BY <2>2, <2>5, <2>6
<1>10. q \in [Nat -> Nat] /\ \A k \in n + 1 .. m + 1 : q[k] = place[k] - p
  <2> HIDE DEF m, l
  <2>0. \A x \in Nat : p <= x => x - p \in Nat
    BY ONLY p \in Nat
  <2>1. \A k \in n + 1 .. m + 1 : place[k] - p \in Nat
    BY ONLY <1>7, <2>0
  <2> QED
    BY <1>6, <2>1
<1> HIDE DEF m, l, d, q
<1>11. q[n + 1] = 0 /\ q[m + 1] = Len(d)
  <2>1. q[n + 1] = p - p /\ q[m + 1] = l - p
    BY ONLY <1>2, <1>6, <1>10
  <2>2. p - p = 0
    BY ONLY p \in Nat
  <2> QED
    BY ONLY <1>9, <2>1, <2>2
<1>12. ASSUME NEW j \in n + 1 .. m + 1, NEW k \in n + 1 .. m + 1, j <= k
       PROVE  q[j] <= q[k]
  <2>1. place[j] <= place[k] /\ place[j] \in Nat /\ place[k] \in Nat
    BY <1>3, <1>7, <1>12
  <2>2. q[j] = place[j] - p /\ q[k] = place[k] - p
    BY <1>10
  <2> QED
    BY ONLY <2>1, <2>2, p \in Nat
<1>13. ASSUME NEW k \in n + 1 .. m
       PROVE  /\ q[k + 1] = q[k] + Len(Bytes(s[k]))
              /\ \A i \in 1 .. Len(Bytes(s[k])) : d[q[k] + i] = Bytes(s[k])[i]
  <2> DEFINE b == Bytes(s[k])
  <2>0. k \in Nat /\ n + 1 <= k /\ k <= m
    BY <1>1
  <2>1. k \in n + 1 .. m + 1 /\ k + 1 \in n + 1 .. m + 1
    BY ONLY <1>1, <2>0, n \in Nat
  <2>2. s[k] \in Puttable
    <3>1. k \in 1 .. Len(s)
      BY <1>1, <2>0 DEF m
    <3> QED
      BY ONLY <3>1, s \in Seq(Puttable), ElementOfSeq
  <2>3. Len(b) \in Nat
    BY <2>2, ItemBytes
  <2>4. q[k] = place[k] - p /\ q[k + 1] = place[k + 1] - p
    BY ONLY <1>10, <2>1
  <2>5. place[k + 1] = place[k] + Len(b) /\ \A i \in 1 .. Len(b) : c[place[k] + i] = b[i]
    BY <1>4
  <2>6. place[k] \in Nat /\ p <= place[k] /\ place[k + 1] \in Nat /\ place[k + 1] <= l
    BY ONLY <1>7, <2>1
  <2> HIDE DEF b
  <2>7. q[k + 1] = q[k] + Len(b)
    BY ONLY <2>3, <2>4, <2>5, <2>6, p \in Nat
  <2>8. ASSUME NEW i \in 1 .. Len(b) PROVE d[q[k] + i] = b[i]
    <3> DEFINE x == place[k]
    <3>0. i \in Nat /\ 1 <= i /\ i <= Len(b)
      BY <2>3
    <3>1. x \in Nat /\ p <= x /\ x + Len(b) <= l /\ q[k] = x - p
      BY ONLY <2>4, <2>5, <2>6
    <3> HIDE DEF x
    <3>2. (x - p) + i \in 1 .. l - p /\ p + ((x - p) + i) = x + i
      BY ONLY <1>0, <2>3, <3>0, <3>1, p \in Nat
    <3>3. d[(x - p) + i] = c[x + i]
      BY ONLY <1>9, <3>2
    <3>4. c[x + i] = b[i]
      BY ONLY <2>5, i \in 1 .. Len(b) DEF x
    <3> QED
      BY ONLY <3>1, <3>3, <3>4
  <2> QED
    BY ONLY <2>7, <2>8 DEF b
<1>14. Laid(d, 0, n, s, q)
  <2>1. q[n + 1] = 0 /\ q[Len(s) + 1] = Len(d)
    BY ONLY <1>11 DEF m
  <2>2. \A j, k \in n + 1 .. Len(s) + 1 : j <= k => q[j] <= q[k]
    BY ONLY <1>12 DEF m
  <2>3. \A k \in n + 1 .. Len(s) : /\ q[k + 1] = q[k] + Len(Bytes(s[k]))
                                   /\ \A i \in 1 .. Len(Bytes(s[k])) : d[q[k] + i] = Bytes(s[k])[i]
    BY ONLY <1>13 DEF m
  <2> QED
    BY ONLY <2>1, <2>2, <2>3 DEF Laid
<1> QED
  BY ONLY <1>8, <1>9, <1>10, <1>14 DEF d, l

\* What has been put and not been taken lies ahead, coding by coding, and what
\* has been taken is what was put.
Meant == {item[2] : item \in Puttable}
BufferInv ==
  /\ content \in Seq(Nat) /\ position \in Nat /\ puts \in Seq(Puttable) /\ taken \in Seq(Meant)
  /\ Len(taken) <= Len(puts)
  /\ SameValues
  /\ \E place \in [Nat -> Nat] : Laid(content, position, Len(taken), puts, place)

\* A buffer begins empty.
LEMMA BufferBegins == BufferInit => BufferInv
<1> SUFFICES ASSUME BufferInit PROVE BufferInv
  OBVIOUS
<1>1. content = <<>> /\ position = 0 /\ puts = <<>> /\ taken = <<>>
  BY DEF BufferInit
<1>2. Len(<<>>) = 0 /\ <<>> \in Seq(Nat) /\ <<>> \in Seq(Puttable) /\ <<>> \in Seq(Meant)
  OBVIOUS
<1> DEFINE q == [k \in Nat |-> 0]
<1>3. q \in [Nat -> Nat] /\ \A k \in 0 .. 1 : q[k] = 0
  OBVIOUS
<1> HIDE DEF q
<1>4. Laid(<<>>, 0, 0, <<>>, q)
  BY <1>2, <1>3 DEF Laid
<1>5. SameValues
  BY <1>1 DEF SameValues
<1> QED
  BY <1>1, <1>2, <1>3, <1>4, <1>5 DEF BufferInv

\* A put changes nothing of what lies ahead and nothing of what was taken.
LEMMA PutKeepsBuffer ==
  ASSUME BufferInv, NEW c, NEW v, <<c, v>> \in Puttable, Put(c, v)
  PROVE  BufferInv'
<1> DEFINE e == Encoded(c, v)
           item == <<c, v>>
<1>1. content' = content \o e /\ puts' = Append(puts, item) /\ position' = position /\ taken' = taken
  BY DEF Put
<1>2. /\ content \in Seq(Nat) /\ position \in Nat /\ puts \in Seq(Puttable) /\ taken \in Seq(Meant)
      /\ Len(taken) <= Len(puts)
  BY DEF BufferInv
<1>3. e \in Seq(Nat) /\ e = Bytes(item) /\ item \in Puttable
  BY BytesAreNumbers DEF Bytes
<1> HIDE DEF e, item
<1>4. PICK place \in [Nat -> Nat] : Laid(content, position, Len(taken), puts, place)
  BY DEF BufferInv
<1>5. Len(taken) \in Nat /\ Len(puts) \in Nat
  <2>1. Len(taken) \in Nat
    BY ONLY <1>2
  <2>2. Len(puts) \in Nat
    BY ONLY <1>2
  <2> QED
    BY ONLY <2>1, <2>2
<1>6. \E q \in [Nat -> Nat] : Laid(content \o e, position, Len(taken), Append(puts, item), q)
  BY <1>2, <1>3, <1>4, <1>5, LaidByPut
<1>7. content \o e \in Seq(Nat)
  BY <1>2, <1>3, ConcatProperties
<1>8. /\ Append(puts, item) \in Seq(Puttable) /\ Len(Append(puts, item)) = Len(puts) + 1
      /\ \A i \in 1 .. Len(puts) : Append(puts, item)[i] = puts[i]
  BY <1>2, <1>3, AppendProperties
<1>9. ASSUME NEW i \in 1 .. Len(taken)
      PROVE  taken[i] = Append(puts, item)[i][2]
  <2>1. i \in 1 .. Len(puts)
    BY <1>2, <1>5
  <2>2. taken[i] = puts[i][2]
    BY DEF BufferInv, SameValues
  <2> QED
    BY <1>8, <2>1, <2>2
<1>10. SameValues'
  BY <1>1, <1>9 DEF SameValues
<1>11. Len(taken) <= Len(Append(puts, item))
  BY <1>2, <1>5, <1>8
<1> QED
  BY <1>1, <1>2, <1>6, <1>7, <1>8, <1>10, <1>11 DEF BufferInv

\* A get takes the value that was put next, and no more of the buffer than the
\* bytes of that value.
LEMMA GetKeepsBuffer ==
  ASSUME BufferInv, Get
  PROVE  BufferInv'
<1> DEFINE n == Len(taken)
           item == puts[n + 1]
           b == Bytes(item)
<1>1. /\ content \in Seq(Nat) /\ position \in Nat /\ puts \in Seq(Puttable) /\ taken \in Seq(Meant)
      /\ n <= Len(puts)
  BY DEF BufferInv
<1>2. n \in Nat /\ Len(puts) \in Nat /\ n < Len(puts)
  BY <1>1 DEF Get
<1>3. item \in Puttable
  BY <1>1, <1>2, ElementOfSeq
<1>4. item = <<item[1], item[2]>> /\ Len(b) \in Nat
  BY <1>3, ItemBytes
<1>5. PICK place \in [Nat -> Nat] : Laid(content, position, n, puts, place)
  BY DEF BufferInv
<1>6. /\ position + Len(b) <= Len(content)
      /\ \A i \in 1 .. Len(b) : content[position + i] = b[i]
      /\ Laid(content, position + Len(b), n + 1, puts, place)
  BY <1>1, <1>2, <1>5, LaidByGet
<1>7. Ahead(Encoded(item[1], item[2]))
  BY <1>6 DEF Ahead, At, Bytes
<1>8. Agree(item[1], item[2])
  BY <1>1, <1>3, <1>4, <1>7, EveryCodingAgrees
<1>9. Size(item[1]) = Len(b) /\ Decoded(item[1]) = item[2]
  BY <1>8 DEF Agree, Bytes
<1>10. content' = content /\ puts' = puts /\ position' = position + Size(item[1]) /\ taken' = Append(taken, Decoded(item[1]))
  BY DEF Get, GetData
<1>11. item[2] \in Meant
  BY <1>3 DEF Meant
<1> DEFINE t == Append(taken, item[2])
<1>12. /\ t \in Seq(Meant) /\ Len(t) = n + 1 /\ t[n + 1] = item[2]
       /\ \A i \in 1 .. n : t[i] = taken[i]
  BY <1>1, <1>11, AppendProperties
<1>13. taken' = t /\ position' = position + Len(b)
  BY <1>9, <1>10
<1> HIDE DEF t, b
<1>14. ASSUME NEW i \in 1 .. n + 1
       PROVE  t[i] = puts[i][2]
  <2>1. CASE i = n + 1
    BY <1>12, <2>1
  <2>2. CASE i \in 1 .. n
    BY <1>12, <2>2 DEF BufferInv, SameValues
  <2>3. i \in 1 .. n \/ i = n + 1
    <3> HIDE DEF n
    <3> QED
      BY ONLY <1>2, i \in 1 .. n + 1
  <2> QED
    BY ONLY <2>1, <2>2, <2>3
<1>15. SameValues'
  BY <1>10, <1>12, <1>13, <1>14 DEF SameValues
<1>16. Len(t) <= Len(puts) /\ position + Len(b) \in Nat
  <2>0. position \in Nat /\ Len(b) \in Nat
    BY ONLY <1>1, <1>4
  <2>1. position + Len(b) \in Nat
    BY ONLY <2>0
  <2>2. Len(t) <= Len(puts)
    BY ONLY <1>2, <1>12
  <2> QED
    BY ONLY <2>1, <2>2
<1>17. Laid(content, position + Len(b), Len(t), puts, place)
  BY <1>6, <1>12
<1> HIDE DEF n, item
<1> QED
  BY <1>1, <1>10, <1>12, <1>13, <1>15, <1>16, <1>17 DEF BufferInv

\* What is cleared has been taken.
LEMMA ClearKeepsBuffer ==
  ASSUME BufferInv, ClearOldData
  PROVE  BufferInv'
<1> DEFINE d == SubSeq(content, position + 1, Len(content))
<1>1. content' = d /\ position' = 0 /\ puts' = puts /\ taken' = taken
  BY DEF ClearOldData
<1>2. /\ content \in Seq(Nat) /\ position \in Nat /\ puts \in Seq(Puttable) /\ taken \in Seq(Meant)
      /\ Len(taken) <= Len(puts) /\ SameValues
  BY DEF BufferInv
<1>3. Len(taken) \in Nat
  BY <1>2
<1>4. PICK place \in [Nat -> Nat] : Laid(content, position, Len(taken), puts, place)
  BY DEF BufferInv
<1>5. d \in Seq(Nat) /\ \E q \in [Nat -> Nat] : Laid(d, 0, Len(taken), puts, q)
  BY <1>2, <1>3, <1>4, LaidByClear
<1> HIDE DEF d
<1>6. SameValues'
  BY <1>1, <1>2 DEF SameValues
<1> QED
  BY <1>1, <1>2, <1>5, <1>6 DEF BufferInv

\* ValuesComeBack: readers and writers agree on every coding, whatever is put
\* before, between or behind, and whenever the old data is cleared; when all is
\* taken nothing is left.
THEOREM ValuesAlwaysComeBack == BufferInit /\ [][BufferNext]_bufferVars => []ValuesComeBack
<1>1. BufferInit => BufferInv
  BY BufferBegins
<1>2. BufferInv /\ [BufferNext]_bufferVars => BufferInv'
  <2> SUFFICES ASSUME BufferInv, [BufferNext]_bufferVars PROVE BufferInv'
    OBVIOUS
  <2>1. ASSUME NEW c \in Coded, Put(c[1], c[2]) PROVE BufferInv'
    <3>1. c \in Puttable
      BY DEF Puttable
    <3>2. <<c[1], c[2]>> \in Puttable
      BY <3>1, ItemBytes
    <3> QED
      BY <2>1, <3>2, PutKeepsBuffer
  <2>2. ASSUME NEW text \in Texts, Put("String", text) PROVE BufferInv'
    <3>1. <<"String", text>> \in Puttable
      BY DEF Puttable
    <3> QED
      BY <2>2, <3>1, PutKeepsBuffer
  <2>3. CASE Get
    BY <2>3, GetKeepsBuffer
  <2>4. CASE ClearOldData
    BY <2>4, ClearKeepsBuffer
  <2>5. CASE UNCHANGED bufferVars
    BY <2>5 DEF bufferVars, BufferInv, SameValues
  <2> QED
    BY <2>1, <2>2, <2>3, <2>4, <2>5 DEF BufferNext
<1>3. BufferInv => ValuesComeBack
  <2> SUFFICES ASSUME BufferInv PROVE SameValues /\ (Len(taken) = Len(puts) => Remaining = 0)
    BY DEF ValuesComeBack, NothingLeft
  <2> SUFFICES ASSUME Len(taken) = Len(puts) PROVE Remaining = 0
    BY DEF BufferInv
  <2>1. PICK place \in [Nat -> Nat] : Laid(content, position, Len(taken), puts, place)
    BY DEF BufferInv
  <2>2. position = Len(content)
    BY <2>1 DEF Laid
  <2>3. position \in Nat
    BY DEF BufferInv
  <2> QED
    BY <2>2, <2>3 DEF Remaining
<1> QED
  BY <1>1, <1>2, <1>3, PTL

-----------------------------------------------------------------------------
(* The reactor *)

USE ReactorAssumption

\* A session has a descriptor as long as it is registered, DoAccept is called
\* only while a connection waits, and a write that is held up belongs to a session
\* that has no event left.
HeldInv ==
  /\ phase # "exit" => sessions \subseteq Open
  /\ accepting => backlog > 0
  /\ phase = "write" => \A fd \in writing : fd \in sessions /\ ready[fd] = {}

IInv == TypeOK /\ HandlesAgree /\ EndedOnce /\ HeldInv

\* All that a step must not disturb, for the leaves below.
USE DEF IInv, HandlesAgree, EndedOnce, SessionsArePolled, PointersValid, NeverRemovedTwice,
        NoDescriptorLeak, CallbacksHaveSessions, HeldInv, Open

\* What the clients do changes neither a table of the server nor the events it
\* is about to handle.
LEMMA ClientStep == IInv /\ Client => IInv'
<1> SUFFICES ASSUME IInv, Client PROVE IInv'
  OBVIOUS
<1> USE DEF TypeOK
<1>1. CASE Connect
  BY <1>1 DEF Connect, objVars, loopVars, heldVars
<1>2. ASSUME NEW fd \in Fds, ClientSend(fd) PROVE IInv'
  BY <1>2 DEF ClientSend, objVars, loopVars, heldVars
<1>3. ASSUME NEW fd \in Fds, NEW end \in PeerEnds, ClientEnd(fd, end) PROVE IInv'
  BY <1>3 DEF ClientEnd, objVars, loopVars, heldVars
<1>4. ASSUME NEW fd \in Fds, ClientRead(fd) PROVE IInv'
  BY <1>4 DEF ClientRead, objVars, loopVars, heldVars
<1> QED
  BY <1>1, <1>2, <1>3, <1>4 DEF Client

\* epoll_wait reports registered descriptors only.
LEMMA WaitStep == IInv /\ Wait => IInv'
<1> SUFFICES ASSUME IInv, Wait PROVE IInv'
  OBVIOUS
<1>1. idle' \in [Fds -> Nat]
  BY DEF Wait, Aged, TypeOK
<1>2. ready' \in [Fds -> SUBSET {"in", "out"}] /\ \A fd \in Fds : ready'[fd] \subseteq interest[fd]
  BY DEF Wait, TypeOK
<1>3. TypeOK'
  BY <1>1, <1>2 DEF Wait, TypeOK, netVars, heldVars
<1> QED
  BY <1>2, <1>3 DEF Wait, netVars, heldVars


\* Accepting fills all tables or, when it fails, leaves at most an entry in
\* channel_map_ that nothing points to.
LEMMA AcceptStep ==
  ASSUME IInv, NEW fd \in Fds, DoAccept(fd) \/ AcceptNotPolled(fd) PROVE IInv'
<1>1. backlog' \in 0 .. MaxBacklog /\ accepting' = FALSE
  BY DEF DoAccept, AcceptNotPolled, TypeOK
<1>2. CASE AcceptNotPolled(fd)
  BY <1>1, <1>2 DEF AcceptNotPolled, heldVars, TypeOK
<1>3. CASE DoAccept(fd) /\ fd \in sessions
  BY <1>1, <1>3 DEF DoAccept, heldVars, TypeOK
<1>4. CASE DoAccept(fd) /\ fd \notin sessions
  <2>1. PICK end \in {"open"} \cup (PeerEnds \ {"rst"}) : peer' = [peer EXCEPT ![fd] = end]
    BY <1>4 DEF DoAccept
  <2>2. PICK sent \in 0 .. MaxUnread : unread' = [unread EXCEPT ![fd] = sent]
    BY <1>4 DEF DoAccept
  <2>3. /\ channels' = channels \cup {fd} /\ interest' = [interest EXCEPT ![fd] = {"in"}]
        /\ sessions' = sessions \cup {fd} /\ idle' = [idle EXCEPT ![fd] = 0]
        /\ UNCHANGED <<output, full, phase, writing, ending, ready, fault>>
    BY <1>4 DEF DoAccept, heldVars
  <2>4. phase = "poll"
    BY <1>4 DEF DoAccept
  <2>5. TypeOK'
    BY <1>1, <2>1, <2>2, <2>3 DEF TypeOK
  <2> QED
    BY <1>1, <2>1, <2>3, <2>4, <2>5 DEF TypeOK
<1> QED
  BY <1>2, <1>3, <1>4

\* The end of a callback takes its own session out of the tables, or leaves it
\* registered for something.
LEMMA FinishKeeps ==
  ASSUME IInv, NEW fd \in sessions, NEW ended, NEW wrote, Finish(fd, ended, wrote),
         ready' \in [Fds -> SUBSET {"in", "out"}], ready'[fd] = {},
         \A other \in Fds : other # fd => ready'[other] = ready[other],
         phase # "exit", UNCHANGED <<backlog, peer, accepting>>
  PROVE  /\ HandlesAgree' /\ EndedOnce' /\ HeldInv'
         /\ interest' \in [Fds -> SUBSET {"in", "out"}]
         /\ channels' \in SUBSET Fds /\ sessions' \in SUBSET Fds
         /\ phase' = "poll" /\ fault' = fault
<1>1. fd \in Fds /\ interest[fd] # {}
  BY DEF TypeOK
<1>2. CASE ended
  <2>1. /\ channels' = channels \ {fd} /\ sessions' = sessions \ {fd}
        /\ phase' = "poll" /\ UNCHANGED fault
        /\ interest' = [interest EXCEPT ![fd] = {}]
    BY <1>1, <1>2 DEF Finish, SessionDisconnect
  <2> QED
    BY <1>1, <2>1 DEF TypeOK
<1>3. CASE ~ended
  <2>1. UNCHANGED <<channels, sessions, fault>> /\ phase' = "poll"
    BY <1>3 DEF Finish
  <2>2. PICK events \in {{"in", "out"}, {"in"}, interest[fd]} : interest' = [interest EXCEPT ![fd] = events]
    BY <1>3 DEF Finish
  <2>3. events # {} /\ events \subseteq {"in", "out"}
    BY <1>1 DEF TypeOK
  <2> QED
    BY <1>1, <2>1, <2>2, <2>3 DEF TypeOK
<1> QED
  BY <1>2, <1>3

\* What a read leaves unread, and what output it makes.
LEMMA ReadType ==
  ASSUME IInv, NEW fd \in Fds, NEW effect \in Effects
  PROVE  /\ UnreadAfterRead(fd) \in [Fds -> 0 .. MaxUnread]
         /\ OutputAfterRead(fd, effect) \in SUBSET Fds
<1>1. UnreadAfterRead(fd) \in [Fds -> 0 .. MaxUnread]
  BY DEF UnreadAfterRead, ReadsData, TypeOK
<1>2. OutputAfterRead(fd, effect) \in SUBSET Fds
  BY DEF OutputAfterRead, Effects, TypeOK
<1> QED
  BY <1>1, <1>2

\* A callback ends its own session and no other, which is still registered.
LEMMA ReadWriteStep ==
  ASSUME IInv, NEW fd \in Fds, NEW effect \in Effects, DoReadWrite(fd, effect) PROVE IInv'
<1>1. fd \in sessions /\ phase = "poll" /\ Finish(fd, Ends(fd, effect), "out" \in ready[fd])
  BY DEF DoReadWrite
<1>2. /\ ready' = [ready EXCEPT ![fd] = {}]
      /\ UNCHANGED <<backlog, peer, accepting, writing, ending>>
  BY DEF DoReadWrite, heldVars
<1>3. ready' \in [Fds -> SUBSET {"in", "out"}] /\ ready'[fd] = {}
  BY <1>2 DEF TypeOK
<1>4. \A other \in Fds : other # fd => ready'[other] = ready[other]
  BY <1>2 DEF TypeOK
<1>5. /\ HandlesAgree' /\ EndedOnce' /\ HeldInv'
      /\ interest' \in [Fds -> SUBSET {"in", "out"}]
      /\ channels' \in SUBSET Fds /\ sessions' \in SUBSET Fds
      /\ phase' = "poll" /\ fault' = fault
  <2>1. phase # "exit"
    BY <1>1
  <2> QED
    BY <1>1, <1>2, <1>3, <1>4, <2>1, FinishKeeps
<1>6. /\ unread' \in [Fds -> 0 .. MaxUnread] /\ output' \in SUBSET Fds
      /\ idle' \in [Fds -> Nat]
  <2>1. unread' = UnreadAfterRead(fd) /\ output' \subseteq OutputAfterRead(fd, effect)
    BY DEF DoReadWrite
  <2>2. idle' \in [Fds -> Nat]
    BY DEF DoReadWrite, TypeOK
  <2> QED
    BY <2>1, <2>2, ReadType
<1>7. full' \in SUBSET Fds
  <2>1. PICK filled \in SUBSET {f \in {fd} \cap SlowReaders : Writes(fd, effect)} :
          full' = full \cup filled
    BY DEF DoReadWrite
  <2> QED
    BY <2>1 DEF TypeOK
<1>8. TypeOK'
  BY <1>2, <1>3, <1>5, <1>6, <1>7 DEF TypeOK
<1> QED
  BY <1>5, <1>8

\* A write that is held up leaves its session where it is.
LEMMA HeldUpStep ==
  ASSUME IInv, NEW fd \in Fds, NEW effect \in Effects, DoReadWriteHeldUp(fd, effect) PROVE IInv'
<1>1. fd \in sessions /\ phase = "poll"
  BY DEF DoReadWriteHeldUp, Writes
<1>2. /\ phase' = "write" /\ writing' = {fd} /\ ending' \in BOOLEAN
      /\ UNCHANGED <<backlog, peer, interest, channels, sessions, accepting, fault>>
  BY DEF DoReadWriteHeldUp, Ends, ReadsEnd, ReadsData, Effects
<1>3. /\ ready' = [ready EXCEPT ![fd] = {}] /\ full' = full \cup {fd}
      /\ idle' \in [Fds -> Nat]
  BY DEF DoReadWriteHeldUp, TypeOK
<1>4. unread' \in [Fds -> 0 .. MaxUnread] /\ output' \in SUBSET Fds
  BY ReadType DEF DoReadWriteHeldUp
<1>5. TypeOK'
  BY <1>2, <1>3, <1>4 DEF TypeOK
<1> QED
  BY <1>1, <1>2, <1>3, <1>5 DEF TypeOK

\* Trying again changes nothing but the time,
LEMMA RetryStep == IInv /\ Retry => IInv'
<1> SUFFICES ASSUME IInv, Retry PROVE IInv'
  OBVIOUS
<1>1. idle' \in [Fds -> Nat]
  BY DEF Retry, Aged, TypeOK
<1> QED
  BY <1>1 DEF Retry, netVars, loopVars, heldVars, TypeOK

\* and when the write goes through the callback ends as any other.
LEMMA WriteOnStep ==
  ASSUME IInv, NEW fd \in Fds, WriteOn(fd) PROVE IInv'
<1>1. fd \in sessions /\ phase = "write" /\ Finish(fd, ending, TRUE)
  BY DEF WriteOn
<1>2. UNCHANGED <<backlog, peer, unread, ready, accepting>> /\ writing' = {} /\ ending' = FALSE
  BY DEF WriteOn
<1>3. /\ HandlesAgree' /\ EndedOnce' /\ HeldInv'
      /\ interest' \in [Fds -> SUBSET {"in", "out"}]
      /\ channels' \in SUBSET Fds /\ sessions' \in SUBSET Fds
      /\ phase' = "poll" /\ fault' = fault
  <2>1. phase # "exit" /\ ready' \in [Fds -> SUBSET {"in", "out"}] /\ ready'[fd] = {}
    BY <1>1, <1>2 DEF WriteOn, TypeOK
  <2> QED
    BY <1>1, <1>2, <2>1, FinishKeeps
<1>4. idle' \in [Fds -> Nat] /\ output' \in SUBSET Fds
  BY DEF WriteOn, TypeOK
<1>5. full' \in SUBSET Fds
  <2>1. PICK filled \in SUBSET ({fd} \cap SlowReaders) : full' = full \cup filled
    BY DEF WriteOn
  <2> QED
    BY <2>1 DEF TypeOK
<1>6. TypeOK'
  BY <1>2, <1>3, <1>4, <1>5 DEF TypeOK
<1> QED
  BY <1>3, <1>6

\* When the process has ended nothing is left to handle.
LEMMA EndStep ==
  ASSUME IInv, NEW why \in {"accept", "read", "write", "device"}, ProcessEnds(why) PROVE IInv'
<1>1. /\ phase' = "exit" /\ fault' = why /\ backlog' = 0 /\ full' = {}
      /\ peer' = [fd \in Fds |-> "none"] /\ unread' = [fd \in Fds |-> 0]
      /\ ready' = [fd \in Fds |-> {}] /\ accepting' = FALSE /\ writing' = {} /\ ending' = FALSE
      /\ UNCHANGED <<interest, channels, sessions, output, idle>>
  BY DEF ProcessEnds, objVars
<1>2. 0 \in 0 .. MaxBacklog /\ 0 \in 0 .. MaxUnread
  BY ReactorAssumption DEF ReactorAssumption
<1>3. TypeOK'
  BY <1>1, <1>2 DEF TypeOK
<1> QED
  BY <1>1, <1>3

\* The scan ends sessions that no callback ended; leaving Poll then closes
\* their descriptors, and no other.
LEMMA ScanStep == IInv /\ ScanTimeouts => IInv'
<1> SUFFICES ASSUME IInv, ScanTimeouts PROVE IInv'
  OBVIOUS
<1>1. TimedOut \subseteq sessions
  BY DEF TimedOut
<1>2. \A fd \in TimedOut : interest[fd] # {}
  BY <1>1 DEF TypeOK
<1>3. /\ channels' = channels \ TimedOut /\ sessions' = sessions \ TimedOut
      /\ phase' = "sleep" /\ UNCHANGED fault
  BY <1>2 DEF ScanTimeouts, SessionDisconnect
<1>4. /\ interest' = [fd \in Fds |-> IF fd \in TimedOut THEN {} ELSE interest[fd]]
      /\ UNCHANGED <<backlog, writing, ending, ready, accepting>>
      /\ phase = "poll" /\ ~accepting /\ \A fd \in Fds : ready[fd] = {}
  BY DEF ScanTimeouts, heldVars
<1>5. /\ peer' = [fd \in Fds |-> IF fd \in sessions' THEN peer[fd] ELSE "none"]
      /\ unread' = [fd \in Fds |-> IF fd \in sessions' THEN unread[fd] ELSE 0]
      /\ output' = output \cap sessions' /\ full' = full \cap sessions'
      /\ idle' = [fd \in Fds |-> IF fd \in sessions' THEN idle[fd] ELSE 0]
  BY DEF ScanTimeouts, ReleaseSessions
<1>6. TypeOK'
  <2>1. peer' \in [Fds -> {"none", "open", "fin", "rst"}] /\ idle' \in [Fds -> Nat]
    BY <1>5 DEF TypeOK
  <2>2. unread' \in [Fds -> 0 .. MaxUnread] /\ output' \in SUBSET Fds /\ full' \in SUBSET Fds
    BY <1>5 DEF TypeOK
  <2>3. interest' \in [Fds -> SUBSET {"in", "out"}]
    BY <1>4 DEF TypeOK
  <2> QED
    BY <1>3, <1>4, <2>1, <2>2, <2>3 DEF TypeOK
<1>7. HandlesAgree'
  <2>1. SessionsArePolled' /\ PointersValid'
    BY <1>3, <1>4 DEF TypeOK
  <2>2. \A fd \in Fds : peer'[fd] # "none" <=> fd \in sessions'
    BY <1>3, <1>4, <1>5 DEF TypeOK
  <2>3. sessions' \subseteq Fds
    BY <1>3 DEF TypeOK
  <2> QED
    BY <2>1, <2>2, <2>3
<1>8. EndedOnce' /\ HeldInv'
  <2>1. EndedOnce'
    BY <1>3, <1>4
  <2>2. \A fd \in sessions' : peer'[fd] # "none"
    BY <1>3, <1>4, <1>5 DEF TypeOK
  <2> QED
    BY <1>3, <1>4, <2>1, <2>2 DEF TypeOK
<1> QED
  BY <1>6, <1>7, <1>8

\* Every step keeps the tables together.
LEMMA IInvStep == IInv /\ [Next]_reactorVars => IInv'
<1> SUFFICES ASSUME IInv, [Next]_reactorVars PROVE IInv'
  OBVIOUS
<1>1. CASE Client
  BY <1>1, ClientStep
<1>2. CASE Wait
  BY <1>2, WaitStep
<1>3. CASE AcceptThrows
  BY <1>3, EndStep DEF AcceptThrows
<1>4. ASSUME NEW fd \in Fds, AcceptNotPolled(fd) \/ DoAccept(fd) PROVE IInv'
  BY <1>4, AcceptStep
<1>5. ASSUME NEW fd \in Fds, DoReadThrows(fd) PROVE IInv'
  BY <1>5, EndStep DEF DoReadThrows
<1>6. ASSUME NEW fd \in Fds, NEW effect \in Effects, DoReadWriteThrows(fd, effect) PROVE IInv'
  BY <1>6, EndStep DEF DoReadWriteThrows
<1>7. ASSUME NEW fd \in Fds, NEW effect \in Effects,
             DoReadWrite(fd, effect) \/ DoReadWriteHeldUp(fd, effect)
      PROVE  IInv'
  BY <1>7, ReadWriteStep, HeldUpStep
<1>10. CASE Retry
  BY <1>10, RetryStep
<1>11. ASSUME NEW fd \in Fds, WriteOn(fd) PROVE IInv'
  BY <1>11, WriteOnStep
<1>12. ASSUME NEW fd \in Fds, HeldUpThrows(fd) PROVE IInv'
  BY <1>12, EndStep DEF HeldUpThrows
<1>13. CASE DeviceFails
  BY <1>13, EndStep DEF DeviceFails
<1>8. CASE ScanTimeouts
  BY <1>8, ScanStep
<1>9. CASE UNCHANGED reactorVars
  <2>1. /\ UNCHANGED <<backlog, peer, unread, full, interest, channels, sessions, output, idle>>
        /\ UNCHANGED <<phase, writing, ending, ready, accepting, fault>>
    BY <1>9 DEF reactorVars, netVars, objVars, loopVars, heldVars
  <2> QED
    BY <2>1 DEF TypeOK
<1> QED
  BY <1>1, <1>2, <1>3, <1>4, <1>5, <1>6, <1>7, <1>8, <1>9, <1>10, <1>11,
     <1>12, <1>13 DEF Next, Loop, Exited

\* The invariant holds in every reachable state.
THEOREM AlwaysIInv == Spec => []IInv
<1>1. Init => IInv
  <2> SUFFICES ASSUME Init PROVE IInv
    OBVIOUS
  <2>1. 0 \in 0 .. MaxBacklog /\ 0 \in 0 .. MaxUnread /\ 0 \in Nat
    BY ReactorAssumption DEF ReactorAssumption
  <2>2. TypeOK
    BY <2>1 DEF Init, TypeOK
  <2>3. SessionsArePolled /\ PointersValid /\ Open = {} /\ sessions = {}
    BY DEF Init
  <2> QED
    BY <2>2, <2>3 DEF Init
<1> QED
  BY <1>1, IInvStep, PTL DEF Spec

\* Type correctness: in particular a connection is accepted only while one
\* waits.
THEOREM TypeCorrect == Spec => []TypeOK
<1>1. IInv => TypeOK
  OBVIOUS
<1> QED
  BY AlwaysIInv, <1>1, PTL

\* Sessions, epoll set, its pointers and the descriptors never come apart,
\* for any number of clients acting at any time.
THEOREM HandlesAlwaysAgree == Spec => []HandlesAgree
<1>1. IInv => HandlesAgree
  OBVIOUS
<1> QED
  BY AlwaysIInv, <1>1, PTL

\* No session is ended twice, and no event is left for one that ended.
THEOREM AlwaysEndedOnce == Spec => []EndedOnce
<1>1. IInv => EndedOnce
  OBVIOUS
<1> QED
  BY AlwaysIInv, <1>1, PTL
=============================================================================
