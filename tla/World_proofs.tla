---------------------------- MODULE World_proofs ----------------------------
(* What the slot allocation of a world guarantees, for every set of slots, *)
(* and that the loop of add_player computes it, for tables of any size.    *)
EXTENDS AddPlayerLoop, FiniteSetTheorems, WellFoundedInduction, NaturalsInduction, TLAPS

\* The least element the community modules' Min chooses exists.
LEMMA MinOfNaturals ==
  ASSUME NEW S \in SUBSET Nat, S # {}
  PROVE  Min(S) \in S /\ \A y \in S : Min(S) <= y
<1>1. PICK x \in S : \A y \in S : ~ (<<y, x>> \in OpToRel(<, Nat))
  BY WFMin, NatLessThanWellFounded
<1>2. \A y \in S : ~(y < x)
  BY <1>1 DEF OpToRel
<1>3. \A y \in S : x <= y
  BY <1>2
<1> QED
  BY <1>3 DEF Min

\* In a table of n slots some slot in 0..n is free, so the first gap exists.
LEMMA FirstGapExists ==
  ASSUME NEW slots \in SUBSET Nat, IsFiniteSet(slots)
  PROVE  /\ FirstGap(slots) \in 0 .. Cardinality(slots)
         /\ FirstGap(slots) \notin slots
         /\ \A k \in 0 .. Cardinality(slots) : k < FirstGap(slots) => k \in slots
<1> DEFINE n == Cardinality(slots)
           free == (0 .. n) \ slots
<1>1. n \in Nat
  BY FS_CardinalityType
<1>2. IsFiniteSet(0 .. n) /\ Cardinality(0 .. n) = n + 1
  BY <1>1, FS_Interval
<1>3. free # {}
  <2>1. SUFFICES ASSUME 0 .. n \subseteq slots PROVE FALSE
    OBVIOUS
  <2>2. Cardinality(0 .. n) <= n
    BY <2>1, FS_Subset
  <2> QED
    BY <1>1, <1>2, <2>2
<1>4. Min(free) \in free /\ \A y \in free : Min(free) <= y
  BY <1>1, <1>3, MinOfNaturals
<1> QED
  BY <1>1, <1>4 DEF FirstGap

\* The slot a login is given never exceeds the number of slots in use.
LEMMA SlotForBound ==
  ASSUME NEW slots \in SUBSET Nat, IsFiniteSet(slots)
  PROVE  SlotFor(slots) \in Nat /\ SlotFor(slots) <= Cardinality(slots)
<1> DEFINE n == Cardinality(slots)
           counts == {FirstGap(slots) + 1, n}
<1>1. n \in Nat
  BY FS_CardinalityType
<1>2. FirstGap(slots) \in 0 .. n
  BY FirstGapExists
<1>3. Min(counts) \in counts /\ \A y \in counts : Min(counts) <= y
  <2>1. counts \in SUBSET Nat /\ counts # {}
    BY <1>1, <1>2
  <2> HIDE DEF counts
  <2> QED
    BY <2>1, MinOfNaturals
<1> QED
  BY <1>1, <1>2, <1>3 DEF SlotFor, LoopCounter

-----------------------------------------------------------------------------
(* The loop *)

USE MaxSlotAssumption

\* The greatest element of a table: MaxSlot less the least distance from it.
LEMMA MaxOfTable ==
  ASSUME NEW S \in SUBSET (0 .. MaxSlot), S # {}
  PROVE  Max(S) \in S /\ \A y \in S : y <= Max(S)
<1> DEFINE D == {MaxSlot - y : y \in S}
<1>0. \A y \in S : y \in Nat /\ MaxSlot - y \in Nat
  OBVIOUS
<1>1. D \in SUBSET Nat /\ D # {}
  BY <1>0
<1>2. Min(D) \in D /\ \A d \in D : Min(D) <= d
  BY <1>1, MinOfNaturals
<1>3. PICK x \in S : Min(D) = MaxSlot - x
  BY <1>2
<1>4. \A y \in S : x >= y
  <2> TAKE y \in S
  <2>1. MaxSlot - x <= MaxSlot - y
    BY <1>2, <1>3
  <2> QED
    BY <1>0, <2>1
<1>5. Max(S) \in S /\ \A y \in S : Max(S) >= y
  BY <1>4 DEF Max
<1> QED
  BY <1>0, <1>5

\* The keys of a table are finitely many, one more than MaxSlot at the most.
LEMMA TableSize ==
  ASSUME NEW S \in SUBSET (0 .. MaxSlot)
  PROVE  IsFiniteSet(S) /\ Cardinality(S) \in 0 .. MaxSlot + 1
<1>1. IsFiniteSet(0 .. MaxSlot) /\ Cardinality(0 .. MaxSlot) = MaxSlot + 1
  BY FS_Interval
<1>2. IsFiniteSet(S) /\ Cardinality(S) <= MaxSlot + 1
  BY <1>1, FS_Subset
<1>3. Cardinality(S) \in Nat
  BY <1>2, FS_CardinalityType
<1> QED
  BY <1>2, <1>3

\* The test at the head of the loop is the one SlotFor makes.
LEMMA TestIsNoGaps ==
  ASSUME LoopTypeOK PROVE LastIsSizeMinusOne <=> NoGaps(used)
<1>1. CASE used = {}
  BY <1>1 DEF LastIsSizeMinusOne, NoGaps
<1>2. CASE used # {}
  <2>1. Max(used) \in used /\ \A y \in used : y <= Max(used)
    BY <1>2, MaxOfTable DEF LoopTypeOK
  <2>0. \A k \in used : k \in Nat
    BY DEF LoopTypeOK
  <2>2. ASSUME NEW last \in used, \A k \in used : k <= last PROVE last = Max(used)
    BY <2>0, <2>1, <2>2
  <2> QED
    BY <1>2, <2>1, <2>2 DEF LastIsSizeMinusOne, NoGaps
<1> QED
  BY <1>1, <1>2

\* While the loop runs the keys it has visited are 0 .. counter - 1; when it is
\* done the counter is the slot.
LoopInv ==
  /\ LoopTypeOK
  /\ pc = "test" => unvisited = used /\ counter = 0
  /\ pc = "loop" =>
       /\ ~LastIsSizeMinusOne
       /\ unvisited = {k \in used : k >= counter}
       /\ \A k \in 0 .. counter - 1 : k \in used
  /\ pc = "done" => LoopComputesSlotFor /\ SearchStaysInside

\* The loop never meets the end of the table: without a key to come the keys
\* were 0 .. counter - 1, and the test would have found no gap.
LEMMA KeysToCome ==
  ASSUME LoopInv, pc = "loop" PROVE unvisited # {}
<1> SUFFICES ASSUME unvisited = {} PROVE FALSE
  OBVIOUS
<1>1. used # {} /\ Max(used) # Cardinality(used) - 1
  BY DEF LoopInv, LastIsSizeMinusOne
<1>2. used \in SUBSET (0 .. MaxSlot) /\ counter \in Nat
  BY DEF LoopInv, LoopTypeOK
<1>3. used = 0 .. counter - 1
  <2>0. \A k \in used : k \in Nat
    BY <1>2
  <2>1. \A k \in used : ~(k >= counter)
    BY DEF LoopInv
  <2>2. \A k \in 0 .. counter - 1 : k \in used
    BY DEF LoopInv
  <2>3. \A k \in used : k \in 0 .. counter - 1
    <3> TAKE k \in used
    <3>1. k \in Nat /\ ~(k >= counter)
      BY <2>0, <2>1
    <3> QED
      BY <1>2, <3>1
  <2> QED
    BY <2>2, <2>3
<1>4. counter > 0
  BY <1>1, <1>2, <1>3
<1>5. Max(used) = counter - 1
  <2>1. Max(used) \in used /\ \A y \in used : y <= Max(used)
    BY <1>1, <1>2, MaxOfTable
  <2> QED
    BY <1>2, <1>3, <1>4, <2>1
<1>6. Cardinality(used) = counter
  BY <1>2, <1>3, <1>4, FS_Interval
<1> QED
  BY <1>1, <1>5, <1>6

\* At a key that is not the counter the counter is the first gap, and there is
\* room for one slot more below the number of keys.
LEMMA StopsAtGap ==
  ASSUME LoopInv, pc = "loop", Min(unvisited) # counter
  PROVE  counter + 1 = SlotFor(used) /\ counter + 1 <= Max(used)
<1> DEFINE m == Min(unvisited)
           n == Cardinality(used)
<1>1. used \in SUBSET (0 .. MaxSlot) /\ counter \in Nat
  BY DEF LoopInv, LoopTypeOK
<1>2. n \in Nat /\ IsFiniteSet(used)
  BY <1>1, TableSize
<1>3. unvisited = {k \in used : k >= counter} /\ \A k \in 0 .. counter - 1 : k \in used
  BY DEF LoopInv
<1>4. m \in unvisited /\ \A k \in unvisited : m <= k
  <2>1. unvisited \in SUBSET Nat /\ unvisited # {}
    BY <1>1, <1>3, KeysToCome
  <2> QED
    BY <2>1, MinOfNaturals
<1>5. m \in used /\ m \in Nat /\ m > counter /\ counter \notin used
  <2>0. \A k \in used : k \in Nat
    BY <1>1
  <2>1. m \in used /\ m \in Nat /\ m >= counter /\ m # counter
    BY <1>3, <1>4, <2>0
  <2>2. counter \in used => m <= counter
    <3>1. counter >= counter
      BY <1>1
    <3> QED
      BY <1>3, <1>4, <3>1
  <2> HIDE DEF m
  <2> QED
    BY <1>1, <2>1, <2>2
<1>6. counter + 1 <= n
  <2>1. IsFiniteSet(0 .. counter - 1) /\ Cardinality(0 .. counter - 1) = counter
    <3>1. CASE counter = 0
      <4>1. 0 .. counter - 1 = {}
        BY <3>1
      <4> QED
        BY <3>1, <4>1, FS_EmptySet
    <3>2. CASE counter # 0
      BY <1>1, <3>2, FS_Interval
    <3> QED
      BY <3>1, <3>2
  <2>2. m \notin 0 .. counter - 1
    BY <1>1, <1>5
  <2>3. Cardinality((0 .. counter - 1) \cup {m}) = counter + 1
    BY <2>1, <2>2, FS_AddElement
  <2>4. (0 .. counter - 1) \cup {m} \subseteq used
    BY <1>3, <1>5
  <2>5. Cardinality((0 .. counter - 1) \cup {m}) <= n
    BY <1>2, <2>4, FS_Subset
  <2> QED
    BY <2>3, <2>5
<1>7. FirstGap(used) = counter
  <2>1. /\ FirstGap(used) \in 0 .. n
        /\ FirstGap(used) \notin used
        /\ \A k \in 0 .. n : k < FirstGap(used) => k \in used
    BY <1>1, <1>2, FirstGapExists
  <2>2. ~(counter < FirstGap(used))
    BY <1>1, <1>2, <1>5, <1>6, <2>1
  <2>3. ~(FirstGap(used) < counter)
    BY <1>1, <1>2, <1>3, <2>1
  <2> QED
    BY <1>1, <1>2, <2>1, <2>2, <2>3
<1>8. LoopCounter(used) = counter + 1
  <2> DEFINE S == {counter + 1, n}
  <2>1. S \in SUBSET Nat /\ S # {}
    BY <1>1, <1>2
  <2>2. Min(S) \in S /\ \A y \in S : Min(S) <= y
    BY <2>1, MinOfNaturals
  <2>3. Min(S) = counter + 1
    BY <1>1, <1>2, <1>6, <2>2
  <2> QED
    BY <1>7, <2>3 DEF LoopCounter
<1>9. ~NoGaps(used)
  BY TestIsNoGaps DEF LoopInv
<1>10. m <= Max(used) /\ Max(used) \in Nat
  <2>1. used # {}
    BY <1>5
  <2>2. Max(used) \in used /\ \A y \in used : y <= Max(used)
    BY <1>1, <2>1, MaxOfTable
  <2>3. \A k \in used : k \in Nat
    BY <1>1
  <2>4. Max(used) \in Nat
    BY <2>2, <2>3
  <2> QED
    BY <1>5, <2>2, <2>4
<1> HIDE DEF m
<1> QED
  BY <1>1, <1>5, <1>8, <1>9, <1>10 DEF SlotFor

\* One iteration, or the insertion without one, keeps the invariant.
LEMMA LoopStep == LoopInv /\ [LoopNext]_loopVars => LoopInv'
<1> SUFFICES ASSUME LoopInv, [LoopNext]_loopVars PROVE LoopInv'
  OBVIOUS
<1>1. LoopTypeOK /\ used \in SUBSET (0 .. MaxSlot) /\ counter \in Nat
  BY DEF LoopInv, LoopTypeOK
<1>2. CASE InsertAtEnd
  <2>1. Cardinality(used) \in 0 .. MaxSlot + 1
    BY <1>1, TableSize
  <2>2. NoGaps(used)
    BY <1>1, <1>2, TestIsNoGaps DEF InsertAtEnd
  <2> QED
    BY <1>1, <1>2, <2>1, <2>2 DEF InsertAtEnd, LoopInv, LoopTypeOK, LoopComputesSlotFor,
       SearchStaysInside, LastIsSizeMinusOne, SlotFor
<1>3. CASE Search
  <2>1. pc = "test" /\ unvisited = used /\ counter = 0 /\ ~LastIsSizeMinusOne
    BY <1>3 DEF Search, LoopInv
  <2>2. pc' = "loop" /\ used' = used /\ unvisited' = used /\ counter' = 0
    BY <1>3, <2>1 DEF Search
  <2>3. used = {k \in used : k >= 0}
    <3>1. \A k \in used : k >= 0
      BY <1>1
    <3> QED
      BY <3>1
  <2>4. LoopTypeOK' /\ ~LastIsSizeMinusOne'
    BY <1>1, <2>1, <2>2 DEF LoopTypeOK, LastIsSizeMinusOne
  <2> QED
    BY <2>2, <2>3, <2>4 DEF LoopInv
<1>4. CASE Visit
  <2> DEFINE m == Min(unvisited)
  <2>1. pc = "loop" /\ unvisited = {k \in used : k >= counter}
    BY <1>4 DEF Visit, LoopInv
  <2>2. m \in unvisited /\ \A k \in unvisited : m <= k
    <3>1. unvisited \in SUBSET Nat /\ unvisited # {}
      BY <1>1, <2>1, KeysToCome
    <3> QED
      BY <3>1, MinOfNaturals
  <2>3. m \in 0 .. MaxSlot /\ m >= counter
    BY <1>1, <2>1, <2>2
  <2>4. counter' = counter + 1 /\ unvisited' = unvisited \ {m} /\ used' = used
    BY <1>4 DEF Visit
  <2>5. CASE m = counter
    <3>1. pc' = "loop"
      BY <1>4, <2>5 DEF Visit
    <3>2. unvisited' = {k \in used : k >= counter + 1}
      <4>1. \A k \in used : k \in Nat
        BY <1>1
      <4>2. \A k \in used : (k >= counter /\ k # counter) <=> k >= counter + 1
        BY <1>1, <4>1
      <4> HIDE DEF m
      <4> QED
        BY <2>1, <2>4, <2>5, <4>2
    <3>3. \A k \in 0 .. counter : k \in used
      BY <1>1, <2>1, <2>2, <2>5 DEF LoopInv
    <3> HIDE DEF m
    <3> QED
      BY <1>1, <2>1, <2>3, <2>4, <2>5, <3>1, <3>2, <3>3 DEF LoopInv, LoopTypeOK, LastIsSizeMinusOne
  <2>6. CASE m # counter
    <3>1. pc' = "done"
      BY <1>4, <2>6 DEF Visit
    <3>2. counter + 1 = SlotFor(used) /\ counter + 1 <= Max(used)
      BY <2>1, <2>6, StopsAtGap
    <3>3. LoopTypeOK'
      <4>1. unvisited' \in SUBSET used'
        BY <1>1, <2>4 DEF LoopTypeOK
      <4>2. counter' \in 0 .. MaxSlot + 1
        <5> HIDE DEF m
        <5> QED
          BY <1>1, <2>3, <2>4
      <4> QED
        BY <1>1, <2>4, <3>1, <4>1, <4>2 DEF LoopTypeOK
    <3> QED
      BY <2>4, <3>1, <3>2, <3>3 DEF LoopInv, LoopComputesSlotFor, SearchStaysInside
  <2> QED
    BY <2>5, <2>6
<1>5. CASE UNCHANGED loopVars
  BY <1>5 DEF loopVars, LoopInv, LoopTypeOK, LastIsSizeMinusOne, LoopComputesSlotFor,
     SearchStaysInside
<1> QED
  BY <1>2, <1>3, <1>4, <1>5 DEF LoopNext

\* For tables of any size the loop ends at a gap, with the slot that SlotFor
\* names and inside the table.
THEOREM LoopIsAlwaysAddPlayer == LoopSpec => []LoopIsAddPlayer
<1>1. LoopInit => LoopInv
  BY DEF LoopInit, LoopInv, LoopTypeOK
<1>2. LoopInv => LoopIsAddPlayer
  <2> SUFFICES ASSUME LoopInv PROVE LoopIsAddPlayer
    OBVIOUS
  <2>1. LoopTypeOK /\ LoopComputesSlotFor
    BY DEF LoopInv, LoopComputesSlotFor
  <2>2. SearchFindsGap
    BY KeysToCome DEF SearchFindsGap
  <2>3. SearchStaysInside
    BY DEF LoopInv, SearchStaysInside
  <2> QED
    BY <2>1, <2>2, <2>3 DEF LoopIsAddPlayer
<1> QED
  BY <1>1, <1>2, LoopStep, PTL DEF LoopSpec
=============================================================================
