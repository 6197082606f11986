--------------------------- MODULE Index_proofs ----------------------------
(***************************************************************************)
(* Proofs about GetArchiveData, for every size of the blocks, of the files *)
(* and of the archives, whatever the files hold.                           *)
(***************************************************************************)
EXTENDS Index, ReferenceTable, SequenceTheorems, WellFoundedInduction, TLAPS

\* The output follows the chain from the entry, every block of it bears the
\* number of its place, and block is where the chain leads next.
Chain ==
  /\ \A n \in 1 .. Len(output) :
       /\ output[n] = IF n = 1 THEN entry.first ELSE disk[output[n - 1]].next
       /\ disk[output[n]] \in Headers
       /\ disk[output[n]].archive = request.archive
       /\ disk[output[n]].chunk = n - 1
  /\ block = IF Len(output) = 0 THEN entry.first ELSE disk[output[Len(output)]].next

\* remaining and chunk are functions of the number of blocks read.
Progress ==
  /\ remaining > 0 => remaining = entry.size - kBlockLength * Len(output)
  /\ remaining = 0 => entry.size <= kBlockLength * Len(output)
  /\ Len(output) > 0 => kBlockLength * (Len(output) - 1) < entry.size
  /\ remaining > 0 => chunk = Len(output)

\* The stream fails in the middle of a call only when a block was cut short.
Streams ==
  /\ padded => ~sound /\ PaddedAtEnd
  /\ pc = "reading" /\ ~sound => padded
  /\ pc = "reading" => result = "none"
  /\ pc = "reading" \/ result = "true" => entry.first \in Blocks
  /\ result = "true" => remaining = 0

IInv == TypeOK /\ Chain /\ Progress /\ Streams

-----------------------------------------------------------------------------
(* Arithmetic of the blocks of an archive *)

\* Multiplication by a natural number keeps the order.
LEMMA TimesMonotone ==
  ASSUME NEW a \in Nat, NEW b \in Nat, NEW c \in Nat, a <= b
  PROVE  c * a <= c * b
  OBVIOUS

\* As many blocks as an archive needs hold it, and one less does not.
LEMMA ChunksHold ==
  ASSUME NEW size \in Nat
  PROVE  /\ Chunks(size) \in Nat
         /\ size <= kBlockLength * Chunks(size)
         /\ Chunks(size) > 0 => kBlockLength * (Chunks(size) - 1) < size
  BY IndexAssumption DEF Chunks

\* There is one such number only.
LEMMA ChunksUnique ==
  ASSUME NEW size \in Nat, NEW n \in Nat,
         n > 0 => kBlockLength * (n - 1) < size
  PROVE  /\ n <= Chunks(size)
         /\ size <= kBlockLength * n => n = Chunks(size)
<1>1. ASSUME NEW m \in Nat, NEW k \in Nat, m < k,
             size <= kBlockLength * m, k > 0 => kBlockLength * (k - 1) < size
      PROVE  FALSE
  <2>1. kBlockLength * m <= kBlockLength * (k - 1)
    BY <1>1, TimesMonotone, IndexAssumption
  <2> QED
    BY <1>1, <2>1, IndexAssumption
<1>2. n <= Chunks(size)
  BY <1>1, ChunksHold
<1>3. size <= kBlockLength * n => Chunks(size) <= n
  BY <1>1, ChunksHold
<1> QED
  BY <1>2, <1>3, ChunksHold

-----------------------------------------------------------------------------
(* Chains *)

\* A header that was read before stays.
LEMMA LoadKeeps ==
  ASSUME Load, TypeOK
  PROVE  /\ block \in Blocks => disk' \in [Blocks -> Headers \cup {Unread, Missing}]
         /\ \A b \in Blocks : disk[b] \in Headers => disk'[b] = disk[b]
  BY IndexAssumption DEF Load, TypeOK

\* So the chain of the output stays when a header is read for the first time.
LEMMA ChainStays ==
  ASSUME TypeOK, Chain, UNCHANGED <<request, entry, block, output>>,
         \A b \in Blocks : disk[b] \in Headers => disk'[b] = disk[b]
  PROVE  Chain'
<1>1. /\ Len(output) \in Nat
      /\ \A n \in 1 .. Len(output) : output[n] \in Blocks
  BY DEF TypeOK
<1>2. \A n \in 1 .. Len(output) : disk'[output[n]] = disk[output[n]]
  BY <1>1 DEF Chain
<1>3. \A n \in 1 .. Len(output) : n # 1 => n - 1 \in 1 .. Len(output)
  BY <1>1
<1>4. Len(output) # 0 => Len(output) \in 1 .. Len(output)
  BY <1>1
<1> QED
  BY <1>2, <1>3, <1>4 DEF Chain

\* The first m blocks of s are a chain that starts at first.
Follows(s, m, first, headers) ==
  \A k \in 1 .. m : s[k] = IF k = 1 THEN first ELSE headers[s[k - 1]].next

\* Where the chain leads behind the blocks of s.
Leads(s, first, headers) == IF Len(s) = 0 THEN first ELSE headers[s[Len(s)]].next

\* Two chains from the same block through the same headers are the same as far
\* as both go: where they first differ, the block before says where to go.
LEMMA ChainsAgree ==
  ASSUME NEW first, NEW headers, NEW s, NEW t, NEW m \in Nat,
         Follows(s, m, first, headers), Follows(t, m, first, headers)
  PROVE  \A k \in 1 .. m : s[k] = t[k]
<1> DEFINE D == {k \in 1 .. m : s[k] # t[k]}
<1>1. SUFFICES ASSUME D # {} PROVE FALSE
  OBVIOUS
<1>2. D \subseteq Nat
  OBVIOUS
<1>3. PICK k \in D : \A j \in D : ~ (<<j, k>> \in OpToRel(<, Nat))
  <2> HIDE DEF D
  <2> QED
    BY <1>1, <1>2, WFMin, NatLessThanWellFounded
<1>4. \A j \in D : ~(j < k)
  BY <1>2, <1>3 DEF OpToRel
<1>5. CASE k = 1
  BY <1>5 DEF Follows
<1>6. CASE k # 1
  <2>1. k - 1 \in 1 .. m /\ k - 1 < k
    BY <1>6
  <2>2. s[k - 1] = t[k - 1]
    BY <1>4, <2>1
  <2>3. s[k] = headers[s[k - 1]].next /\ t[k] = headers[t[k - 1]].next
    BY <1>6 DEF Follows
  <2> QED
    BY <2>2, <2>3
<1> QED
  BY <1>5, <1>6

-----------------------------------------------------------------------------
(* The invariant *)

\* It holds before the first call.
LEMMA InitEstablishesIInv == Init => IInv
<1> SUFFICES ASSUME Init PROVE IInv
  OBVIOUS
<1>1. TypeOK
  <2>1. disk \in [Blocks -> Headers \cup {Unread, Missing}]
    BY DEF Init
  <2>2. 0 \in 0 .. MaxSize /\ 0 \in 0 .. BlockCount + 1 /\ 0 \in 0 .. ChunkValues - 1
    BY IndexAssumption
  <2>3. <<>> \in Seq(Blocks)
    OBVIOUS
  <2> QED
    BY <2>1, <2>2, <2>3 DEF Init, TypeOK
<1>2. Chain /\ Progress /\ Streams
  BY IndexAssumption DEF Init, Chain, Progress, Streams, PaddedAtEnd
<1> QED
  BY <1>1, <1>2 DEF IInv

\* A call starts over.
LEMMA CallKeepsIInv ==
  ASSUME IInv, NEW i \in Indexes, NEW a \in Archives, GetArchiveData(i, a)
  PROVE  IInv'
<1> USE DEF IInv
<1>1. TypeOK'
  <2>1. entry' \in [size : 0 .. MaxSize, first : 0 .. BlockCount + 1]
    BY DEF GetArchiveData, ReadEntry
  <2>2. remaining' \in 0 .. MaxSize /\ block' \in 0 .. BlockCount + 1
    BY <2>1 DEF GetArchiveData, ReadEntry
  <2>3. chunk' \in 0 .. ChunkValues - 1
    BY IndexAssumption DEF GetArchiveData, ReadEntry
  <2>4. output' \in Seq(Blocks) /\ sound' \in BOOLEAN /\ padded' \in BOOLEAN
    <3>1. output' = <<>> /\ sound' = TRUE /\ padded' = FALSE
      BY DEF GetArchiveData, ReadEntry
    <3>2. output' \in Seq(Blocks)
      BY <3>1
    <3>3. sound' \in BOOLEAN /\ padded' \in BOOLEAN
      BY <3>1, Zenon
    <3> QED
      BY <3>2, <3>3, Zenon
  <2>5. pc' \in {"idle", "reading"} /\ result' \in {"none", "true", "false"}
    BY DEF GetArchiveData, ReadEntry, Returns
  <2>6. disk' \in [Blocks -> Headers \cup {Unread, Missing}]
    BY DEF GetArchiveData, TypeOK
  <2>7. request' \in [index : Indexes, archive : Archives]
    BY DEF GetArchiveData
  <2> QED
    BY <2>1, <2>2, <2>3, <2>4, <2>5, <2>6, <2>7 DEF TypeOK
<1>2. Chain'
  BY DEF Chain, GetArchiveData, ReadEntry
<1>3. Progress'
  BY IndexAssumption DEF TypeOK, Progress, GetArchiveData, ReadEntry
<1>4. Streams'
  BY DEF Streams, GetArchiveData, ReadEntry, Returns
<1> QED
  BY <1>1, <1>2, <1>3, <1>4

\* Returning changes nothing the invariant is about.
LEMMA EndsKeepIInv ==
  ASSUME IInv, ChainEnds \/ Finish
  PROVE  IInv'
<1> USE DEF IInv, ChainEnds, Finish, Returns, fileVars, loopVars
<1>1. TypeOK'
  BY DEF TypeOK
<1>2. Chain'
  BY DEF Chain
<1>3. Progress'
  BY DEF Progress
<1>4. Streams'
  BY DEF Streams, PaddedAtEnd
<1> QED
  BY <1>1, <1>2, <1>3, <1>4

\* A header that cannot be read ends the call.
LEMMA UnreadableKeepsIInv ==
  ASSUME IInv, HeaderUnreadable
  PROVE  IInv'
<1> USE DEF IInv, HeaderUnreadable, Returns, loopVars
<1>1. /\ disk' \in [Blocks -> Headers \cup {Unread, Missing}]
      /\ \A b \in Blocks : disk[b] \in Headers => disk'[b] = disk[b]
  BY LoadKeeps DEF TypeOK
<1>2. TypeOK'
  BY <1>1 DEF TypeOK
<1>3. Chain'
  BY <1>1, ChainStays
<1>4. Progress'
  BY DEF Progress
<1>5. Streams'
  BY DEF Streams, PaddedAtEnd
<1> QED
  BY <1>2, <1>3, <1>4, <1>5

\* So does one that does not match.
LEMMA WrongKeepsIInv ==
  ASSUME IInv, HeaderWrong
  PROVE  IInv'
<1> USE DEF IInv, HeaderWrong, Returns, loopVars
<1>1. /\ disk' \in [Blocks -> Headers \cup {Unread, Missing}]
      /\ \A b \in Blocks : disk[b] \in Headers => disk'[b] = disk[b]
  BY LoadKeeps DEF TypeOK
<1>2. TypeOK'
  BY <1>1 DEF TypeOK
<1>3. Chain'
  BY <1>1, ChainStays
<1>4. Progress'
  BY DEF Progress
<1>5. Streams'
  BY DEF Streams, PaddedAtEnd
<1> QED
  BY <1>2, <1>3, <1>4, <1>5

\* A block adds one link to the chain and one to the chunk.
LEMMA ReadBlockKeepsIInv ==
  ASSUME IInv, ReadBlock
  PROVE  IInv'
<1> USE DEF IInv, ReadBlock, ConfigureNext, HeaderMatches
<1>1. /\ disk' \in [Blocks -> Headers \cup {Unread, Missing}]
      /\ \A b \in Blocks : disk[b] \in Headers => disk'[b] = disk[b]
  BY LoadKeeps DEF TypeOK
<1>2. disk'[block] \in Headers
  BY <1>1, IndexAssumption DEF Load, TypeOK
<1>3. /\ output \in Seq(Blocks) /\ output' \in Seq(Blocks)
      /\ Len(output') = Len(output) + 1
      /\ output'[Len(output) + 1] = block
      /\ \A n \in 1 .. Len(output) : output'[n] = output[n]
  BY DEF TypeOK
<1>4. remaining \in Nat /\ kBlockSize \in Nat /\ kBlockSize <= remaining
  BY IndexAssumption DEF TypeOK, kBlockSize
<1>5. /\ disk'[block].next \in 0 .. BlockCount + 1
      /\ disk'[block].chunk \in 0 .. ChunkValues - 1
  BY <1>2 DEF Headers
<1>6. TypeOK'
  <2>1. chunk' \in 0 .. ChunkValues - 1
    <3>1. chunk \in Nat /\ ChunkValues \in Nat \ {0}
      BY IndexAssumption DEF TypeOK
    <3>2. chunk' = (chunk + 1) % ChunkValues
      OBVIOUS
    <3> QED
      BY ONLY <3>1, <3>2
  <2>2. remaining' \in 0 .. MaxSize
    BY <1>4, IndexAssumption DEF TypeOK
  <2>3. sound' \in BOOLEAN /\ padded' \in BOOLEAN
    OBVIOUS
  <2> QED
    BY <1>1, <1>3, <1>5, <2>1, <2>2, <2>3 DEF TypeOK
<1>7. Chain'
  <2>1. chunk = Len(output)
    BY IndexAssumption DEF Progress, TypeOK
  <2>2. ASSUME NEW n \in 1 .. Len(output)
        PROVE  /\ output'[n] = IF n = 1 THEN entry.first ELSE disk'[output'[n - 1]].next
               /\ disk'[output'[n]] \in Headers
               /\ disk'[output'[n]].archive = request.archive
               /\ disk'[output'[n]].chunk = n - 1
    <3>1. disk'[output[n]] = disk[output[n]]
      BY <1>1, <1>3 DEF Chain
    <3>2. n # 1 => n - 1 \in 1 .. Len(output)
      BY <1>3
    <3>3. n # 1 => disk'[output[n - 1]] = disk[output[n - 1]]
      BY <1>1, <1>3, <3>2 DEF Chain
    <3> QED
      BY <1>3, <3>1, <3>2, <3>3 DEF Chain
  <2>3. block = IF Len(output) = 0 THEN entry.first ELSE disk'[output[Len(output)]].next
    BY <1>1, <1>3 DEF Chain
  <2>4. /\ block = IF Len(output) + 1 = 1 THEN entry.first ELSE disk'[output'[Len(output)]].next
        /\ disk'[block].archive = request.archive
        /\ disk'[block].chunk = Len(output)
    BY <1>3, <2>1, <2>3
  <2> QED
    BY <1>2, <1>3, <2>2, <2>4 DEF Chain
<1>8. Progress'
  <2>1. remaining = entry.size - kBlockLength * Len(output) /\ chunk = Len(output)
    BY <1>4 DEF Progress
  <2>2. entry.size \in Nat /\ entry.size <= MaxSize
    BY IndexAssumption DEF TypeOK
  <2>3. kBlockLength * Len(output') = kBlockLength * Len(output) + kBlockLength
    BY <1>3, IndexAssumption
  <2>4. remaining' > 0 => remaining' = remaining - kBlockLength
    BY <1>4, IndexAssumption DEF kBlockSize
  <2>5. remaining' = 0 => remaining <= kBlockLength
    BY <1>4, IndexAssumption DEF kBlockSize
  <2>6. remaining' > 0 => chunk' = Len(output')
    <3> SUFFICES ASSUME remaining' > 0 PROVE chunk' = Len(output')
      OBVIOUS
    <3>1. kBlockLength * Len(output') < kBlockLength * ChunkValues
      <4> DEFINE before == kBlockLength * Len(output)
                 after == kBlockLength * Len(output')
                 all == kBlockLength * ChunkValues
      <4>1. before \in Int /\ after \in Int /\ all \in Int /\ entry.size <= all /\ kBlockLength \in Int
        BY <1>3, <2>2, IndexAssumption
      <4>2. remaining = entry.size - before /\ after = before + kBlockLength /\ remaining' = remaining - kBlockLength
        BY <2>1, <2>3, <2>4
      <4> HIDE DEF before, after, all
      <4>3. after < all
        BY <2>2, <4>1, <4>2
      <4> QED
        BY <4>3 DEF after, all
    <3>2. Len(output') < ChunkValues
      <4>1. ASSUME ChunkValues <= Len(output') PROVE FALSE
        <5>1. kBlockLength * ChunkValues <= kBlockLength * Len(output')
          <6>1. ChunkValues \in Nat /\ Len(output') \in Nat /\ kBlockLength \in Nat
            BY <1>3, IndexAssumption
          <6> QED
            BY <4>1, <6>1, TimesMonotone
        <5> DEFINE after == kBlockLength * Len(output')
                   all == kBlockLength * ChunkValues
        <5>2. after \in Int /\ all \in Int
          BY <1>3, IndexAssumption
        <5>3. after < all /\ all <= after
          BY <3>1, <5>1
        <5> HIDE DEF after, all
        <5> QED
          BY <5>2, <5>3
      <4> QED
        BY <1>3, <4>1, IndexAssumption
    <3>3. chunk' = (chunk + 1) % ChunkValues /\ ChunkValues \in Nat \ {0}
      BY IndexAssumption
    <3>4. chunk + 1 = Len(output') /\ Len(output') \in Nat
      BY <1>3, <2>1
    <3> QED
      BY ONLY <3>2, <3>3, <3>4
  <2>7. kBlockLength * Len(output) < entry.size
    BY <1>3, <1>4, <2>1, <2>2, IndexAssumption
  <2> QED
    BY <1>3, <1>4, <2>1, <2>2, <2>3, <2>4, <2>5, <2>6, <2>7, IndexAssumption DEF Progress
<1>9. Streams'
  <2>1. PICK short \in {FALSE, block = BlockCount} : sound' = ~short /\ padded' = short
    BY Zenon
  <2>2. padded' => ~sound' /\ block = BlockCount
    BY <2>1, Zenon
  <2>3. ~sound' => padded'
    BY <2>1, Zenon
  <2>4. output' # <<>> /\ output'[Len(output')] = block
    BY <1>3
  <2>5. padded' => ~sound' /\ PaddedAtEnd'
    BY <2>2, <2>4 DEF PaddedAtEnd
  <2>6. result = "none" /\ entry.first \in Blocks
    BY DEF Streams
  <2> QED
    BY <2>3, <2>5, <2>6 DEF Streams
<1> QED
  BY <1>6, <1>7, <1>8, <1>9

\* The invariant holds in every reachable state.
THEOREM AlwaysIInv == Spec => []IInv
<1>1. IInv /\ [Next]_vars => IInv'
  <2> SUFFICES ASSUME IInv, [Next]_vars PROVE IInv'
    OBVIOUS
  <2>1. ASSUME NEW i \in Indexes, NEW a \in Archives, GetArchiveData(i, a) PROVE IInv'
    BY <2>1, CallKeepsIInv
  <2>2. CASE ChainEnds \/ Finish
    BY <2>2, EndsKeepIInv
  <2>3. CASE HeaderUnreadable
    BY <2>3, UnreadableKeepsIInv
  <2>4. CASE HeaderWrong
    BY <2>4, WrongKeepsIInv
  <2>5. CASE ReadBlock
    BY <2>5, ReadBlockKeepsIInv
  <2>6. CASE UNCHANGED vars
    BY <2>6 DEF vars, fileVars, loopVars, IInv, TypeOK, Chain, Progress, Streams, PaddedAtEnd
  <2> QED
    BY <2>1, <2>2, <2>3, <2>4, <2>5, <2>6 DEF Next, Step
<1> QED
  BY InitEstablishesIInv, <1>1, PTL DEF Spec

-----------------------------------------------------------------------------
(* The properties *)

\* Type correctness: in particular remaining never wraps around.
THEOREM TypeCorrect == Spec => []TypeOK
<1>1. IInv => TypeOK
  BY DEF IInv
<1> QED
  BY AlwaysIInv, <1>1, PTL

\* GetArchiveData returns true only with the archive asked for, complete and
\* in order, whatever the files hold; only the end of it can be zeros that no
\* file held.
THEOREM AlwaysReturnsTheArchive == Spec => []ReturnsTheArchive
<1>1. IInv => ReturnsTheArchive
  <2>0. IInv => PaddedAtEnd
    BY DEF IInv, Streams, PaddedAtEnd
  <2> SUFFICES ASSUME IInv, result = "true"
               PROVE  IsArchive(output, request.archive, entry)
    BY <2>0 DEF ReturnsTheArchive
  <2>1. entry.size \in Nat /\ Len(output) \in Nat
    BY IndexAssumption DEF IInv, TypeOK
  <2>2. /\ entry.first \in Blocks
        /\ entry.size <= kBlockLength * Len(output)
        /\ Len(output) > 0 => kBlockLength * (Len(output) - 1) < entry.size
    BY DEF IInv, Streams, Progress
  <2>3. Len(output) = Chunks(entry.size)
    BY <2>1, <2>2, ChunksUnique
  <2> QED
    BY <2>2, <2>3 DEF IsArchive, IInv, Chain
<1> QED
  BY AlwaysIInv, <1>1, PTL

\* No call reads a block twice: its header would have to bear two numbers.
THEOREM NeverABlockTwice == Spec => []NoBlockTwice
<1>1. IInv => NoBlockTwice
  <2> SUFFICES ASSUME IInv, NEW m \in 1 .. Len(output), NEW n \in 1 .. Len(output),
                      output[m] = output[n]
               PROVE  m = n
    BY DEF NoBlockTwice
  <2>1. m - 1 = n - 1
    BY DEF IInv, Chain
  <2> QED
    BY <2>1 DEF IInv, TypeOK
<1> QED
  BY AlwaysIInv, <1>1, PTL

-----------------------------------------------------------------------------
(* An archive that is intact is returned *)

\* As long as something remains, the blocks of an intact archive e lead where
\* the output leads.
LEMMA IntactLeads ==
  ASSUME NEW headers, NEW e, e.size \in Nat, NEW read \in Seq(Blocks),
         Follows(read, Len(read), e.first, headers),
         kBlockLength * Len(read) < e.size,
         NEW blocks, Follows(blocks, Chunks(e.size), e.first, headers)
  PROVE  /\ Len(read) + 1 \in 1 .. Chunks(e.size)
         /\ blocks[Len(read) + 1] = Leads(read, e.first, headers)
<1>1. Len(read) \in Nat /\ Chunks(e.size) \in Nat
  BY ChunksHold
<1>2. Len(read) + 1 <= Chunks(e.size)
  <2>1. kBlockLength * ((Len(read) + 1) - 1) < e.size
    BY <1>1, IndexAssumption
  <2>2. Len(read) + 1 \in Nat
    BY <1>1
  <2> QED
    BY <2>1, <2>2, ChunksUnique
<1>3. \A n \in 1 .. Len(read) : read[n] = blocks[n]
  <2>1. Follows(blocks, Len(read), e.first, headers)
    BY <1>1, <1>2 DEF Follows
  <2> QED
    BY <1>1, <2>1, ChainsAgree
<1>4. CASE Len(read) = 0
  BY <1>1, <1>2, <1>4 DEF Follows, Leads
<1>5. CASE Len(read) # 0
  <2>1. blocks[Len(read) + 1] = headers[blocks[Len(read)]].next
    BY <1>1, <1>2, <1>5 DEF Follows
  <2> QED
    BY <1>1, <1>2, <1>3, <1>5, <2>1 DEF Leads
<1> QED
  BY <1>4, <1>5

\* The same of the state a step leads to.
LEMMA IntactGoesOn ==
  ASSUME IInv', remaining' > 0,
         NEW blocks \in [1 .. Chunks(entry'.size) -> Blocks],
         IsArchive(blocks, request.archive, entry)'
  PROVE  /\ block' \in Blocks
         /\ disk'[block'] \in Headers
         /\ disk'[block'].archive = request'.archive
         /\ disk'[block'].chunk = Len(output')
<1>1. /\ entry'.size \in Nat /\ output' \in Seq(Blocks)
      /\ Len(output') \in Nat /\ Chunks(entry'.size) \in Nat
  BY ChunksHold DEF IInv, TypeOK
<1>2. kBlockLength * Len(output') < entry'.size
  BY <1>1, IndexAssumption DEF IInv, Progress, TypeOK
<1>3. Len(blocks) = Chunks(entry'.size)
  BY DEF IsArchive
<1>4. /\ Len(output') + 1 \in 1 .. Chunks(entry'.size)
      /\ blocks[Len(output') + 1] = block'
  <2>1. /\ Follows(output', Len(output'), entry'.first, disk')
        /\ block' = Leads(output', entry'.first, disk')
    BY DEF IInv, Chain, Follows, Leads
  <2>2. Follows(blocks, Chunks(entry'.size), entry'.first, disk')
    BY <1>3 DEF IsArchive, Follows
  <2> QED
    BY <1>1, <1>2, <2>1, <2>2, IntactLeads
<1> QED
  BY <1>1, <1>3, <1>4 DEF IsArchive

\* An intact archive is never refused, unless the block it needs next was cut
\* short by the end of the file.
THEOREM IntactAlwaysReturned == Spec => []IntactIsReturned
<1>1. Init => IntactIsReturned
  BY DEF Init, IntactIsReturned
<1>2. IInv /\ IInv' /\ IntactIsReturned /\ [Next]_vars => IntactIsReturned'
  <2> SUFFICES ASSUME IInv, IInv', IntactIsReturned, [Next]_vars,
                      result' = "false", ~padded',
                      NEW blocks \in [1 .. Chunks(entry'.size) -> Blocks],
                      IsArchive(blocks, request.archive, entry)'
               PROVE  FALSE
    BY DEF IntactIsReturned
  <2>1. ASSUME NEW i \in Indexes, NEW a \in Archives, GetArchiveData(i, a) PROVE FALSE
    <3>1. entry'.first \in Blocks
      BY DEF IsArchive
    <3> QED
      BY <2>1, <3>1 DEF GetArchiveData, ReadEntry
  <2>2. CASE ChainEnds
    <3>1. remaining' > 0 /\ block' = 0
      BY <2>2 DEF ChainEnds, loopVars
    <3> QED
      BY <3>1, IntactGoesOn DEF Blocks
  <2>3. CASE HeaderUnreadable
    <3>1. pc = "reading" /\ remaining' > 0 /\ block' = block /\ ~padded
      BY <2>3 DEF HeaderUnreadable, loopVars
    <3>2. sound
      BY <3>1 DEF IInv, Streams
    <3>3. block \in Blocks => disk'[block] = Missing
      BY <2>3, <3>2 DEF HeaderUnreadable
    <3> QED
      BY <3>1, <3>3, IntactGoesOn, IndexAssumption
  <2>4. CASE HeaderWrong
    <3>1. /\ remaining' > 0 /\ remaining > 0 /\ block' = block
          /\ output' = output /\ request' = request
      BY <2>4 DEF HeaderWrong, loopVars
    <3>2. chunk = Len(output)
      BY <3>1 DEF IInv, Progress
    <3>3. HeaderMatches(disk'[block])
      BY <3>1, <3>2, IntactGoesOn DEF HeaderMatches
    <3> QED
      BY <2>4, <3>3 DEF HeaderWrong
  <2>5. CASE ReadBlock
    BY <2>5 DEF ReadBlock, IInv, Streams
  <2>6. CASE Finish
    BY <2>6 DEF Finish, Returns
  <2>7. CASE UNCHANGED vars
    BY <2>7 DEF vars, fileVars, loopVars, IntactIsReturned, IsArchive
  <2> QED
    BY <2>1, <2>2, <2>3, <2>4, <2>5, <2>6, <2>7 DEF Next, Step
<1> QED
  BY AlwaysIInv, <1>1, <1>2, PTL DEF Spec

-----------------------------------------------------------------------------
(* The table of an index *)

\* The first k entries of a table have their own field of a kind, where an id
\* that comes twice has that of its last entry.
Filled(what, k) ==
  \A i \in 1 .. k : (\A j \in i + 1 .. k : ids[j] # ids[i]) => archive_references[ids[i]][what] = <<what, i>>

Count == Len(table.deltas)
NameFields == IF table.named THEN Count ELSE 0

\* The array has a reference for every number up to the largest id, and no
\* field of it comes from beyond the end of the file.
References ==
  /\ Len(ids) = Count /\ DOMAIN archive_references = 0 .. largest_archive_id
  /\ \A id \in 0 .. largest_archive_id :
       /\ DOMAIN archive_references[id] = DOMAIN Blank
       /\ \A what \in DOMAIN Blank : archive_references[id][what][1] # "beyond"

NamesFilled == table.named => Filled("name", Count)
SumsFilled == ~table.whirlpooled => Filled("crc", Count)
RevisionsFilled == ~table.whirlpooled => Filled("revision", Count)

\* Where the reader is in each phase, and what is complete by then. Digests do
\* not move it, so nothing is said of what is read behind them.
PhaseInv ==
  /\ phase = "header" => ids = <<>> /\ archive_references = NoReferences
  /\ phase = "ids" => filled = 0 /\ Len(ids) <= Count /\ fields_read = HeaderFields + Len(ids)
  /\ phase = "name" =>
       /\ References /\ table.named /\ fields_read = HeaderFields + Count + filled
       /\ Filled("name", filled)
  /\ phase = "digest" =>
       /\ References /\ NamesFilled
       /\ table.whirlpooled /\ fields_read = HeaderFields + Count + NameFields
  /\ phase = "crc" =>
       /\ References /\ NamesFilled
       /\ fields_read = HeaderFields + Count + NameFields + filled
       /\ ~table.whirlpooled => Filled("crc", filled)
  /\ phase = "revision" =>
       /\ References /\ NamesFilled /\ SumsFilled
       /\ fields_read = HeaderFields + Count + NameFields + Count + filled
       /\ ~table.whirlpooled => Filled("revision", filled)
  /\ phase = "done" =>
       archive_references = NoReferences \/ (References /\ NamesFilled /\ SumsFilled /\ RevisionsFilled)

TableTypes ==
  /\ table.deltas \in Seq(Nat) /\ table.named \in BOOLEAN /\ table.whirlpooled \in BOOLEAN
  /\ held \in 0 .. HeaderFields + Count + Len(Written) /\ fields_read \in 0 .. held
  /\ ids \in Seq(0 .. kIdSpan - 1) /\ largest_archive_id \in 0 .. kIdSpan - 1
  /\ \A i \in 1 .. Len(ids) : ids[i] <= largest_archive_id
  /\ filled \in 0 .. Len(ids)

TableInv == TableTypes /\ PhaseInv

\* A sequence behind another: the elements of both, in their places.
LEMMA ConcatAt ==
  ASSUME NEW S, NEW s \in Seq(S), NEW t \in Seq(S)
  PROVE  /\ s \o t \in Seq(S) /\ Len(s \o t) = Len(s) + Len(t)
         /\ \A i \in 1 .. Len(s) : (s \o t)[i] = s[i]
         /\ \A i \in 1 .. Len(t) : (s \o t)[Len(s) + i] = t[i]
<1>1. Len(s) \in Nat /\ Len(t) \in Nat
  OBVIOUS
<1>2. s \o t \in Seq(S) /\ Len(s \o t) = Len(s) + Len(t)
  BY ConcatProperties
<1>3. \A i \in 1 .. Len(s) : (s \o t)[i] = s[i]
  <2> TAKE i \in 1 .. Len(s)
  <2>1. i \in 1 .. Len(s) + Len(t) /\ i <= Len(s)
    BY <1>1
  <2> QED
    BY <2>1, ConcatProperties
<1>4. \A i \in 1 .. Len(t) : (s \o t)[Len(s) + i] = t[i]
  <2> TAKE i \in 1 .. Len(t)
  <2>1. Len(s) + i \in 1 .. Len(s) + Len(t) /\ ~(Len(s) + i <= Len(s)) /\ Len(s) + i - Len(s) = i
    BY <1>1
  <2> QED
    BY <2>1, ConcatProperties
<1> QED
  BY <1>2, <1>3, <1>4

FieldNames == {"name", "digest", "crc", "revision"}

\* The fields of one kind, one entry after the other.
LEMMA EachIsASeq ==
  ASSUME Count \in Nat, NEW what \in FieldNames, NEW width \in Nat \ {0}
  PROVE  /\ Each(what, width) \in Seq(FieldNames \X Nat)
         /\ width = 1 => Len(Each(what, width)) = Count /\ \A n \in 1 .. Count : Each(what, width)[n] = <<what, n>>
<1> DEFINE n == Count * width
<1>1. n \in Nat
  OBVIOUS
<1>2. Each(what, width) = [i \in 1 .. n |-> <<what, (i + width - 1) \div width>>]
  BY DEF Each, Count
<1>3. \A i \in 1 .. n : (i + width - 1) \div width \in Nat
  OBVIOUS
<1>4. width = 1 => n = Count /\ \A i \in 1 .. n : (i + width - 1) \div width = i
  OBVIOUS
<1> HIDE DEF n
<1>5. \A i \in 1 .. n : <<what, (i + width - 1) \div width>> \in FieldNames \X Nat
  BY <1>3
<1> DEFINE f == Each(what, width)
<1>6. \A i \in 1 .. n : f[i] = <<what, (i + width - 1) \div width>> /\ f[i] \in FieldNames \X Nat
  BY <1>2, <1>5
<1>7. DOMAIN f = 1 .. n /\ f = [i \in 1 .. n |-> f[i]]
  BY <1>2
<1> HIDE DEF f
<1>8. f \in Seq(FieldNames \X Nat) /\ Len(f) = n
  BY <1>1, <1>6, <1>7
<1>9. width = 1 => Len(f) = Count /\ \A i \in 1 .. Count : f[i] = <<what, i>>
  BY <1>4, <1>6, <1>8
<1> QED
  BY <1>8, <1>9 DEF f

\* One field for each entry.
LEMMA EachOnce ==
  ASSUME Count \in Nat, NEW what \in FieldNames
  PROVE  /\ Each(what, 1) \in Seq(FieldNames \X Nat) /\ Len(Each(what, 1)) = Count
         /\ \A n \in 1 .. Count : Each(what, 1)[n] = <<what, n>>
<1>1. 1 \in Nat \ {0}
  OBVIOUS
<1> QED
  BY <1>1, EachIsASeq

\* What a table holds behind its ids, and where.
LEMMA WrittenFields ==
  ASSUME Count \in Nat, table.named \in BOOLEAN, table.whirlpooled \in BOOLEAN
  PROVE  /\ Written \in Seq(FieldNames \X Nat)
         /\ table.named => \A i \in 1 .. Count : Written[i] = <<"name", i>>
         /\ ~table.whirlpooled =>
              \A i \in 1 .. Count : /\ Written[NameFields + i] = <<"crc", i>>
                                    /\ Written[NameFields + Count + i] = <<"revision", i>>
<1> USE TableAssumption DEF TableAssumption
<1> DEFINE S == FieldNames \X Nat
           names == IF table.named THEN Each("name", 1) ELSE <<>>
           digests == IF table.whirlpooled THEN Each("digest", kDigestFields) ELSE <<>>
           crcs == Each("crc", 1)
           revisions == Each("revision", 1)
<1>0. \A what \in {"name", "digest", "crc", "revision"} : what \in FieldNames
  BY DEF FieldNames
<1>1. /\ names \in Seq(S) /\ Len(names) = NameFields
      /\ table.named => \A i \in 1 .. Count : names[i] = <<"name", i>>
  <2>1. CASE table.named
    <3>1. names = Each("name", 1) /\ NameFields = Count
      BY <2>1 DEF NameFields
    <3> QED
      BY <1>0, <3>1, EachOnce
  <2>2. CASE ~table.named
    BY <2>2 DEF NameFields
  <2> QED
    BY <2>1, <2>2
<1>2. digests \in Seq(S) /\ (~table.whirlpooled => Len(digests) = 0)
  <2>1. CASE table.whirlpooled
    <3>1. digests = Each("digest", kDigestFields) /\ kDigestFields \in Nat \ {0}
      BY <2>1
    <3> HIDE DEF digests
    <3> QED
      BY <1>0, <2>1, <3>1, EachIsASeq
  <2>2. CASE ~table.whirlpooled
    BY <2>2
  <2> QED
    BY <2>1, <2>2
<1>3. crcs \in Seq(S) /\ Len(crcs) = Count /\ \A i \in 1 .. Count : crcs[i] = <<"crc", i>>
  BY <1>0, EachOnce
<1>4. revisions \in Seq(S) /\ Len(revisions) = Count /\ \A i \in 1 .. Count : revisions[i] = <<"revision", i>>
  BY <1>0, EachOnce
<1>5. Written = names \o digests \o crcs \o revisions
  BY DEF Written
<1> HIDE DEF names, digests, crcs, revisions, S
<1>6. Len(digests) \in Nat /\ NameFields \in Nat
  BY <1>2 DEF NameFields
<1> DEFINE two == names \o digests
           three == two \o crcs
<1>7. /\ two \in Seq(S) /\ Len(two) = NameFields + Len(digests)
      /\ \A i \in 1 .. NameFields : two[i] = names[i]
  BY <1>1, <1>2, ConcatAt
<1> HIDE DEF two
<1>8. /\ three \in Seq(S) /\ Len(three) = NameFields + Len(digests) + Count
      /\ \A i \in 1 .. Len(two) : three[i] = two[i]
      /\ \A i \in 1 .. Count : three[Len(two) + i] = crcs[i]
  BY <1>3, <1>7, ConcatAt
<1> HIDE DEF three
<1>9. /\ Written \in Seq(S)
      /\ \A i \in 1 .. Len(three) : Written[i] = three[i]
      /\ \A i \in 1 .. Count : Written[Len(three) + i] = revisions[i]
  BY <1>4, <1>5, <1>8, ConcatAt DEF three, two
<1>10. ASSUME table.named, NEW i \in 1 .. Count PROVE Written[i] = <<"name", i>>
  <2>1. NameFields = Count
    BY <1>10 DEF NameFields
  <2>2. i \in 1 .. NameFields /\ i \in 1 .. Len(two) /\ i \in 1 .. Len(three)
    BY <1>6, <1>7, <1>8, <2>1
  <2>3. Written[i] = names[i]
    BY <1>7, <1>8, <1>9, <2>2
  <2> QED
    BY <1>1, <1>10, <2>3
<1>11. ASSUME ~table.whirlpooled, NEW i \in 1 .. Count
       PROVE  Written[NameFields + i] = <<"crc", i>> /\ Written[NameFields + Count + i] = <<"revision", i>>
  <2>1. Len(two) = NameFields /\ Len(three) = NameFields + Count
    BY <1>2, <1>6, <1>7, <1>8, <1>11
  <2>2. NameFields + i \in 1 .. Len(three)
    BY <1>6, <2>1
  <2>3. Written[NameFields + i] = three[NameFields + i] /\ three[NameFields + i] = crcs[i]
    BY <1>8, <1>9, <2>1, <2>2
  <2>4. Written[NameFields + Count + i] = revisions[i]
    BY <1>9, <2>1
  <2> QED
    BY <1>3, <1>4, <2>3, <2>4
<1> QED
  BY <1>9, <1>10, <1>11 DEF S

\* A field that is there is one of those that were written.
LEMMA FieldIsWritten ==
  ASSUME TableTypes, Len(ids) = Count, NEW n \in Nat \ {0}, HeaderFields + Count + n <= held
  PROVE  /\ Field(HeaderFields + Count + n) = Written[n] /\ n \in 1 .. Len(Written)
         /\ Written[n][1] # "beyond"
<1>1. Count \in Nat /\ HeaderFields \in Nat /\ held \in 0 .. HeaderFields + Count + Len(Written)
  BY DEF TableTypes, Count, HeaderFields
<1>2. Written \in Seq(FieldNames \X Nat)
  BY <1>1, WrittenFields DEF TableTypes
<1>3. n \in 1 .. Len(Written)
  <2>1. Len(Written) \in Nat
    BY <1>2
  <2> QED
    BY <1>1, <2>1
<1>4. Written[n] \in FieldNames \X Nat
  BY <1>2, <1>3
<1>5. Written[n][1] # "beyond"
  BY <1>4 DEF FieldNames
<1> DEFINE p == HeaderFields + Count + n
<1>6. p - HeaderFields - Len(ids) = n /\ p <= held
  BY <1>1
<1> HIDE DEF p
<1>7. Field(p) = Written[n]
  BY <1>6 DEF Field
<1> QED
  BY <1>3, <1>5, <1>7 DEF p

\* The phase behind the one at a place of the list.
LEMMA AfterPlace ==
  ASSUME NEW i \in DOMAIN Phases, \A j \in DOMAIN Phases : Phases[j] = Phases[i] => j = i
  PROVE  After(Phases[i]) = Phases[i + 1]
<1> DEFINE c == CHOOSE j \in DOMAIN Phases : Phases[j] = Phases[i]
<1>1. c \in DOMAIN Phases /\ Phases[c] = Phases[i]
  OBVIOUS
<1>2. c = i
  BY <1>1
<1> QED
  BY <1>2 DEF After

\* The phases in the order they are gone through.
LEMMA PhasesInOrder ==
  ASSUME table.named \in BOOLEAN, table.whirlpooled \in BOOLEAN
  PROVE  /\ Phases[1] = IF table.named THEN "name" ELSE IF table.whirlpooled THEN "digest" ELSE "crc"
         /\ table.named => After("name") = IF table.whirlpooled THEN "digest" ELSE "crc"
         /\ table.whirlpooled => After("digest") = "crc"
         /\ After("crc") = "revision" /\ After("revision") = "done"
<1> DEFINE S == FieldNames \cup {"done"}
           names == IF table.named THEN <<"name">> ELSE <<>>
           digests == IF table.whirlpooled THEN <<"digest">> ELSE <<>>
           rest == <<"crc", "revision", "done">>
           n == Len(names)
           d == Len(digests)
<1>1. /\ names \in Seq(S)
      /\ table.named => n = 1 /\ names[1] = "name"
      /\ ~table.named => n = 0
  <2>1. CASE table.named
    <3>1. names = <<"name">>
      BY <2>1
    <3> HIDE DEF names
    <3>2. "name" \in S
      BY DEF FieldNames
    <3> HIDE DEF S
    <3> QED
      BY <2>1, <3>1, <3>2
  <2>2. CASE ~table.named
    BY <2>2
  <2> QED
    BY <2>1, <2>2
<1>2. /\ digests \in Seq(S)
      /\ table.whirlpooled => d = 1 /\ digests[1] = "digest"
      /\ ~table.whirlpooled => d = 0
  <2>1. CASE table.whirlpooled
    <3>1. digests = <<"digest">>
      BY <2>1
    <3> HIDE DEF digests
    <3>2. "digest" \in S
      BY DEF FieldNames
    <3> HIDE DEF S
    <3> QED
      BY <2>1, <3>1, <3>2
  <2>2. CASE ~table.whirlpooled
    BY <2>2
  <2> QED
    BY <2>1, <2>2
<1>3. rest \in Seq(S) /\ Len(rest) = 3 /\ rest[1] = "crc" /\ rest[2] = "revision" /\ rest[3] = "done"
  BY DEF FieldNames
<1> DEFINE two == names \o digests
<1>4. Phases = two \o rest
  BY DEF Phases
<1> HIDE DEF names, digests, rest, S
<1>5. /\ two \in Seq(S) /\ Len(two) = n + d
      /\ \A i \in 1 .. n : two[i] = names[i]
      /\ \A i \in 1 .. d : two[n + i] = digests[i]
  BY <1>1, <1>2, ConcatAt
<1> HIDE DEF two
<1>6. /\ Phases \in Seq(S) /\ Len(Phases) = Len(two) + 3
      /\ \A i \in 1 .. Len(two) : Phases[i] = two[i]
      /\ \A i \in 1 .. 3 : Phases[Len(two) + i] = rest[i]
  <2>1. two \in Seq(S) /\ rest \in Seq(S)
    BY <1>3, <1>5
  <2>2. /\ two \o rest \in Seq(S) /\ Len(two \o rest) = Len(two) + Len(rest)
        /\ \A i \in 1 .. Len(two) : (two \o rest)[i] = two[i]
        /\ \A i \in 1 .. Len(rest) : (two \o rest)[Len(two) + i] = rest[i]
    BY <2>1, ConcatAt
  <2>3. Len(rest) = 3
    BY <1>3
  <2> QED
    BY <1>4, <2>1, <2>2, <2>3
<1> HIDE DEF n, d
<1>7. CASE table.named /\ table.whirlpooled
  <2>1. n = 1 /\ d = 1 /\ Len(two) = 2
    BY <1>1, <1>2, <1>5, <1>7
  <2>2. two[1] = "name" /\ two[2] = "digest"
    BY <1>1, <1>2, <1>5, <1>7, <2>1
  <2>3. /\ DOMAIN Phases = 1 .. 5 /\ Phases[1] = "name" /\ Phases[2] = "digest"
        /\ Phases[3] = "crc" /\ Phases[4] = "revision" /\ Phases[5] = "done"
    BY <1>3, <1>6, <2>1, <2>2
  <2>4. /\ After(Phases[1]) = Phases[1 + 1] /\ After(Phases[2]) = Phases[2 + 1]
        /\ After(Phases[3]) = Phases[3 + 1] /\ After(Phases[4]) = Phases[4 + 1]
    BY <2>3, AfterPlace
  <2> QED
    BY <1>7, <2>3, <2>4
<1>8. CASE table.named /\ ~table.whirlpooled
  <2>1. n = 1 /\ d = 0 /\ Len(two) = 1
    BY <1>1, <1>2, <1>5, <1>8
  <2>2. two[1] = "name"
    BY <1>1, <1>5, <1>8, <2>1
  <2>3. /\ DOMAIN Phases = 1 .. 4 /\ Phases[1] = "name"
        /\ Phases[2] = "crc" /\ Phases[3] = "revision" /\ Phases[4] = "done"
    BY <1>3, <1>6, <2>1, <2>2
  <2>4. /\ After(Phases[1]) = Phases[1 + 1] /\ After(Phases[2]) = Phases[2 + 1]
        /\ After(Phases[3]) = Phases[3 + 1]
    BY <2>3, AfterPlace
  <2> QED
    BY <1>8, <2>3, <2>4
<1>9. CASE ~table.named /\ table.whirlpooled
  <2>1. n = 0 /\ d = 1 /\ Len(two) = 1
    BY <1>1, <1>2, <1>5, <1>9
  <2>2. two[1] = "digest"
    BY <1>2, <1>5, <1>9, <2>1
  <2>3. /\ DOMAIN Phases = 1 .. 4 /\ Phases[1] = "digest"
        /\ Phases[2] = "crc" /\ Phases[3] = "revision" /\ Phases[4] = "done"
    BY <1>3, <1>6, <2>1, <2>2
  <2>4. /\ After(Phases[1]) = Phases[1 + 1] /\ After(Phases[2]) = Phases[2 + 1]
        /\ After(Phases[3]) = Phases[3 + 1]
    BY <2>3, AfterPlace
  <2> QED
    BY <1>9, <2>3, <2>4
<1>10. CASE ~table.named /\ ~table.whirlpooled
  <2>1. n = 0 /\ d = 0 /\ Len(two) = 0
    BY <1>1, <1>2, <1>5, <1>10
  <2>2. /\ DOMAIN Phases = 1 .. 3
        /\ Phases[1] = "crc" /\ Phases[2] = "revision" /\ Phases[3] = "done"
    BY <1>3, <1>6, <2>1
  <2>3. After(Phases[1]) = Phases[1 + 1] /\ After(Phases[2]) = Phases[2 + 1]
    BY <2>2, AfterPlace
  <2> QED
    BY <1>10, <2>2, <2>3
<1> QED
  BY <1>7, <1>8, <1>9, <1>10

\* The ids that have been read have a place in the array.
LEMMA IdsAreSmall ==
  ASSUME TableTypes
  PROVE  /\ \A i \in 1 .. Len(ids) : ids[i] \in 0 .. largest_archive_id
         /\ LastId \in Nat
<1> USE TableAssumption DEF TableAssumption
<1>1. ids \in Seq(0 .. kIdSpan - 1) /\ Len(ids) \in Nat /\ largest_archive_id \in Nat
  BY DEF TableTypes
<1>2. \A i \in 1 .. Len(ids) : ids[i] \in 0 .. kIdSpan - 1
  BY <1>1, ElementOfSeq
<1>3. \A i \in 1 .. Len(ids) : ids[i] <= largest_archive_id
  BY DEF TableTypes
<1>4. \A i \in 1 .. Len(ids) : ids[i] \in 0 .. largest_archive_id
  BY <1>1, <1>2, <1>3
<1>5. ids # <<>> => Len(ids) \in 1 .. Len(ids)
  BY <1>1
<1>6. LastId \in Nat
  BY <1>1, <1>4, <1>5 DEF LastId
<1> QED
  BY <1>4, <1>6

\* A field goes to the reference of its entry's id and nowhere else.
LEMMA SetFills ==
  ASSUME TableTypes, References, filled < Len(ids), NEW what \in FieldNames,
         NEW field, field[1] # "beyond", Set(what, field)
  PROVE  /\ References' /\ filled' = filled + 1 /\ filled' \in 0 .. Len(ids')
         /\ \A other \in FieldNames : \A k \in 0 .. Len(ids) :
              other # what /\ Filled(other, k) => Filled(other, k)'
         /\ Filled(what, filled) /\ field = <<what, filled + 1>> => Filled(what, filled)'
<1> DEFINE k == filled + 1
           n == Len(ids)
           refs == archive_references
<1>1. /\ refs' = [refs EXCEPT ![ids[k]] = [w \in DOMAIN Blank |-> IF w = what THEN field ELSE @[w]]]
      /\ filled' = k /\ UNCHANGED <<table, held, ids, largest_archive_id, phase>>
  BY DEF Set
<1>2. n \in Nat /\ filled \in 0 .. n /\ k \in 1 .. n
  BY DEF TableTypes
<1>3. ids[k] \in 0 .. largest_archive_id /\ \A i \in 1 .. n : ids[i] \in 0 .. largest_archive_id
  BY <1>2, IdsAreSmall DEF n
<1>4. DOMAIN Blank = FieldNames
  BY DEF Blank, FieldNames
<1>5. /\ n = Count /\ DOMAIN refs = 0 .. largest_archive_id
      /\ \A id \in 0 .. largest_archive_id :
           /\ DOMAIN refs[id] = FieldNames
           /\ \A w \in FieldNames : refs[id][w][1] # "beyond"
  BY <1>4 DEF References
<1> HIDE DEF refs, n, k
<1>6. /\ DOMAIN refs' = DOMAIN refs
      /\ refs'[ids[k]] = [w \in FieldNames |-> IF w = what THEN field ELSE refs[ids[k]][w]]
      /\ \A id \in DOMAIN refs : id # ids[k] => refs'[id] = refs[id]
  BY <1>1, <1>3, <1>4, <1>5
<1>7. \A id \in DOMAIN refs, w \in FieldNames :
        refs'[id][w] = IF id = ids[k] /\ w = what THEN field ELSE refs[id][w]
  BY <1>6
<1>8. References'
  <2>1. \A id \in DOMAIN refs : DOMAIN refs'[id] = FieldNames
    BY <1>5, <1>6
  <2>2. \A id \in DOMAIN refs : \A w \in FieldNames : refs'[id][w][1] # "beyond"
    BY <1>5, <1>7
  <2>3. n' = Count' /\ largest_archive_id' = largest_archive_id
    BY <1>1, <1>5 DEF n, Count
  <2> QED
    BY <1>4, <1>5, <1>6, <2>1, <2>2, <2>3 DEF References, n, refs
<1>9. ASSUME NEW other \in FieldNames, NEW m \in 0 .. n, other # what, Filled(other, m)
      PROVE  Filled(other, m)'
  <2> SUFFICES ASSUME NEW i \in 1 .. m, \A j \in i + 1 .. m : ids[j] # ids[i]
               PROVE  refs'[ids[i]][other] = <<other, i>>
    BY <1>1 DEF Filled, refs
  <2>1. refs[ids[i]][other] = <<other, i>>
    BY <1>9 DEF Filled, refs
  <2>2. ids[i] \in DOMAIN refs
    BY <1>2, <1>3, <1>5
  <2> QED
    BY <1>7, <1>9, <2>1, <2>2
<1>10. ASSUME Filled(what, filled), field = <<what, k>> PROVE Filled(what, filled)'
  <2> SUFFICES ASSUME NEW i \in 1 .. k, \A j \in i + 1 .. k : ids[j] # ids[i]
               PROVE  refs'[ids[i]][what] = <<what, i>>
    BY <1>1 DEF Filled, refs
  <2>1. ids[i] \in DOMAIN refs
    BY <1>2, <1>3, <1>5
  <2>2. CASE i = k
    BY <1>7, <1>10, <2>1, <2>2
  <2>3. CASE i # k
    <3>1. i \in 1 .. filled /\ k \in i + 1 .. k
      BY <1>2, <2>3 DEF k
    <3>2. \A j \in i + 1 .. filled : j \in i + 1 .. k
      BY <1>2, <3>1 DEF k
    <3>3. refs[ids[i]][what] = <<what, i>>
      BY <1>10, <3>1, <3>2 DEF Filled, refs
    <3>4. ids[i] # ids[k]
      BY <3>1
    <3> QED
      BY <1>7, <2>1, <3>3, <3>4
  <2> QED
    BY <2>2, <2>3
<1>11. filled' = filled + 1 /\ filled' \in 0 .. Len(ids')
  BY <1>1, <1>2 DEF k, n
<1> QED
  BY <1>8, <1>9, <1>10, <1>11 DEF n, k

\* Each step of reading a table keeps what is known of it.
LEMMA TableStep == TableInv /\ [TableNext]_tableVars => TableInv'
<1> SUFFICES ASSUME TableInv, [TableNext]_tableVars PROVE TableInv'
  OBVIOUS
<1> USE TableAssumption DEF TableAssumption
<1>0. /\ Count \in Nat /\ Len(ids) \in Nat /\ NameFields \in Nat /\ HeaderFields \in Nat
      /\ held \in Nat /\ fields_read \in 0 .. held /\ filled \in 0 .. Len(ids)
  <2>1. Count \in Nat /\ Len(ids) \in Nat
    BY DEF TableInv, TableTypes, Count
  <2>2. Written \in Seq(FieldNames \X Nat)
    BY <2>1, WrittenFields DEF TableInv, TableTypes
  <2>3. Len(Written) \in Nat
    BY <2>2
  <2> QED
    BY <2>1, <2>3 DEF TableInv, TableTypes, NameFields, HeaderFields
<1>1. ASSUME UNCHANGED table
      PROVE  Count' = Count /\ NameFields' = NameFields /\ Written' = Written /\ Phases' = Phases
  BY <1>1 DEF Count, NameFields, Written, Each, Phases
<1>2. ASSUME UNCHANGED <<table, held, fields_read, ids, largest_archive_id, filled>> PROVE TableTypes'
  BY <1>1, <1>2 DEF TableInv, TableTypes
<1>3. CASE Refuse
  BY <1>2, <1>3 DEF Refuse, PhaseInv, TableInv
<1>4. CASE ReadHeader /\ ~Refuse
  <2>1. CASE phase' = "crashed" /\ UNCHANGED <<table, held, fields_read, ids, largest_archive_id, filled, archive_references>>
    BY <1>2, <2>1 DEF PhaseInv, TableInv
  <2>2. CASE ~(phase' = "crashed" /\ UNCHANGED <<table, held, fields_read, ids, largest_archive_id, filled, archive_references>>)
    <3>1. /\ phase = "header" /\ fields_read' = HeaderFields /\ phase' = "ids" /\ ~(held < HeaderFields)
          /\ UNCHANGED <<table, held, ids, largest_archive_id, filled, archive_references>>
      BY <1>4, <2>2 DEF ReadHeader
    <3>2. ids = <<>>
      BY <3>1 DEF TableInv, PhaseInv
    <3>3. Len(ids) = 0 /\ filled = 0
      BY <1>0, <3>2
    <3>4. fields_read' \in 0 .. held'
      BY <1>0, <3>1
    <3>5. TableTypes'
      BY <1>1, <3>1, <3>4 DEF TableInv, TableTypes
    <3>6. Len(ids') <= Count' /\ fields_read' = HeaderFields + Len(ids') /\ filled' = 0
      BY <1>0, <1>1, <3>1, <3>3
    <3> QED
      BY <3>1, <3>5, <3>6 DEF TableInv, PhaseInv
  <2> QED
    BY <2>1, <2>2
<1>5. CASE ReadId /\ ~Refuse
  <2> DEFINE id == (LastId + table.deltas[Len(ids) + 1]) % kIdSpan
  <2>1. /\ phase = "ids" /\ Len(ids) < Count /\ fields_read + 1 <= held /\ fields_read' = fields_read + 1
        /\ ids' = Append(ids, id) /\ largest_archive_id' = Larger(id)
        /\ UNCHANGED <<table, held, filled, archive_references, phase>>
    BY <1>5 DEF ReadId, Take, Count
  <2>2. id \in 0 .. kIdSpan - 1
    <3>1. table.deltas[Len(ids) + 1] \in Nat
      <4>1. table.deltas \in Seq(Nat)
        BY DEF TableInv, TableTypes
      <4>2. Len(ids) + 1 \in 1 .. Len(table.deltas)
        BY <1>0, <2>1 DEF Count
      <4> QED
        BY <4>1, <4>2, ElementOfSeq
    <3>2. LastId \in Nat
      BY IdsAreSmall DEF TableInv
    <3>3. \A m \in Nat : m % kIdSpan \in 0 .. kIdSpan - 1
      <4>1. kIdSpan \in Nat \ {0}
        OBVIOUS
      <4> QED
        BY ONLY <4>1
    <3>4. LastId + table.deltas[Len(ids) + 1] \in Nat
      BY <3>1, <3>2
    <3> QED
      BY <3>3, <3>4
  <2> HIDE DEF id
  <2>3. /\ ids' \in Seq(0 .. kIdSpan - 1) /\ Len(ids') = Len(ids) + 1
        /\ ids'[Len(ids) + 1] = id /\ \A i \in 1 .. Len(ids) : ids'[i] = ids[i]
    BY <2>1, <2>2 DEF TableInv, TableTypes
  <2>4. /\ largest_archive_id' \in 0 .. kIdSpan - 1
        /\ id <= largest_archive_id' /\ largest_archive_id <= largest_archive_id'
    BY <2>1, <2>2 DEF Larger, TableInv, TableTypes
  <2>5. \A i \in 1 .. Len(ids') : ids'[i] <= largest_archive_id'
    <3> SUFFICES ASSUME NEW i \in 1 .. Len(ids) + 1 PROVE ids'[i] <= largest_archive_id'
      BY <2>3
    <3>1. CASE i = Len(ids) + 1
      BY <2>3, <2>4, <3>1
    <3>2. CASE i \in 1 .. Len(ids)
      <4>0. ids[i] \in 0 .. largest_archive_id
        BY <3>2, IdsAreSmall DEF TableInv
      <4>1. ids'[i] = ids[i] /\ ids[i] <= largest_archive_id /\ ids[i] \in Int /\ largest_archive_id \in Int /\ largest_archive_id' \in Int
        BY <2>3, <2>4, <3>2, <4>0 DEF TableInv, TableTypes
      <4> QED
        BY <2>4, <4>1
    <3> QED
      BY <1>0, <3>1, <3>2
  <2>6. fields_read' \in 0 .. held' /\ filled' \in 0 .. Len(ids')
    BY <1>0, <2>1, <2>3
  <2>7. TableTypes'
    BY <1>1, <2>1, <2>3, <2>4, <2>5, <2>6 DEF TableInv, TableTypes
  <2>8. filled = 0 /\ fields_read = HeaderFields + Len(ids)
    BY <2>1 DEF TableInv, PhaseInv
  <2>9. Len(ids') <= Count' /\ fields_read' = HeaderFields + Len(ids') /\ filled' = 0
    BY <1>0, <1>1, <2>1, <2>3, <2>8
  <2> QED
    BY <2>1, <2>7, <2>9 DEF TableInv, PhaseInv
<1>6. CASE BuildArchiveReferences
  <2> DEFINE size == (largest_archive_id + 1) % kIdSpan
  <2>1. /\ phase = "ids" /\ Len(ids) = Count
        /\ archive_references' = [id \in 0 .. size - 1 |-> Blank]
        /\ phase' = IF size = 0 THEN "done" ELSE Phases[1]
        /\ UNCHANGED <<table, held, fields_read, ids, largest_archive_id, filled>>
    BY <1>6 DEF BuildArchiveReferences, Count
  <2>2. largest_archive_id \in 0 .. kIdSpan - 1
    BY DEF TableInv, TableTypes
  <2>3. size = 0 \/ size = largest_archive_id + 1
    BY <2>2
  <2>4. filled = 0 /\ fields_read = HeaderFields + Count
    BY <2>1 DEF TableInv, PhaseInv
  <2>5. TableTypes'
    BY <1>2, <2>1
  <2> HIDE DEF size
  <2>6. CASE size = 0
    <3>1. 0 .. size - 1 = {}
      BY <2>6
    <3>2. archive_references' = NoReferences /\ phase' = "done"
      BY <2>1, <2>6, <3>1 DEF NoReferences
    <3> QED
      BY <2>5, <3>2 DEF TableInv, PhaseInv
  <2>7. CASE size # 0
    <3>1. size = largest_archive_id + 1
      BY <2>3, <2>7
    <3>2. 0 .. size - 1 = 0 .. largest_archive_id
      BY <2>2, <3>1
    <3>3. \A what \in DOMAIN Blank : Blank[what][1] # "beyond"
      BY DEF Blank, Unset
    <3>4. References'
      BY <1>1, <2>1, <3>2, <3>3 DEF References
    <3>5. Filled("name", 0)' /\ Filled("crc", 0)' /\ Filled("revision", 0)'
      BY DEF Filled
    <3>6. phase' = IF table.named THEN "name" ELSE IF table.whirlpooled THEN "digest" ELSE "crc"
      BY <2>1, <2>7, PhasesInOrder DEF TableInv, TableTypes
    <3>7. filled' = 0 /\ table' = table /\ Count' = Count /\ NameFields' = NameFields /\ fields_read' = HeaderFields + Count
      BY <1>1, <2>1, <2>4
    <3>8. CASE table.named
      BY <1>0, <2>5, <3>4, <3>5, <3>6, <3>7, <3>8 DEF TableInv, PhaseInv
    <3>9. CASE ~table.named
      <4>1. NameFields = 0 /\ NamesFilled'
        BY <3>7, <3>9 DEF NameFields, NamesFilled
      <4>2. fields_read' = HeaderFields + Count + NameFields + 0 /\ fields_read' = HeaderFields + Count + NameFields
        BY <1>0, <3>7, <4>1
      <4> QED
        BY <2>5, <3>4, <3>5, <3>6, <3>7, <3>9, <4>1, <4>2 DEF TableInv, PhaseInv
    <3> QED
      BY <3>8, <3>9
  <2> QED
    BY <2>6, <2>7
<1>7. CASE CopyField /\ ~Refuse
  <2>1. /\ phase \in {"name", "crc", "revision"} /\ filled < Len(ids)
        /\ fields_read + 1 <= held /\ fields_read' = fields_read + 1
        /\ Set(phase, Field(fields_read + 1))
    BY <1>7 DEF CopyField, Copying, Take
  <2> DEFINE what == phase
             n == fields_read + 1 - HeaderFields - Count
  <2>2. /\ what \in FieldNames /\ UNCHANGED <<table, held, ids, largest_archive_id, phase>>
        /\ Set(what, Field(fields_read + 1))
    BY <2>1 DEF FieldNames, Set
  <2>3. /\ References
        /\ what = "name" => table.named /\ n = filled + 1 /\ Filled("name", filled)
        /\ what # "name" => NamesFilled
        /\ what = "crc" => n = NameFields + (filled + 1) /\ (~table.whirlpooled => Filled("crc", filled))
        /\ what = "revision" =>
             /\ n = NameFields + Count + (filled + 1) /\ SumsFilled
             /\ ~table.whirlpooled => Filled("revision", filled)
    BY <1>0, <2>1 DEF TableInv, PhaseInv
  <2>4. Len(ids) = Count
    BY <2>3 DEF References
  <2>5. n \in Nat \ {0} /\ fields_read + 1 = HeaderFields + Count + n
    BY <1>0, <2>1, <2>3
  <2> HIDE DEF n
  <2>6. Field(fields_read + 1) = Written[n] /\ Written[n][1] # "beyond"
    <3>1. HeaderFields + Count + n <= held
      BY <2>1, <2>5
    <3> QED
      BY <2>4, <2>5, <3>1, FieldIsWritten DEF TableInv
  <2>7. filled + 1 \in 1 .. Count
    BY <1>0, <2>1, <2>4
  <2>8. /\ what = "name" => Written[n] = <<"name", filled + 1>>
        /\ what = "crc" /\ ~table.whirlpooled => Written[n] = <<"crc", filled + 1>>
        /\ what = "revision" /\ ~table.whirlpooled => Written[n] = <<"revision", filled + 1>>
    BY <1>0, <2>3, <2>7, WrittenFields DEF TableInv, TableTypes
  <2>9. /\ References' /\ filled' = filled + 1 /\ filled' \in 0 .. Len(ids')
        /\ \A other \in FieldNames : \A k \in 0 .. Len(ids) :
             other # what /\ Filled(other, k) => Filled(other, k)'
        /\ Filled(what, filled) /\ Written[n] = <<what, filled + 1>> => Filled(what, filled)'
    BY <2>1, <2>2, <2>3, <2>6, SetFills DEF TableInv
  <2>10. TableTypes'
    <3>1. fields_read' \in 0 .. held'
      BY <1>0, <2>1, <2>2
    <3> QED
      BY <1>1, <2>2, <2>9, <3>1 DEF TableInv, TableTypes
  <2>11. Count \in 0 .. Len(ids) /\ Count' = Count /\ NameFields' = NameFields /\ fields_read' = fields_read + 1
    BY <1>0, <1>1, <2>1, <2>2, <2>4
  <2>12. CASE what = "name"
    <3>1. Written[n] = <<what, filled + 1>> /\ Filled(what, filled)
      BY <2>3, <2>8, <2>12
    <3>11. Filled(what, filled)'
      BY <2>9, <3>1
    <3>12. Filled("name", filled)'
      BY <2>2, <2>12, <3>11 DEF Filled
    <3>2. fields_read' = HeaderFields + Count + filled'
      <4>1. fields_read + 1 - HeaderFields - Count = filled + 1
        BY <2>3, <2>12 DEF n
      <4>2. fields_read' = fields_read + 1 /\ filled' = filled + 1
        BY <2>9, <2>11
      <4> QED
        BY <1>0, <4>1, <4>2
    <3> QED
      BY <2>2, <2>3, <2>9, <2>10, <2>11, <2>12, <3>12, <3>2 DEF TableInv, PhaseInv
  <2>13. CASE what # "name"
    <3>1. NamesFilled'
      BY <2>2, <2>3, <2>9, <2>11, <2>13 DEF NamesFilled, FieldNames
    <3>2. CASE what = "crc"
      <4>1. ~table.whirlpooled => Filled("crc", filled)'
        <5> SUFFICES ASSUME ~table.whirlpooled PROVE Filled("crc", filled)'
          OBVIOUS
        <5>1. Written[n] = <<what, filled + 1>> /\ Filled(what, filled)
          BY <2>3, <2>8, <3>2
        <5>2. Filled(what, filled)'
          BY <2>9, <5>1
        <5> QED
          BY <2>2, <3>2, <5>2 DEF Filled
      <4>2. fields_read' = HeaderFields + Count + NameFields + filled'
        <5>1. fields_read + 1 - HeaderFields - Count = NameFields + (filled + 1)
          BY <2>3, <3>2 DEF n
        <5>2. fields_read' = fields_read + 1 /\ filled' = filled + 1
          BY <2>9, <2>11
        <5> QED
          BY <1>0, <5>1, <5>2
      <4> QED
        BY <2>2, <2>9, <2>10, <2>11, <3>1, <3>2, <4>1, <4>2 DEF TableInv, PhaseInv
    <3>3. CASE what = "revision"
      <4>1. ~table.whirlpooled => Filled("revision", filled)'
        <5> SUFFICES ASSUME ~table.whirlpooled PROVE Filled("revision", filled)'
          OBVIOUS
        <5>1. Written[n] = <<what, filled + 1>> /\ Filled(what, filled)
          BY <2>3, <2>8, <3>3
        <5>2. Filled(what, filled)'
          BY <2>9, <5>1
        <5> QED
          BY <2>2, <3>3, <5>2 DEF Filled
      <4>2. fields_read' = HeaderFields + Count + NameFields + Count + filled'
        <5>1. fields_read + 1 - HeaderFields - Count = NameFields + Count + (filled + 1)
          BY <2>3, <3>3 DEF n
        <5>2. fields_read' = fields_read + 1 /\ filled' = filled + 1
          BY <2>9, <2>11
        <5> QED
          BY <1>0, <5>1, <5>2
      <4>3. SumsFilled'
        BY <2>2, <2>3, <2>9, <2>11, <3>3 DEF SumsFilled, FieldNames
      <4> QED
        BY <2>2, <2>9, <2>10, <2>11, <3>1, <3>3, <4>1, <4>2, <4>3 DEF TableInv, PhaseInv
    <3> QED
      BY <2>1, <2>13, <3>2, <3>3
  <2> QED
    BY <2>12, <2>13
<1>8. CASE CopyDigest /\ ~Refuse
  <2>1. /\ phase = "digest" /\ filled < Len(ids) /\ fields_read + kDigestFields <= held
        /\ Set("digest", Field(fields_read + 1)) /\ fields_read' = fields_read
    BY <1>8 DEF CopyDigest, Copying
  <2>2. UNCHANGED <<table, held, ids, largest_archive_id, phase>>
    BY <2>1 DEF Set
  <2>3. References /\ NamesFilled /\ table.whirlpooled /\ fields_read = HeaderFields + Count + NameFields
    BY <2>1 DEF TableInv, PhaseInv
  <2>4. Len(ids) = Count
    BY <2>3 DEF References
  <2> DEFINE n == NameFields + 1
  <2>5. n \in Nat \ {0} /\ fields_read + 1 = HeaderFields + Count + n /\ HeaderFields + Count + n <= held
    BY <1>0, <2>1, <2>3
  <2> HIDE DEF n
  <2>6. Field(fields_read + 1)[1] # "beyond"
    BY <2>4, <2>5, FieldIsWritten DEF TableInv
  <2>7. /\ References' /\ filled' \in 0 .. Len(ids')
        /\ \A other \in FieldNames : \A k \in 0 .. Len(ids) :
             other # "digest" /\ Filled(other, k) => Filled(other, k)'
    <3>1. "digest" \in FieldNames
      BY DEF FieldNames
    <3> QED
      BY <2>1, <2>3, <2>6, <3>1, SetFills DEF TableInv
  <2>8. TableTypes'
    BY <1>1, <2>1, <2>2, <2>7 DEF TableInv, TableTypes
  <2>9. Count \in 0 .. Len(ids) /\ Count' = Count /\ NameFields' = NameFields
    BY <1>0, <1>1, <2>2, <2>4
  <2>10. NamesFilled'
    BY <2>2, <2>3, <2>7, <2>9 DEF NamesFilled, FieldNames
  <2> QED
    BY <2>1, <2>2, <2>3, <2>7, <2>8, <2>9, <2>10 DEF TableInv, PhaseInv
<1>9. CASE NextPhase
  <2>1. /\ phase \in {"name", "digest", "crc", "revision"} /\ filled = Len(ids)
        /\ phase' = After(phase) /\ filled' = 0
        /\ UNCHANGED <<table, held, fields_read, ids, largest_archive_id, archive_references>>
    BY <1>9 DEF NextPhase
  <2>2. References /\ Len(ids) = Count
    BY <2>1 DEF TableInv, PhaseInv, References
  <2>3. References' /\ Count' = Count /\ NameFields' = NameFields
    BY <1>1, <2>1, <2>2 DEF References
  <2>4. TableTypes'
    BY <1>0, <1>1, <2>1 DEF TableInv, TableTypes
  <2>5. Filled("crc", 0)' /\ Filled("revision", 0)'
    BY DEF Filled
  <2>6. \A what \in FieldNames : Filled(what, Count) => Filled(what, Count)'
    BY <2>1, <2>3 DEF Filled
  <2>7. CASE phase = "name"
    <3>1. table.named /\ fields_read = HeaderFields + Count + Count /\ Filled("name", Count)
      BY <2>1, <2>2, <2>7 DEF TableInv, PhaseInv
    <3>2. NameFields = Count /\ NamesFilled'
      BY <2>1, <2>3, <2>6, <3>1 DEF NameFields, NamesFilled, FieldNames
    <3>3. phase' = IF table.whirlpooled THEN "digest" ELSE "crc"
      BY <2>1, <2>7, <3>1, PhasesInOrder DEF TableInv, TableTypes
    <3>4. fields_read' = HeaderFields + Count + NameFields /\ fields_read' = HeaderFields + Count + NameFields + filled'
      BY <1>0, <2>1, <3>1, <3>2
    <3> QED
      BY <2>1, <2>3, <2>4, <2>5, <3>2, <3>3, <3>4 DEF TableInv, PhaseInv
  <2>8. CASE phase = "digest"
    <3>1. table.whirlpooled /\ fields_read = HeaderFields + Count + NameFields /\ NamesFilled
      BY <2>8 DEF TableInv, PhaseInv
    <3>2. NamesFilled'
      BY <2>1, <2>3, <2>6, <3>1 DEF NamesFilled, FieldNames
    <3>3. phase' = "crc"
      BY <2>1, <2>8, <3>1, PhasesInOrder DEF TableInv, TableTypes
    <3>4. fields_read' = HeaderFields + Count + NameFields + filled'
      BY <1>0, <2>1, <3>1
    <3> QED
      BY <2>1, <2>3, <2>4, <2>5, <3>1, <3>2, <3>3, <3>4 DEF TableInv, PhaseInv
  <2>9. CASE phase = "crc"
    <3>1. /\ fields_read = HeaderFields + Count + NameFields + Count /\ NamesFilled
          /\ ~table.whirlpooled => Filled("crc", Count)
      BY <2>1, <2>2, <2>9 DEF TableInv, PhaseInv
    <3>2. NamesFilled' /\ SumsFilled'
      BY <2>1, <2>3, <2>6, <3>1 DEF NamesFilled, SumsFilled, FieldNames
    <3>3. phase' = "revision"
      BY <2>1, <2>9, PhasesInOrder DEF TableInv, TableTypes
    <3>4. fields_read' = HeaderFields + Count + NameFields + Count + filled'
      BY <1>0, <2>1, <3>1
    <3> QED
      BY <2>1, <2>3, <2>4, <2>5, <3>2, <3>3, <3>4 DEF TableInv, PhaseInv
  <2>10. CASE phase = "revision"
    <3>1. NamesFilled /\ SumsFilled /\ (~table.whirlpooled => Filled("revision", Count))
      BY <2>1, <2>2, <2>10 DEF TableInv, PhaseInv
    <3>2. NamesFilled' /\ SumsFilled' /\ RevisionsFilled'
      BY <2>1, <2>3, <2>6, <3>1 DEF NamesFilled, SumsFilled, RevisionsFilled, FieldNames
    <3>3. phase' = "done"
      BY <2>1, <2>10, PhasesInOrder DEF TableInv, TableTypes
    <3> QED
      BY <2>3, <2>4, <3>2, <3>3 DEF TableInv, PhaseInv
  <2> QED
    BY <2>1, <2>7, <2>8, <2>9, <2>10
<1>10. CASE UNCHANGED tableVars
  <2>1. UNCHANGED <<table, held, fields_read, ids, largest_archive_id, filled, archive_references, phase>>
    BY <1>10 DEF tableVars
  <2>2. TableTypes' /\ Count' = Count /\ NameFields' = NameFields
    BY <1>1, <1>2, <2>1
  <2>4. References' = References
    BY <2>1, <2>2 DEF References
  <2>5. filled \in Nat /\ Filled("name", filled)' = Filled("name", filled)
        /\ Filled("crc", filled)' = Filled("crc", filled) /\ Filled("revision", filled)' = Filled("revision", filled)
    BY <2>1 DEF Filled, TableInv, TableTypes
  <2>6. NamesFilled' = NamesFilled /\ SumsFilled' = SumsFilled /\ RevisionsFilled' = RevisionsFilled
    BY <2>1 DEF Filled, NamesFilled, SumsFilled, RevisionsFilled, Count
  <2>7. PhaseInv' = PhaseInv
    BY <2>1, <2>2, <2>4, <2>5, <2>6 DEF PhaseInv, HeaderFields
  <2> QED
    BY <2>2, <2>7 DEF TableInv
<1> QED
  BY <1>3, <1>4, <1>5, <1>6, <1>7, <1>8, <1>9, <1>10 DEF TableNext

\* The last entry with an id.
LEMMA LastWithIsLast ==
  ASSUME Len(ids) \in Nat, NEW id, \E i \in 1 .. Len(ids) : ids[i] = id
  PROVE  /\ LastWith(id) \in 1 .. Len(ids) /\ ids[LastWith(id)] = id
         /\ \A j \in LastWith(id) + 1 .. Len(ids) : ids[j] # id
<1> DEFINE n == Len(ids)
           S == {i \in 1 .. n : ids[i] = id}
           D == {n - i : i \in S}
<1>1. S # {} /\ \A i \in S : i \in 1 .. n /\ n - i \in Nat
  OBVIOUS
<1>2. D \in SUBSET Nat /\ D # {}
  BY <1>1
<1>3. PICK d \in D : \A e \in D : ~ (<<e, d>> \in OpToRel(<, Nat))
  BY <1>2, WFMin, NatLessThanWellFounded
<1>4. \A e \in D : ~(e < d)
  BY <1>2, <1>3 DEF OpToRel
<1>5. PICK last \in S : d = n - last
  BY <1>3
<1>6. \A i \in S : last >= i
  <2> TAKE i \in S
  <2>1. n - i \in D
    OBVIOUS
  <2>2. ~(n - i < n - last)
    BY <1>4, <1>5, <2>1
  <2> QED
    BY <1>1, <2>2
<1>7. Max(S) \in S /\ \A i \in S : Max(S) >= i
  BY <1>6 DEF Max
<1>8. LastWith(id) = Max(S)
  BY DEF LastWith
<1> DEFINE m == Max(S)
<1>9. m \in 1 .. n /\ ids[m] = id
  BY <1>7
<1>10. \A j \in m + 1 .. n : ids[j] # id
  <2> SUFFICES ASSUME NEW j \in m + 1 .. n, ids[j] = id PROVE FALSE
    OBVIOUS
  <2>1. j \in S /\ m >= j
    BY <1>7, <1>9
  <2> HIDE DEF m
  <2> QED
    BY <1>9, <2>1
<1> QED
  BY <1>8, <1>9, <1>10

\* Every field of a table goes to the reference it belongs to, which is there;
\* when the table is accepted each reference has its own: for any number of
\* entries, however their differences wrap, wherever the file is cut off.
THEOREM TablesAreRead == TableInit /\ [][TableNext]_tableVars => []TableIsRead
<1>1. TableInit => TableInv
  <2> SUFFICES ASSUME TableInit PROVE TableInv
    OBVIOUS
  <2> USE TableAssumption DEF TableAssumption
  <2>1. /\ table \in [protocol : Protocols, named : BOOLEAN, whirlpooled : BOOLEAN,
                      deltas : UNION {[1 .. n -> Deltas] : n \in 0 .. MaxIds}]
        /\ held \in 0 .. HeaderFields + Len(table.deltas) + Len(Written)
        /\ fields_read = 0 /\ ids = <<>> /\ largest_archive_id = 0 /\ filled = 0
        /\ archive_references = NoReferences /\ phase = "header"
    BY DEF TableInit
  <2>2. table.named \in BOOLEAN /\ table.whirlpooled \in BOOLEAN
    BY <2>1
  <2>3. PICK n \in 0 .. MaxIds : table.deltas \in [1 .. n -> Deltas]
    BY <2>1
  <2>4. \A i \in 1 .. n : table.deltas[i] \in Nat
    <3>1. \A d \in Deltas : d \in Nat
      BY DEF Deltas
    <3> QED
      BY <2>3, <3>1
  <2>5. table.deltas \in Seq(Nat)
    BY <2>3, <2>4
  <2>6. Count \in Nat
    BY <2>5 DEF Count
  <2>7. Written \in Seq(FieldNames \X Nat)
    BY <2>2, <2>6, WrittenFields
  <2>8. Len(Written) \in Nat /\ held \in 0 .. HeaderFields + Count + Len(Written)
    BY <2>1, <2>7 DEF Count
  <2>9. fields_read \in 0 .. held
    BY <2>1, <2>6, <2>8 DEF HeaderFields
  <2>10. /\ ids \in Seq(0 .. kIdSpan - 1) /\ Len(ids) = 0
         /\ largest_archive_id \in 0 .. kIdSpan - 1 /\ filled \in 0 .. 0
    BY <2>1
  <2>11. TableTypes
    BY <2>2, <2>5, <2>8, <2>9, <2>10 DEF TableTypes
  <2> QED
    BY <2>1, <2>11 DEF TableInv, PhaseInv
<1>2. TableInv => TableIsRead
  <2> SUFFICES ASSUME TableInv PROVE TableIsRead
    OBVIOUS
  <2>0. Len(ids) \in Nat /\ \A i \in 1 .. Len(ids) : ids[i] \in 0 .. largest_archive_id
    BY IdsAreSmall DEF TableInv, TableTypes
  <2>1. IdsHaveReferences
    BY <2>0 DEF TableInv, PhaseInv, References, IdsHaveReferences
  <2>2. ReferencesHaveTheirFields
    <3> SUFFICES ASSUME phase = "done", archive_references # NoReferences, NEW id \in ToSet(ids)
                 PROVE  /\ table.named => Own("name", id)
                        /\ ~table.whirlpooled => Own("crc", id) /\ Own("revision", id)
                        /\ \A what \in DOMAIN Blank : archive_references[id][what][1] # "beyond"
      BY DEF ReferencesHaveTheirFields
    <3>1. References /\ NamesFilled /\ SumsFilled /\ RevisionsFilled /\ Len(ids) = Count
      BY DEF TableInv, PhaseInv, References
    <3>2. \E i \in 1 .. Len(ids) : ids[i] = id
      BY <2>0 DEF ToSet, TableInv, TableTypes
    <3>3. /\ LastWith(id) \in 1 .. Len(ids) /\ ids[LastWith(id)] = id
          /\ \A j \in LastWith(id) + 1 .. Len(ids) : ids[j] # id
      BY <2>0, <3>2, LastWithIsLast
    <3>4. ASSUME NEW what \in FieldNames, Filled(what, Count) PROVE Own(what, id)
      <4> DEFINE l == LastWith(id)
      <4> HIDE DEF l
      <4>1. l \in 1 .. Count /\ ids[l] = id /\ \A j \in l + 1 .. Count : ids[j] # ids[l]
        BY <3>1, <3>3 DEF l
      <4>2. archive_references[ids[l]][what] = <<what, l>>
        BY <3>4, <4>1 DEF Filled
      <4> QED
        BY <4>1, <4>2 DEF Own, l
    <3>5. \A what \in DOMAIN Blank : archive_references[id][what][1] # "beyond"
      BY <2>0, <3>1, <3>2 DEF References
    <3> QED
      BY <3>1, <3>4, <3>5 DEF NamesFilled, SumsFilled, RevisionsFilled, FieldNames
  <2> QED
    BY <2>1, <2>2 DEF TableIsRead
<1> QED
  BY <1>1, <1>2, TableStep, PTL
=============================================================================
