---------------------------- MODULE Grab_proofs ----------------------------
(* What a call of GrabPacketHandler::Handle answers, for packets and       *)
(* archives of any size and any block length.                              *)
EXTENDS Grab, TLAPS

Bytes == Nat \cup {Header, Separator}

\* The requests, and how far the handler is with them.
PacketTyped ==
  /\ asked \in Seq(Requests) /\ handled \in 0 .. Len(asked)
  /\ pc \in {"loop", "copy", "returned"}
  /\ cache \in [IndexIds \X Archives -> Contents \cup {Unread, Absent, Short}]
  /\ stores \subseteq IndexIds

\* The archive being copied is the one the request names, and what has been
\* copied of it is cut as it should be.
Copying ==
  pc = "copy" =>
    /\ handled < Len(asked)
    /\ Current.priority \in {0, 1}
    /\ archive = ContentFor(Current)
    /\ IsUKeys(Current) \/ archive \in Contents
    /\ copied \in Nat
    /\ output \in Seq(Bytes)
    /\ IsCut(output, copied)

\* Replies answer requests that are done with.
RepliesTyped ==
  /\ replies \in Seq([number : Nat, bytes : Seq(Bytes)])
  /\ \A i \in 1 .. Len(replies) : replies[i].number \in 1 .. handled

\* A request that is done with had its reply or had none to get.
Answered ==
  \A n \in 1 .. handled :
    Silent(asked[n]) \/ \E i \in 1 .. Len(replies) : replies[i].number = n

\* The handler returns at the end of the packet, or at a request that ends it.
Returned == pc = "returned" => handled = Len(asked) \/ Stops(asked[handled + 1])

IInv ==
  /\ PacketTyped /\ Copying /\ RepliesTyped /\ RepliesInOrder /\ Answered /\ Returned
  /\ RepliesAreTheArchive

-----------------------------------------------------------------------------
(* Blocks *)

\* A number that fills a block begins the next, and its predecessor does not.
LEMMA BlockStep ==
  ASSUME NEW L \in Nat, L >= 1, NEW B \in Nat, B >= 2
  PROVE  /\ L \div B \in Nat /\ (L - 1) \div B \in Nat
         /\ L % B = 0 => /\ L \div B = (L - 1) \div B + 1
                         /\ (L + 1) \div B = L \div B
                         /\ (L + 1) % B # 0
         /\ L % B # 0 => L \div B = (L - 1) \div B
<1>1. L \div B \in Nat /\ (L - 1) \div B \in Nat
  OBVIOUS
<1>2. ASSUME L % B = 0 PROVE L \div B = (L - 1) \div B + 1
  BY <1>2
<1>3. ASSUME L % B = 0 PROVE (L + 1) \div B = L \div B
  BY <1>3
<1>4. ASSUME L % B = 0 PROVE (L + 1) % B # 0
  BY <1>4
<1>5. ASSUME L % B # 0 PROVE L \div B = (L - 1) \div B
  BY <1>5
<1> QED
  BY <1>1, <1>2, <1>3, <1>4, <1>5

\* Bytes behind bytes are bytes.
LEMMA Joined ==
  ASSUME NEW front \in Seq(Bytes), NEW back \in Seq(Bytes)
  PROVE  front \o back \in Seq(Bytes) /\ Len(front \o back) = Len(front) + Len(back)
  OBVIOUS

\* The header of a reply is cut as it should be: it is shorter than a block.
LEMMA HeaderIsCut ==
  ASSUME NEW bytes, bytes = [n \in 1 .. kHeaderLength |-> Header]
  PROVE  bytes \in Seq(Bytes) /\ IsCut(bytes, 0)
<1> DEFINE H == kHeaderLength
           B == kBlockLength
<1>1. H \in Nat /\ B \in Nat /\ 1 <= H /\ H < B
  BY GrabAssumption DEF GrabAssumption
<1>2. bytes \in Seq(Bytes) /\ Len(bytes) = H
  BY <1>1 DEF Bytes
<1>3. (H - 1) \div B = 0
  BY <1>1
<1>4. \A q \in 0 .. H - 1 : bytes[q + 1] = Header /\ q < H
  BY <1>1
<1> QED
  BY <1>1, <1>2, <1>3, <1>4 DEF IsCut

\* A byte more is copied behind a separator where a block begins, and the
\* whole stays cut.
LEMMA CutGrows ==
  ASSUME NEW bytes \in Seq(Bytes), NEW n \in Nat, IsCut(bytes, n), NEW more,
         more = IF Len(bytes) % kBlockLength = 0 THEN <<Separator, n>> ELSE <<n>>
  PROVE  bytes \o more \in Seq(Bytes) /\ IsCut(bytes \o more, n + 1)
<1> DEFINE L == Len(bytes)
           H == kHeaderLength
           B == kBlockLength
           longer == bytes \o more
<1>1. H \in Nat /\ B \in Nat /\ 1 <= H /\ H < B /\ L \in Nat /\ H <= L
  BY GrabAssumption DEF GrabAssumption, IsCut
<1>2. L = H + (L - 1) \div B + n
  BY DEF IsCut
<1>3. \A q \in 0 .. L - 1 :
        bytes[q + 1] = IF q < H THEN Header
                       ELSE IF q % B = 0 THEN Separator ELSE q - H - q \div B
  BY DEF IsCut
<1>4. /\ L \div B \in Nat /\ (L - 1) \div B \in Nat
      /\ L % B = 0 => /\ L \div B = (L - 1) \div B + 1
                      /\ (L + 1) \div B = L \div B
                      /\ (L + 1) % B # 0
      /\ L % B # 0 => L \div B = (L - 1) \div B
  <2>1. L \in Nat /\ L >= 1 /\ B \in Nat /\ B >= 2
    BY <1>1
  <2> HIDE DEF L, B
  <2> QED
    BY <2>1, BlockStep, Zenon
<1>5. CASE L % B = 0
  <2>1. more = <<Separator, n>>
    BY <1>5
  <2>2. longer \in Seq(Bytes) /\ Len(longer) = L + 2
    <3>1. <<Separator, n>> \in Seq(Bytes) /\ Len(<<Separator, n>>) = 2
      BY DEF Bytes
    <3> QED
      BY <2>1, <3>1, Joined
  <2>3. /\ \A q \in 0 .. L - 1 : longer[q + 1] = bytes[q + 1]
        /\ longer[L + 1] = Separator /\ longer[L + 2] = n
    BY <2>1, <1>1
  <2> HIDE DEF L, H, B, longer
  <2>4. L + 2 = H + (L + 1) \div B + (n + 1)
    BY <1>1, <1>2, <1>4, <1>5
  <2>5. (L + 1) - H - (L + 1) \div B = n
    BY <1>1, <2>4
  <2>6. \A q \in 0 .. L + 1 :
          longer[q + 1] = IF q < H THEN Header
                          ELSE IF q % B = 0 THEN Separator ELSE q - H - q \div B
    <3> TAKE q \in 0 .. L + 1
    <3>1. CASE q \in 0 .. L - 1
      BY <3>1, <2>3, <1>3
    <3>2. CASE q = L
      BY <3>2, <2>3, <1>1, <1>5
    <3>3. CASE q = L + 1
      BY <3>3, <2>3, <2>5, <1>1, <1>4, <1>5
    <3> QED
      BY <3>1, <3>2, <3>3, <1>1
  <2>7. H <= L + 2 /\ Len(longer) = L + 2 /\ Len(longer) - 1 = L + 1
    BY <1>1, <2>2
  <2>8. Len(longer) = H + (Len(longer) - 1) \div B + (n + 1)
    BY <2>4, <2>7
  <2>9. \A q \in 0 .. Len(longer) - 1 :
          longer[q + 1] = IF q < H THEN Header
                          ELSE IF q % B = 0 THEN Separator ELSE q - H - q \div B
    BY <2>6, <2>7
  <2> QED
    BY <2>2, <2>7, <2>8, <2>9 DEF IsCut, H, B, longer
<1>6. CASE L % B # 0
  <2>1. more = <<n>>
    BY <1>6
  <2>2. longer \in Seq(Bytes) /\ Len(longer) = L + 1
    <3>1. <<n>> \in Seq(Bytes) /\ Len(<<n>>) = 1
      BY DEF Bytes
    <3> QED
      BY <2>1, <3>1, Joined
  <2>3. /\ \A q \in 0 .. L - 1 : longer[q + 1] = bytes[q + 1]
        /\ longer[L + 1] = n
    BY <2>1, <1>1
  <2> HIDE DEF L, H, B, longer
  <2>4. L + 1 = H + L \div B + (n + 1)
    BY <1>1, <1>2, <1>4, <1>6
  <2>5. L - H - L \div B = n
    BY <1>1, <1>4, <2>4
  <2>6. \A q \in 0 .. L :
          longer[q + 1] = IF q < H THEN Header
                          ELSE IF q % B = 0 THEN Separator ELSE q - H - q \div B
    <3> TAKE q \in 0 .. L
    <3>1. CASE q \in 0 .. L - 1
      BY <3>1, <2>3, <1>3
    <3>2. CASE q = L
      BY <3>2, <2>3, <2>5, <1>1, <1>6
    <3> QED
      BY <3>1, <3>2, <1>1
  <2>7. H <= L + 1 /\ Len(longer) = L + 1 /\ Len(longer) - 1 = L
    BY <1>1, <2>2
  <2>8. Len(longer) = H + (Len(longer) - 1) \div B + (n + 1)
    BY <2>4, <2>7
  <2>9. \A q \in 0 .. Len(longer) - 1 :
          longer[q + 1] = IF q < H THEN Header
                          ELSE IF q % B = 0 THEN Separator ELSE q - H - q \div B
    BY <2>6, <2>7
  <2> QED
    BY <2>2, <2>7, <2>8, <2>9 DEF IsCut, H, B, longer
<1> QED
  BY <1>5, <1>6
-----------------------------------------------------------------------------
(* What a step leaves as it was *)

\* What is known of an archive stays known, so that a request is silent, ends
\* the packet or has its content for the rest of the packet.
LEMMA ContentsStay ==
  ASSUME PacketTyped, stores' = stores,
         \A id \in IndexIds \X Archives : cache[id] # Unread => cache'[id] = cache[id],
         NEW r \in Requests
  PROVE  /\ Silent(r) => Silent(r)'
         /\ Stops(r) => Stops(r)'
         /\ (IsUKeys(r) \/ ContentFor(r) \in Contents) => ContentFor(r)' = ContentFor(r)
<1> DEFINE id == <<r.index, r.archive>>
<1>1. id \in IndexIds \X Archives /\ (cache[id] # Unread => cache'[id] = cache[id])
  BY DEF Requests
<1>2. Unread \notin Contents \cup {Absent, Short}
  BY ContentsAssumption DEF ContentsAssumption
<1>3. UKeys' = UKeys
  BY DEF UKeys
<1>4. CASE IsUKeys(r)
  BY <1>3, <1>4 DEF Silent, Stops, ContentFor
<1>5. CASE ~IsUKeys(r)
  <2>1. ContentFor(r) = cache[id] /\ ContentFor(r)' = cache'[id]
    BY <1>5 DEF ContentFor
  <2>2. ContentFor(r) \in Contents \cup {Absent, Short} => ContentFor(r)' = ContentFor(r)
    BY <1>1, <1>2, <2>1
  <2>3. Known(r.index)' = Known(r.index)
    BY DEF Known
  <2> HIDE DEF id
  <2> QED
    BY <1>5, <2>2, <2>3 DEF Silent, Stops
<1> QED
  BY <1>4, <1>5

\* A step that sends nothing keeps the invariant when the request it finishes,
\* if any, has nothing to be answered with.
LEMMA NothingSent ==
  ASSUME IInv, stores' = stores, asked' = asked, replies' = replies,
         \A id \in IndexIds \X Archives : cache[id] # Unread => cache'[id] = cache[id],
         PacketTyped', Copying', Returned',
         \/ handled' = handled
         \/ /\ handled' = handled + 1 /\ handled + 1 \in 1 .. Len(asked)
            /\ \E r : r = asked[handled + 1] /\ Silent(r)'
  PROVE  IInv'
<1>1. \A n \in 1 .. handled : asked[n] \in Requests
  BY DEF IInv, PacketTyped
<1>2. \A i \in 1 .. Len(replies) : replies[i].number \in 1 .. handled
  BY DEF IInv, RepliesTyped
<1>3. RepliesTyped' /\ RepliesInOrder'
  BY <1>2 DEF IInv, RepliesTyped, RepliesInOrder, PacketTyped
<1>4. Answered'
  <2> SUFFICES ASSUME NEW n \in 1 .. handled', NEW r, r = asked[n]
               PROVE  Silent(r)' \/ \E i \in 1 .. Len(replies) : replies[i].number = n
    BY DEF Answered
  <2>1. CASE n \in 1 .. handled
    <3>1. Silent(r) \/ \E i \in 1 .. Len(replies) : replies[i].number = n
      BY <2>1 DEF IInv, Answered
    <3>2. Silent(r) => Silent(r)'
      BY <1>1, <2>1, ContentsStay DEF IInv
    <3> QED
      BY <3>1, <3>2
  <2>2. CASE n \notin 1 .. handled
    <3>1. n = handled + 1 /\ handled' # handled
      BY <2>2 DEF IInv, PacketTyped
    <3> QED
      BY <3>1
  <2> QED
    BY <2>1, <2>2
<1>5. RepliesAreTheArchive'
  <2> SUFFICES ASSUME NEW i \in 1 .. Len(replies), NEW r, r = asked[replies[i].number]
               PROVE  /\ r.priority \in {0, 1}
                      /\ IsUKeys(r) \/ ContentFor(r)' \in Contents
                      /\ IsCut(replies[i].bytes, RealLength(ContentFor(r)'))
    BY DEF RepliesAreTheArchive
  <2>1. /\ r.priority \in {0, 1}
        /\ IsUKeys(r) \/ ContentFor(r) \in Contents
        /\ IsCut(replies[i].bytes, RealLength(ContentFor(r)))
    BY DEF IInv, RepliesAreTheArchive
  <2>2. r \in Requests
    BY <1>1, <1>2
  <2>3. ContentFor(r)' = ContentFor(r)
    BY <2>1, <2>2, ContentsStay DEF IInv
  <2> QED
    BY <2>1, <2>3
<1> QED
  BY <1>3, <1>4, <1>5 DEF IInv

-----------------------------------------------------------------------------
(* The steps *)

\* A request that is there is one of the packet's.
LEMMA CurrentTyped ==
  ASSUME PacketTyped, handled < Len(asked)
  PROVE  Current \in Requests /\ handled + 1 \in 1 .. Len(asked)
  BY DEF PacketTyped, Current

\* Reading an archive adds to what is known and changes nothing of it.
LEMMA ReadAdds ==
  ASSUME PacketTyped, NEW content \in Contents \cup {Absent, Short}, GetArchiveData(content)
  PROVE  /\ cache' \in [IndexIds \X Archives -> Contents \cup {Unread, Absent, Short}]
         /\ \A id \in IndexIds \X Archives : cache[id] # Unread => cache'[id] = cache[id]
         /\ handled < Len(asked) /\ pc = "loop" /\ Current.priority \in {0, 1} /\ ~IsUKeys(Current)
         /\ cache'[<<Current.index, Current.archive>>] = content
<1>1. handled < Len(asked) /\ pc = "loop" /\ Current.priority \in {0, 1} /\ ~IsUKeys(Current)
  BY DEF GetArchiveData, Wanted, Pending
<1> DEFINE id == <<Current.index, Current.archive>>
<1>2. id \in IndexIds \X Archives
  BY <1>1, CurrentTyped DEF Requests
<1>3. cache[id] \in {Unread, content} /\ cache' = [cache EXCEPT ![id] = content]
  BY DEF GetArchiveData
<1> HIDE DEF id
<1>4. cache'[id] = content
  BY <1>2, <1>3 DEF PacketTyped
<1>5. \A other \in IndexIds \X Archives : cache[other] # Unread => cache'[other] = cache[other]
  BY <1>2, <1>3 DEF PacketTyped
<1>6. cache' \in [IndexIds \X Archives -> Contents \cup {Unread, Absent, Short}]
  BY <1>2, <1>3 DEF PacketTyped
<1> QED
  BY <1>1, <1>4, <1>5, <1>6 DEF id

\* A request is passed over.
LEMMA PassingKeeps ==
  ASSUME IInv, Unsupported \/ NotFound \/ (Wanted /\ IsUKeys(Current) /\ Cardinality(stores) > kMaxTypes
                                           /\ Continue /\ UNCHANGED <<stores, cache, replies>>)
  PROVE  IInv'
<1>1. CASE Unsupported
  <2>1. /\ handled < Len(asked) /\ Current.priority \notin {0, 1} /\ pc = "loop" /\ handled' = handled + 1
        /\ UNCHANGED <<asked, pc, stores, cache, replies>>
    BY <1>1 DEF Unsupported, Pending, Continue
  <2>2. PacketTyped' /\ Copying' /\ Returned'
    BY <2>1 DEF IInv, PacketTyped, Copying, Returned
  <2>3. \E r : r = asked[handled + 1] /\ Silent(r)'
    BY <2>1 DEF Silent, Current
  <2>4. handled + 1 \in 1 .. Len(asked)
    BY <2>1 DEF IInv, PacketTyped
  <2> QED
    BY <2>1, <2>2, <2>3, <2>4, NothingSent
<1>2. CASE NotFound
  <2>1. /\ GetArchiveData(Absent) /\ handled' = handled + 1
        /\ UNCHANGED <<asked, pc, stores, replies>>
    BY <1>2 DEF NotFound, Continue
  <2>2. /\ cache' \in [IndexIds \X Archives -> Contents \cup {Unread, Absent, Short}]
        /\ \A id \in IndexIds \X Archives : cache[id] # Unread => cache'[id] = cache[id]
        /\ handled < Len(asked) /\ pc = "loop" /\ ~IsUKeys(Current)
        /\ cache'[<<Current.index, Current.archive>>] = Absent
    BY <2>1, ReadAdds DEF IInv
  <2>3. PacketTyped' /\ Copying' /\ Returned'
    BY <2>1, <2>2 DEF IInv, PacketTyped, Copying, Returned
  <2>4. handled + 1 \in 1 .. Len(asked)
    BY <2>2 DEF IInv, PacketTyped
  <2>5. PICK r : r = asked[handled + 1]
    OBVIOUS
  <2>6. Silent(r)'
    BY <2>2, <2>5 DEF Silent, ContentFor, Current
  <2> QED
    BY <2>1, <2>2, <2>3, <2>4, <2>5, <2>6, NothingSent
<1>3. CASE Wanted /\ IsUKeys(Current) /\ Cardinality(stores) > kMaxTypes
           /\ Continue /\ UNCHANGED <<stores, cache, replies>>
  <2>1. /\ handled < Len(asked) /\ pc = "loop" /\ handled' = handled + 1
        /\ UNCHANGED <<asked, pc, stores, cache, replies>>
    BY <1>3 DEF Wanted, Pending, Continue
  <2>2. PacketTyped' /\ Copying' /\ Returned'
    BY <2>1 DEF IInv, PacketTyped, Copying, Returned
  <2>3. \E r : r = asked[handled + 1] /\ Silent(r)'
    BY <1>3 DEF Silent, Current
  <2>4. handled + 1 \in 1 .. Len(asked)
    BY <2>1 DEF IInv, PacketTyped
  <2> QED
    BY <2>1, <2>2, <2>3, <2>4, NothingSent
<1> QED
  BY <1>1, <1>2, <1>3

\* The handler returns.
LEMMA ReturningKeeps ==
  ASSUME IInv, Logout \/ UnknownStore \/ TooShort \/ CopyFails \/ EndOfPacket
  PROVE  IInv'
<1>1. /\ pc' = "returned"
      /\ UNCHANGED <<asked, handled, stores, replies>>
  BY DEF Logout, UnknownStore, TooShort, CopyFails, EndOfPacket, Return
<1>2. /\ cache' \in [IndexIds \X Archives -> Contents \cup {Unread, Absent, Short}]
      /\ \A id \in IndexIds \X Archives : cache[id] # Unread => cache'[id] = cache[id]
  <2>1. CASE TooShort
    BY <2>1, ReadAdds DEF TooShort, IInv
  <2>2. CASE ~TooShort
    BY <2>2 DEF Logout, UnknownStore, CopyFails, EndOfPacket, IInv, PacketTyped
  <2> QED
    BY <2>1, <2>2
<1>3. PacketTyped' /\ Copying'
  BY <1>1, <1>2 DEF IInv, PacketTyped, Copying
<1>4. Returned'
  <2> SUFFICES ASSUME handled # Len(asked), NEW r, r = asked[handled + 1]
               PROVE  Stops(r)'
    BY <1>1 DEF Returned
  <2>1. handled < Len(asked) /\ r = Current
    BY DEF IInv, PacketTyped, Current
  <2>2. CASE Logout
    BY <2>1, <2>2 DEF Logout, Stops
  <2>3. CASE UnknownStore
    BY <1>1, <2>1, <2>3 DEF UnknownStore, Wanted, Stops, Known
  <2>4. CASE TooShort
    BY <2>1, <2>4, ReadAdds DEF TooShort, IInv, Stops, ContentFor
  <2>5. CASE CopyFails
    <3>1. /\ pc = "copy" /\ copied < RealLength(archive) /\ copied = archive.held /\ cache' = cache
      BY <2>5 DEF CopyFails
    <3>2. r.priority \in {0, 1} /\ archive = ContentFor(r) /\ (IsUKeys(r) \/ archive \in Contents)
      BY <2>1, <3>1 DEF IInv, Copying
    <3>3. ContentFor(r)' = ContentFor(r)
      BY <1>1, <3>1 DEF ContentFor, UKeys
    <3>4. ~IsUKeys(r)
      <4> SUFFICES ASSUME IsUKeys(r) PROVE FALSE
        OBVIOUS
      <4>1. archive = UKeys
        BY <3>2 DEF ContentFor
      <4>2. ~archive.compressed /\ archive.length = archive.held
        BY <4>1 DEF UKeys
      <4>3. copied \in Nat
        BY <3>1 DEF IInv, Copying
      <4> QED
        BY <3>1, <4>2, <4>3 DEF RealLength
    <3>5. archive.held < RealLength(archive)
      BY <3>1
    <3> QED
      BY <3>2, <3>3, <3>4, <3>5 DEF Stops
  <2>6. CASE EndOfPacket
    BY <2>1, <2>6 DEF EndOfPacket
  <2> QED
    BY <2>2, <2>3, <2>4, <2>5, <2>6
<1> QED
  BY <1>1, <1>2, <1>3, <1>4, NothingSent

\* A reply is begun: its header is cut, and its archive is the one asked for.
LEMMA BeginningKeeps ==
  ASSUME IInv, NEW c, BeginReply(c), UNCHANGED <<stores, replies>>,
         \/ Wanted /\ IsUKeys(Current) /\ c = UKeys /\ cache' = cache
         \/ c \in Contents /\ GetArchiveData(c)
  PROVE  IInv'
<1>1. /\ pc' = "copy" /\ archive' = c /\ copied' = 0
      /\ output' = [n \in 1 .. kHeaderLength |-> Header]
      /\ UNCHANGED <<asked, handled>>
  BY DEF BeginReply
<1>2. output' \in Seq(Bytes) /\ IsCut(output', 0)
  BY <1>1, HeaderIsCut
<1>3. /\ cache' \in [IndexIds \X Archives -> Contents \cup {Unread, Absent, Short}]
      /\ \A id \in IndexIds \X Archives : cache[id] # Unread => cache'[id] = cache[id]
      /\ handled < Len(asked) /\ Current.priority \in {0, 1}
      /\ IsUKeys(Current) => c = UKeys
      /\ ~IsUKeys(Current) => c \in Contents /\ c = cache'[<<Current.index, Current.archive>>]
  <2>1. CASE Wanted /\ IsUKeys(Current) /\ c = UKeys /\ cache' = cache
    BY <2>1 DEF Wanted, Pending, IInv, PacketTyped
  <2>2. CASE c \in Contents /\ GetArchiveData(c)
    BY <2>2, ReadAdds DEF IInv
  <2> QED
    BY <2>1, <2>2
<1>4. PacketTyped' /\ Returned'
  BY <1>1, <1>3 DEF IInv, PacketTyped, Returned
<1>5. Copying'
  <2>1. PICK r : r = Current
    OBVIOUS
  <2>2. Current' = r
    BY <1>1, <2>1 DEF Current
  <2>3. ContentFor(r)' = c
    <3>1. UKeys' = UKeys
      BY DEF UKeys
    <3> QED
      BY <1>3, <2>1, <3>1 DEF ContentFor
  <2>4. IsUKeys(r) \/ c \in Contents
    BY <1>3, <2>1
  <2> QED
    BY <1>1, <1>2, <1>3, <2>1, <2>2, <2>3, <2>4 DEF Copying
<1> QED
  BY <1>1, <1>3, <1>4, <1>5, NothingSent

\* A byte is copied.
LEMMA CopyingKeeps ==
  ASSUME IInv, CopyByte
  PROVE  IInv'
<1>1. /\ pc = "copy" /\ output' = output \o Marked /\ copied' = copied + 1
      /\ UNCHANGED <<stores, cache, asked, handled, pc, archive, replies>>
  BY DEF CopyByte, packetVars
<1>2. /\ handled < Len(asked) /\ Current.priority \in {0, 1}
      /\ archive = ContentFor(Current) /\ (IsUKeys(Current) \/ archive \in Contents)
      /\ copied \in Nat /\ output \in Seq(Bytes) /\ IsCut(output, copied)
  BY <1>1 DEF IInv, Copying
<1>3. output' \in Seq(Bytes) /\ IsCut(output', copied + 1)
  BY <1>1, <1>2, CutGrows DEF Marked
<1>4. PacketTyped' /\ Returned'
  BY <1>1 DEF IInv, PacketTyped, Returned
<1>5. Copying'
  <2>1. PICK r : r = Current
    OBVIOUS
  <2>2. Current' = r
    BY <1>1, <2>1 DEF Current
  <2>3. ContentFor(r)' = ContentFor(r)
    BY <1>1 DEF ContentFor, UKeys
  <2>4. copied' \in Nat /\ copied' = copied + 1
    BY <1>1, <1>2
  <2> QED
    BY <1>1, <1>2, <1>3, <2>1, <2>2, <2>3, <2>4 DEF Copying
<1> QED
  BY <1>1, <1>4, <1>5, NothingSent

\* A reply is sent: it is whole, and behind those sent before.
LEMMA SendingKeeps ==
  ASSUME IInv, Send
  PROVE  IInv'
<1>1. /\ pc = "copy" /\ pc' = "loop" /\ copied = RealLength(archive) /\ handled' = handled + 1
      /\ replies' = Append(replies, [number |-> handled + 1, bytes |-> output])
      /\ UNCHANGED <<stores, cache, asked>>
  BY DEF Send
<1>2. PICK r : r = Current
  OBVIOUS
<1>3. /\ handled < Len(asked) /\ r.priority \in {0, 1}
      /\ archive = ContentFor(r) /\ (IsUKeys(r) \/ archive \in Contents)
      /\ output \in Seq(Bytes) /\ IsCut(output, RealLength(archive))
  BY <1>1, <1>2 DEF IInv, Copying
<1>4. handled \in Nat /\ asked \in Seq(Requests)
  BY DEF IInv, PacketTyped
<1> DEFINE reply == [number |-> handled + 1, bytes |-> output]
           R == [number : Nat, bytes : Seq(Bytes)]
<1>5. reply \in R
  BY <1>3, <1>4
<1>6. replies \in Seq(R)
  BY DEF IInv, RepliesTyped
<1> HIDE DEF reply, R
<1>7. /\ replies' \in Seq(R) /\ Len(replies') = Len(replies) + 1 /\ Len(replies) \in Nat
      /\ \A i \in 1 .. Len(replies) : replies'[i] = replies[i]
      /\ replies'[Len(replies) + 1] = reply
  BY <1>1, <1>5, <1>6 DEF reply
<1>8. reply.number = handled + 1 /\ reply.bytes = output
  BY DEF reply
<1>9. \A i \in 1 .. Len(replies) : replies[i].number \in 1 .. handled
  BY DEF IInv, RepliesTyped
<1>10. PacketTyped' /\ Copying' /\ Returned'
  BY <1>1, <1>3 DEF IInv, PacketTyped, Copying, Returned
<1>11. RepliesTyped'
  <2>1. \A i \in 1 .. Len(replies') : replies'[i].number \in 1 .. handled'
    BY <1>1, <1>4, <1>7, <1>8, <1>9
  <2> QED
    BY <1>7, <2>1 DEF RepliesTyped, R
<1>12. RepliesInOrder'
  <2>1. \A i, j \in 1 .. Len(replies) : i < j => replies[i].number < replies[j].number
    BY DEF IInv, RepliesInOrder
  <2>2. \A i \in 1 .. Len(replies) : replies'[i].number < replies'[Len(replies) + 1].number
    BY <1>4, <1>7, <1>8, <1>9
  <2> SUFFICES ASSUME NEW i \in 1 .. Len(replies'), NEW j \in 1 .. Len(replies'), i < j
               PROVE  replies'[i].number < replies'[j].number
    BY DEF RepliesInOrder
  <2>3. i \in 1 .. Len(replies)
    BY <1>7
  <2>4. CASE j \in 1 .. Len(replies)
    BY <1>7, <2>1, <2>3, <2>4
  <2>5. CASE j = Len(replies) + 1
    BY <2>2, <2>3, <2>5
  <2> QED
    BY <1>7, <2>4, <2>5
<1>13. Answered'
  <2> SUFFICES ASSUME NEW n \in 1 .. handled', NEW s, s = asked[n]
               PROVE  Silent(s)' \/ \E i \in 1 .. Len(replies') : replies'[i].number = n
    BY <1>1 DEF Answered
  <2>1. CASE n \in 1 .. handled
    <3>1. Silent(s) \/ \E i \in 1 .. Len(replies) : replies[i].number = n
      BY <2>1 DEF IInv, Answered
    <3>2. Silent(s) => Silent(s)'
      BY <1>1 DEF Silent, ContentFor, UKeys
    <3> QED
      BY <1>7, <3>1, <3>2
  <2>2. CASE n = handled + 1
    BY <1>7, <1>8, <2>2
  <2> QED
    BY <1>1, <1>4, <2>1, <2>2
<1>14. RepliesAreTheArchive'
  <2> SUFFICES ASSUME NEW i \in 1 .. Len(replies'), NEW s, s = asked[replies'[i].number]
               PROVE  /\ s.priority \in {0, 1}
                      /\ IsUKeys(s) \/ ContentFor(s)' \in Contents
                      /\ IsCut(replies'[i].bytes, RealLength(ContentFor(s)'))
    BY <1>1 DEF RepliesAreTheArchive
  <2>1. ContentFor(s)' = ContentFor(s)
    BY <1>1 DEF ContentFor, UKeys
  <2>2. CASE i \in 1 .. Len(replies)
    <3>1. replies'[i] = replies[i]
      BY <1>7, <2>2
    <3> QED
      BY <2>1, <2>2, <3>1 DEF IInv, RepliesAreTheArchive
  <2>3. CASE i = Len(replies) + 1
    <3>1. s = r
      BY <1>2, <1>7, <1>8, <2>3 DEF Current
    <3> QED
      BY <1>3, <1>7, <1>8, <2>1, <2>3, <3>1
  <2> QED
    BY <1>7, <2>2, <2>3
<1> QED
  BY <1>10, <1>11, <1>12, <1>13, <1>14 DEF IInv

\* The call for the next packet begins with nothing known and nothing sent.
LEMMA HandleKeeps ==
  ASSUME IInv, NEW packet \in Packets, Handle(packet)
  PROVE  IInv'
<1>1. /\ asked' = packet /\ handled' = 0 /\ pc' = "loop" /\ replies' = <<>>
      /\ cache' = [id \in IndexIds \X Archives |-> Unread] /\ stores' = stores
  BY DEF Handle
<1>2. packet \in Seq(Requests)
  <2>1. PICK n \in 0 .. MaxRequests : packet \in [1 .. n -> Requests]
    BY DEF Packets
  <2>2. n \in Nat
    BY GrabAssumption DEF GrabAssumption
  <2> QED
    BY <2>1, <2>2
<1>3. PacketTyped' /\ Copying' /\ Returned'
  BY <1>1, <1>2 DEF IInv, PacketTyped, Copying, Returned
<1>4. Len(replies') = 0 /\ replies' \in Seq([number : Nat, bytes : Seq(Bytes)])
  BY <1>1
<1>5. RepliesTyped' /\ RepliesInOrder' /\ RepliesAreTheArchive' /\ Answered'
  BY <1>1, <1>4 DEF RepliesTyped, RepliesInOrder, RepliesAreTheArchive, Answered
<1> QED
  BY <1>3, <1>5 DEF IInv

-----------------------------------------------------------------------------
(* The theorems *)

\* The strengthening is inductive.
THEOREM AlwaysIInv == Spec => []IInv
<1>1. Init => IInv
  <2> SUFFICES ASSUME Init PROVE IInv
    OBVIOUS
  <2>1. PacketTyped /\ Copying /\ Returned
    BY DEF Init, PacketTyped, Copying, Returned
  <2>2. Len(replies) = 0 /\ replies \in Seq([number : Nat, bytes : Seq(Bytes)]) /\ handled = 0
    BY DEF Init
  <2>3. RepliesTyped /\ RepliesInOrder /\ RepliesAreTheArchive /\ Answered
    BY <2>2 DEF RepliesTyped, RepliesInOrder, RepliesAreTheArchive, Answered
  <2> QED
    BY <2>1, <2>3 DEF IInv
<1>2. IInv /\ [Next]_vars => IInv'
  <2> SUFFICES ASSUME IInv, [Next]_vars PROVE IInv'
    OBVIOUS
  <2>1. ASSUME NEW packet \in Packets, Handle(packet) PROVE IInv'
    BY <2>1, HandleKeeps
  <2>2. CASE Unsupported \/ NotFound
    BY <2>2, PassingKeeps
  <2>3. CASE SendUKeys
    <3>1. CASE Cardinality(stores) > kMaxTypes
      BY <2>3, <3>1, PassingKeeps DEF SendUKeys
    <3>2. CASE ~(Cardinality(stores) > kMaxTypes)
      BY <2>3, <3>2, BeginningKeeps DEF SendUKeys
    <3> QED
      BY <3>1, <3>2
  <2>4. CASE Logout \/ UnknownStore \/ TooShort \/ CopyFails \/ EndOfPacket
    BY <2>4, ReturningKeeps
  <2>5. CASE Found
    BY <2>5, BeginningKeeps DEF Found
  <2>6. CASE CopyByte
    BY <2>6, CopyingKeeps
  <2>7. CASE Send
    BY <2>7, SendingKeeps
  <2>8. CASE UNCHANGED vars
    <3>1. UNCHANGED <<stores, cache, asked, handled, pc, archive, copied, output, replies>>
      BY <2>8 DEF vars, packetVars, copyVars
    <3>2. PacketTyped' /\ Returned'
      BY <3>1 DEF IInv, PacketTyped, Returned, Stops, Known, ContentFor, IsUKeys, UKeys
    <3>3. Copying'
      BY <3>1 DEF IInv, Copying, Current, ContentFor, IsUKeys, UKeys
    <3> QED
      BY <3>1, <3>2, <3>3, NothingSent
  <2> QED
    BY <2>1, <2>2, <2>3, <2>4, <2>5, <2>6, <2>7, <2>8 DEF Next, Step, Disconnected
<1> QED
  BY <1>1, <1>2, PTL DEF Spec

\* Every reply is the archive its request named, whole, with a separator at the
\* start of every block but the first, for archives and blocks of any length.
THEOREM RepliesAlwaysTheArchive == Spec => []RepliesAreTheArchive
<1>1. IInv => RepliesAreTheArchive
  BY DEF IInv
<1> QED
  BY <1>1, AlwaysIInv, PTL

\* The replies are in the order of the requests, and nothing but a request that
\* ends the packet leaves one without its reply, in packets of any length.
THEOREM AlwaysAnsweredInOrder == Spec => []AnsweredInOrder
<1>1. IInv => AnsweredInOrder
  <2> SUFFICES ASSUME IInv PROVE AnsweredInOrder
    OBVIOUS
  <2>1. RepliesInOrder
    BY DEF IInv
  <2>2. OnlyFailuresDrop
    <3> SUFFICES ASSUME pc = "returned", NEW n \in 1 .. Len(asked)
                 PROVE  \/ Silent(asked[n])
                        \/ \E m \in 1 .. n : Stops(asked[m])
                        \/ \E i \in 1 .. Len(replies) : replies[i].number = n
      BY DEF OnlyFailuresDrop
    <3>1. handled \in 0 .. Len(asked) /\ Len(asked) \in Nat
      BY DEF IInv, PacketTyped
    <3>2. CASE n <= handled
      BY <3>1, <3>2 DEF IInv, Answered
    <3>3. CASE handled < n
      <4>1. Stops(asked[handled + 1]) /\ handled + 1 \in 1 .. n
        BY <3>1, <3>3 DEF IInv, Returned
      <4> QED
        BY <4>1
    <3> QED
      BY <3>1, <3>2, <3>3
  <2> QED
    BY <2>1, <2>2 DEF AnsweredInOrder
<1> QED
  BY <1>1, AlwaysIInv, PTL
=============================================================================
