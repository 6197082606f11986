-------------------------------- MODULE Grab --------------------------------
(***************************************************************************)
(* GrabPacketHandler::Handle: the requests of one read are answered one    *)
(* after the other, each reply cut in blocks.  What an archive holds is    *)
(* chosen when a packet first reads it, and stays while the packet lasts;  *)
(* bytes are numbered from 0.                                              *)
(***************************************************************************)
EXTENDS Naturals, Sequences, FiniteSets

CONSTANTS
  IndexIds, Archives, Priorities,   \* what the three fields of a request hold
  MaxRequests,   \* requests in one read
  MaxLength,     \* the greatest length an archive states
  kSizes,        \* values of the number of bytes to copy: 2^32
  Lengths,       \* how much of it there is
  kBlockLength,  \* bytes in a block of a reply: 512
  kHeaderLength, \* bytes before the data: 10
  kMaxTypes,     \* indexes the checksum table can count: 255
  kEntryLength, kHashLength,   \* an entry of that table, and its hash
  Header, Separator,           \* bytes of a reply that are no data
  Unread, Absent, Short        \* no archive, and one without its own header

kMetadataId == 255

ASSUME GrabAssumption ==
  /\ kBlockLength \in Nat /\ kHeaderLength \in Nat /\ MaxLength \in Nat
  /\ kSizes \in Nat /\ MaxLength < kSizes
  /\ kHeaderLength \in 1 .. kBlockLength - 1
  /\ kEntryLength \in Nat /\ kHashLength \in Nat /\ MaxRequests \in Nat
  /\ Header \notin Nat /\ Separator \notin Nat
  /\ IsFiniteSet(IndexIds) /\ Lengths \subseteq Nat

Requests == [priority : Priorities, index : IndexIds, archive : Archives]

\* An archive: whether it is compressed, the length it states, and the bytes
\* that follow its header, which may be more or fewer.
Contents == [compressed : BOOLEAN, length : 0 .. MaxLength, held : Lengths]

\* The bytes to copy: behind the length of a compressed archive come four that
\* it does not count, and the sum keeps 32 bits.
RealLength(c) == IF c.compressed THEN (c.length + 4) % kSizes ELSE c.length

Nothing == [compressed |-> FALSE, length |-> 0, held |-> 0]

ASSUME ContentsAssumption == {Unread, Absent, Short} \cap Contents = {} /\ Unread \notin {Absent, Short}

VARIABLES
  stores,    \* indexes that have a file
  cache,     \* what is known of the archives
  status,    \* of the session
  asked,     \* the requests of the packet
  handled,   \* how many of them are done with
  pc,        \* "loop", "copy" or "returned"
  archive, copied, output,   \* the archive being copied, how far, and to where
  replies    \* what was sent: the number of the request, and the bytes

packetVars == <<asked, handled, pc>>
copyVars == <<archive, copied, output>>
vars == <<stores, cache, status, packetVars, copyVars, replies>>

TypeOK ==
  /\ stores \subseteq IndexIds \ {kMetadataId}
  /\ cache \in [IndexIds \X Archives -> Contents \cup {Unread, Absent, Short}]
  /\ status \in {"connected", "disconnected"}
  /\ asked \in Seq(Requests) /\ handled \in 0 .. Len(asked)
  /\ pc \in {"loop", "copy", "returned"}
  /\ archive \in [compressed : BOOLEAN, length : Nat, held : Nat]
  /\ copied \in 0 .. archive.held
  /\ output \in Seq(Nat \cup {Header, Separator})
  /\ replies \in Seq([number : Nat, bytes : Seq(Nat \cup {Header, Separator})])

Init ==
  /\ stores \in SUBSET (IndexIds \ {kMetadataId})
  /\ cache = [id \in IndexIds \X Archives |-> Unread]
  /\ status = "connected"
  /\ asked = <<>> /\ handled = 0 /\ pc = "returned"
  /\ archive = Nothing
  /\ copied = 0 /\ output = <<>>
  /\ replies = <<>>

\* The decoder has put all that was read into one packet.
Handle(packet) ==
  /\ pc = "returned" /\ status = "connected"
  /\ asked' = packet /\ handled' = 0 /\ pc' = "loop"
  /\ replies' = <<>>
  /\ cache' = [id \in IndexIds \X Archives |-> Unread]
  /\ UNCHANGED <<stores, status, copyVars>>

Current == asked[handled + 1]
Pending == pc = "loop" /\ handled < Len(asked)
IsUKeys(r) == r.index = kMetadataId /\ r.archive = kMetadataId
Known(index) == index \in stores \cup {kMetadataId}

NoReply == archive' = Nothing /\ copied' = 0 /\ output' = <<>>

\* (Seeded defect.) A request that is passed over is looked at, not taken.
ContinueHere == UNCHANGED packetVars

Continue == handled' = handled + 1 /\ UNCHANGED <<asked, pc>>
Return == pc' = "returned" /\ UNCHANGED <<asked, handled>>

\* Encryption (4) and priorities nobody knows: the request is passed over.
Unsupported ==
  /\ Pending /\ Current.priority \notin {0, 1, 7}
  /\ Continue
  /\ UNCHANGED <<stores, cache, status, copyVars, replies>>

Logout ==
  /\ Pending /\ Current.priority = 7
  /\ status' = "disconnected"
  /\ Return
  /\ UNCHANGED <<stores, cache, copyVars, replies>>

Wanted == Pending /\ Current.priority \in {0, 1}

\* The header of a reply; the data follows one byte at a time.
BeginReply(c) ==
  /\ archive' = c /\ copied' = 0
  /\ output' = [n \in 1 .. kHeaderLength |-> Header]
  /\ pc' = "copy"
  /\ UNCHANGED <<asked, handled>>

\* The table of checksums: the number of indexes, an entry for each of them
\* counted from 0, present or not, and the hash.
UKeys ==
  LET size == 1 + Cardinality(stores) * kEntryLength + kHashLength
  IN  [compressed |-> FALSE, length |-> size, held |-> size]

SendUKeys ==
  /\ Wanted /\ IsUKeys(Current)
  /\ IF Cardinality(stores) > kMaxTypes THEN Continue /\ UNCHANGED copyVars ELSE BeginReply(UKeys)
  /\ UNCHANGED <<stores, cache, status, replies>>

\* CacheManager::GetArchiveData, for an index it knows: a content known
\* already, or any.
GetArchiveData(content) ==
  LET id == <<Current.index, Current.archive>>
  IN  /\ Wanted /\ ~IsUKeys(Current) /\ Known(Current.index)
      /\ cache[id] \in {Unread, content}
      /\ cache' = [cache EXCEPT ![id] = content]

\* GetStore throws for an index without a file: the rest of the packet is lost.
UnknownStore ==
  /\ Wanted /\ ~IsUKeys(Current) /\ ~Known(Current.index)
  /\ Return
  /\ UNCHANGED <<stores, cache, status, copyVars, replies>>

\* (Seeded defect.) An archive that is not there ends the packet.
NotFoundReturns ==
  /\ GetArchiveData(Absent)
  /\ Return
  /\ UNCHANGED <<stores, status, copyVars, replies>>

NotFound ==
  /\ GetArchiveData(Absent)
  /\ Continue
  /\ UNCHANGED <<stores, status, copyVars, replies>>

TooShort ==
  /\ GetArchiveData(Short)
  /\ Return
  /\ UNCHANGED <<stores, status, copyVars, replies>>

Found ==
  /\ \E c \in Contents : GetArchiveData(c) /\ BeginReply(c)
  /\ UNCHANGED <<stores, status, replies>>

\* (Seeded defect.) The separator counts from the start of the data.
MarkedFromData == IF copied % kBlockLength = 0 THEN <<Separator, copied>> ELSE <<copied>>
\* A byte of data, behind a separator where a block begins.
Marked == IF Len(output) % kBlockLength = 0 THEN <<Separator, copied>> ELSE <<copied>>

CopyByte ==
  /\ pc = "copy" /\ copied < RealLength(archive) /\ copied < archive.held
  /\ output' = output \o Marked
  /\ copied' = copied + 1
  /\ UNCHANGED <<stores, cache, status, packetVars, archive, replies>>

\* The archive holds less than it states: nothing is sent, the rest is lost.
CopyFails ==
  /\ pc = "copy" /\ copied < RealLength(archive) /\ copied = archive.held
  /\ Return /\ NoReply
  /\ UNCHANGED <<stores, cache, status, replies>>

Send ==
  /\ pc = "copy" /\ copied = RealLength(archive)
  /\ replies' = Append(replies, [number |-> handled + 1, bytes |-> output])
  /\ pc' = "loop" /\ handled' = handled + 1
  /\ NoReply
  /\ UNCHANGED <<stores, cache, status, asked>>

\* No whole request is left; a part of one is dropped.
EndOfPacket ==
  /\ pc = "loop" /\ handled = Len(asked)
  /\ Return
  /\ UNCHANGED <<stores, cache, status, copyVars, replies>>

\* The reactor removes the session.
Disconnected == pc = "returned" /\ status = "disconnected" /\ UNCHANGED vars

Step ==
  \/ Unsupported \/ Logout \/ SendUKeys \/ UnknownStore \/ NotFound \/ TooShort
  \/ Found \/ CopyByte \/ CopyFails \/ Send \/ EndOfPacket

Packets == UNION {[1 .. n -> Requests] : n \in 0 .. MaxRequests}

Next == (\E packet \in Packets : Handle(packet)) \/ Step \/ Disconnected

\* A call runs to its end.
Spec == Init /\ [][Next]_vars /\ WF_vars(Step)

-----------------------------------------------------------------------------
(* Properties *)

\* The first n bytes of an archive cut in blocks: every block but the first
\* begins with a separator, the header fills the first, and what is left
\* between them is the data in its order.
IsCut(bytes, n) ==
  /\ kHeaderLength <= Len(bytes)
  /\ Len(bytes) = kHeaderLength + (Len(bytes) - 1) \div kBlockLength + n
  /\ \A q \in 0 .. Len(bytes) - 1 :
       bytes[q + 1] = IF q < kHeaderLength THEN Header
                      ELSE IF q % kBlockLength = 0 THEN Separator
                      ELSE q - kHeaderLength - q \div kBlockLength

\* What answers a request.
ContentFor(r) == IF IsUKeys(r) THEN UKeys ELSE cache[<<r.index, r.archive>>]

\* A reply carries the archive its request named, all that RealLength makes of
\* the length it states, cut in blocks as the client expects.
RepliesAreTheArchive ==
  \A i \in 1 .. Len(replies) :
    LET r == asked[replies[i].number]
    IN  /\ r.priority \in {0, 1}
        /\ IsUKeys(r) \/ ContentFor(r) \in Contents
        /\ IsCut(replies[i].bytes, RealLength(ContentFor(r)))

\* Replies are in the order of their requests, and none is sent twice.
RepliesInOrder ==
  \A i, j \in 1 .. Len(replies) : i < j => replies[i].number < replies[j].number

\* Requests after which Handle returns.
Stops(r) ==
  \/ r.priority = 7
  \/ /\ r.priority \in {0, 1} /\ ~IsUKeys(r)
     /\ \/ ~Known(r.index)
        \/ ContentFor(r) = Short
        \/ ContentFor(r) \in Contents /\ ContentFor(r).held < RealLength(ContentFor(r))

\* Requests that have nothing to be answered with.
Silent(r) ==
  \/ r.priority \notin {0, 1}
  \/ IsUKeys(r) /\ Cardinality(stores) > kMaxTypes
  \/ ~IsUKeys(r) /\ ContentFor(r) = Absent

\* When Handle returns every request has its reply, unless it has none to get
\* or a request that ends the packet stands at its place or before it. Nothing
\* else loses a request: not an archive that is missing, nor a priority nobody
\* knows.
OnlyFailuresDrop ==
  pc = "returned" =>
    \A n \in 1 .. Len(asked) :
      \/ Silent(asked[n])
      \/ \E m \in 1 .. n : Stops(asked[m])
      \/ \E i \in 1 .. Len(replies) : replies[i].number = n

\* The client can pair replies with requests by counting the ones that fail.
AnsweredInOrder == RepliesInOrder /\ OnlyFailuresDrop

\* Handle returns, whatever is asked and whatever the archives hold.
HandleReturns == pc # "returned" ~> pc = "returned"
=============================================================================
