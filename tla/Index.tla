------------------------------- MODULE Index -------------------------------
(***************************************************************************)
(* Index::GetArchiveData (src/cache/src/index.cpp): an archive is a chain  *)
(* of blocks in the data file; an entry of the index file gives its size   *)
(* and its first block, and the header of a block names the archive, the   *)
(* chunk, the next block and the index it belongs to.  The files may hold  *)
(* anything: a header is chosen when its block is first read and stays.    *)
(***************************************************************************)
EXTENDS Naturals, Sequences

CONSTANTS
  Indexes, Archives,
  BlockCount,    \* kDataBlockCount: blocks 1 to BlockCount - 1 are whole, the
                 \* one behind them is what is left at the end of the file
  kBlockLength,  \* bytes of data in a block
  MaxSize,       \* the greatest size an entry can hold
  ChunkValues,   \* chunk numbers there are: 2^16
  Unread, Missing

Blocks == 1 .. BlockCount
Headers == [index : Indexes, archive : Archives, chunk : 0 .. ChunkValues - 1,
            next : 0 .. BlockCount + 1]

ASSUME IndexAssumption ==
  /\ BlockCount \in Nat /\ MaxSize \in Nat /\ ChunkValues \in Nat \ {0}
  /\ kBlockLength \in Nat \ {0}
  /\ MaxSize <= kBlockLength * ChunkValues
  /\ Unread \notin Headers /\ Missing \notin Headers /\ Unread # Missing

VARIABLES
  disk,       \* the headers of the data file
  sound,      \* data_stream is neither at its end nor failed
  request,    \* the index and the archive asked for
  entry,      \* the size and the first block of the archive
  pc,         \* "idle" or "reading"
  remaining, block, chunk,   \* the locals of the loop
  output,     \* the blocks whose data was appended to the output
  padded,     \* some of the output was never read from the file
  result      \* what GetArchiveData returned last: "none", "true", "false"

fileVars == <<disk, sound>>
loopVars == <<remaining, block, chunk, output, padded>>
vars == <<fileVars, request, entry, pc, loopVars, result>>

TypeOK ==
  /\ disk \in [Blocks -> Headers \cup {Unread, Missing}]
  /\ sound \in BOOLEAN /\ padded \in BOOLEAN
  /\ request \in [index : Indexes, archive : Archives]
  /\ entry \in [size : 0 .. MaxSize, first : 0 .. BlockCount + 1]
  /\ pc \in {"idle", "reading"}
  /\ remaining \in 0 .. MaxSize /\ chunk \in 0 .. ChunkValues - 1
  /\ block \in 0 .. BlockCount + 1
  /\ output \in Seq(Blocks)
  /\ result \in {"none", "true", "false"}

Init ==
  /\ disk = [b \in Blocks |-> Unread]
  /\ sound = TRUE
  /\ request \in [index : Indexes, archive : Archives]
  /\ entry = [size |-> 0, first |-> 0]
  /\ pc = "idle"
  /\ remaining = 0 /\ block = 0 /\ chunk = 0
  /\ output = <<>> /\ padded = FALSE
  /\ result = "none"

Returns(value) == pc' = "idle" /\ result' = value

\* The entry of the archive, which may hold anything: the loop starts at its
\* first block, or the call is refused when there can be no such block.
ReadEntry ==
  /\ entry' \in [size : 0 .. MaxSize, first : 0 .. BlockCount + 1]
  /\ remaining' = entry'.size /\ block' = entry'.first /\ chunk' = 0
  /\ output' = <<>> /\ padded' = FALSE
  /\ IF block' \in Blocks THEN pc' = "reading" /\ result' = "none" ELSE Returns("false")

\* (Seeded defect.) The streams are as the last call left them.
GetArchiveDataUncleared(index, archive) ==
  /\ pc = "idle"
  /\ request' = [index |-> index, archive |-> archive]
  /\ ReadEntry
  /\ UNCHANGED fileVars

\* The call: the streams are cleared and the entry is read
\* (no entry in the index file is an entry without a first block).
GetArchiveData(index, archive) ==
  /\ pc = "idle"
  /\ sound' = TRUE
  /\ request' = [index |-> index, archive |-> archive]
  /\ ReadEntry
  /\ UNCHANGED disk

\* The chain ends before the archive does.
ChainEnds ==
  /\ pc = "reading" /\ remaining > 0 /\ block = 0
  /\ Returns("false")
  /\ UNCHANGED <<fileVars, request, entry, loopVars>>

\* Reading the header at block: a header read before, any header, or, behind
\* the last whole block, none at all.
Load ==
  /\ disk' \in {[disk EXCEPT ![block] = h] : h \in Headers \cup {Missing}}
  /\ disk[block] # Unread => disk' = disk
  /\ disk'[block] = Missing => block = BlockCount

\* The stream has failed earlier, or the block lies past the end of the file.
HeaderUnreadable ==
  /\ pc = "reading" /\ remaining > 0 /\ block # 0
  /\ IF sound /\ block \in Blocks THEN Load /\ disk'[block] = Missing ELSE UNCHANGED disk
  /\ sound' = FALSE
  /\ Returns("false")
  /\ UNCHANGED <<request, entry, loopVars>>

\* (Seeded defects.) A test of the header left out.
HeaderOfChunk(header) == header.chunk = chunk
HeaderOfArchive(header) == header.archive = request.archive

\* What is checked of a header. The index it names is read, and not checked.
HeaderMatches(header) == header.archive = request.archive /\ header.chunk = chunk

\* (Seeded defect.) A header that does not match is passed over.
HeaderSkipped ==
  /\ pc = "reading" /\ remaining > 0 /\ sound /\ block \in Blocks
  /\ Load /\ disk'[block] # Missing
  /\ ~HeaderMatches(disk'[block])
  /\ block' = disk'[block].next
  /\ UNCHANGED <<sound, request, entry, pc, remaining, chunk, output, padded, result>>

HeaderWrong ==
  /\ pc = "reading" /\ remaining > 0 /\ sound /\ block \in Blocks
  /\ Load /\ disk'[block] # Missing
  /\ ~HeaderMatches(disk'[block])
  /\ Returns("false")
  /\ UNCHANGED <<sound, request, entry, loopVars>>

\* What is wanted of the block.
kBlockSize == IF remaining > kBlockLength THEN kBlockLength ELSE remaining

\* The locals for the next block.
ConfigureNext ==
  /\ remaining' = remaining - kBlockSize
  /\ block' = disk'[block].next
  /\ chunk' = (chunk + 1) % ChunkValues

\* The data of the block. The end of the file may cut it short, which nobody
\* looks at: the rest of the output is zeros and the stream has failed.
ReadBlock ==
  /\ pc = "reading" /\ remaining > 0 /\ sound /\ block \in Blocks
  /\ Load /\ disk'[block] # Missing
  /\ HeaderMatches(disk'[block])
  /\ output' = Append(output, block)
  /\ \E short \in {FALSE, block = BlockCount} : sound' = ~short /\ padded' = short
  /\ ConfigureNext
  /\ UNCHANGED <<request, entry, pc, result>>

Finish ==
  /\ pc = "reading" /\ remaining = 0
  /\ Returns("true")
  /\ UNCHANGED <<fileVars, request, entry, loopVars>>

Step == ChainEnds \/ HeaderUnreadable \/ HeaderWrong \/ ReadBlock \/ Finish

Next == (\E i \in Indexes, a \in Archives : GetArchiveData(i, a)) \/ Step

\* A call runs to its end.
Spec == Init /\ [][Next]_vars /\ WF_vars(Step)

-----------------------------------------------------------------------------
(* Properties *)

\* Blocks needed for so many bytes.
Chunks(size) == (size + kBlockLength - 1) \div kBlockLength

\* The blocks that hold an archive whose entry is e: the reference the result
\* is compared with.
IsArchive(blocks, archive, e) ==
  /\ e.first \in Blocks
  /\ Len(blocks) = Chunks(e.size)
  /\ \A n \in 1 .. Len(blocks) :
       /\ blocks[n] = IF n = 1 THEN e.first ELSE disk[blocks[n - 1]].next
       /\ disk[blocks[n]] \in Headers
       /\ disk[blocks[n]].archive = archive
       /\ disk[blocks[n]].chunk = n - 1

\* An archive that is intact is returned: a failed read, of this archive or of
\* an earlier one, is never the reason why it is not.
IntactIsReturned ==
  result = "false" /\ ~padded =>
    \A blocks \in [1 .. Chunks(entry.size) -> Blocks] :
      ~IsArchive(blocks, request.archive, entry)

\* No block is read twice in one call, so a chain that runs in a circle ends.
NoBlockTwice ==
  \A m, n \in 1 .. Len(output) : output[m] = output[n] => m = n

\* Zeros in place of data that is missing from the file can only stand at the
\* very end of what is returned.
PaddedAtEnd == padded => output # <<>> /\ output[Len(output)] = BlockCount

\* Data that is returned is the archive asked for, complete and in order,
\* whatever the files hold, but for the very end of a file cut short.
ReturnsTheArchive ==
  /\ result = "true" => IsArchive(output, request.archive, entry)
  /\ PaddedAtEnd

\* Every call returns, whatever the files hold.
CallsReturn == pc = "reading" ~> pc = "idle"
=============================================================================
