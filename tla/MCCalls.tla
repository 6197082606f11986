------------------------------ MODULE MCCalls ------------------------------
(***************************************************************************)
(* The calls that one thread makes without being interrupted, each of them *)
(* chosen in the first state and run to its end: the search for a slot, a  *)
(* buffer and a bit buffer in use, the regions of a map, the update of a   *)
(* player, the table of an index, a player's packets, and an event; and    *)
(* the calls of the world manager, one after another.                      *)
(***************************************************************************)
EXTENDS MCWorldManager, AddPlayerLoop, Buffer, BitBuffer, Regions, PlayerUpdate, ReferenceTable, Interfaces, Events

Values2Def == {0, 1, 127, 128, 129, 255, 256, 12345, 32767, 65407, 65535}
Values4Def == {0, 255, 65535, 16777215, 16909060, 2147483647}
TextsDef == {<<>>, <<65>>, <<65, 66>>}

VARIABLE part   \* the call that is made

parts == <<loopVars, bufferVars, bitVars, regionVars, updateVars, tableVars, wireVars, eventVars, vars>>

\* What the others are meanwhile: calls that are not made.
NoLoop == used = {} /\ unvisited = {} /\ counter = 0 /\ pc = "done"
NoBits ==
  /\ others = {} /\ bits = <<>> /\ bitPosition = 0 /\ program = <<>> /\ unplaced = {} /\ written = <<>>
  /\ left = 0 /\ byte = 0 /\ offset = 0 /\ overrun = FALSE
NoRegions ==
  /\ chunkX = 0 /\ chunkY = 0 /\ mapSize = 0 /\ dynamic = FALSE
  /\ plane = 0 /\ x = 0 /\ output = <<>> /\ real = {}
NoUpdate == graphics = [i \in 0 .. 3 |-> 0] /\ username = 0 /\ faces = TRUE /\ moving = TRUE /\ blocks = <<>>
NoTable ==
  /\ table = [protocol |-> 0, named |-> FALSE, whirlpooled |-> FALSE, deltas |-> <<>>]
  /\ held = 0 /\ fields_read = 0 /\ ids = <<>> /\ largest_archive_id = 0 /\ filled = 0
  /\ archive_references = NoReferences /\ phase = "refused"
NoWire ==
  /\ display_mode = 0 /\ nameLength = 0 /\ todo = <<>> /\ screens = 0
  /\ window = kFixedPane /\ tabs = {} /\ touched = {} /\ configs = {} /\ sizes = {}

CallsInit ==
  \/ part = "loop" /\ LoopInit /\ BufferInit /\ NoBits /\ NoRegions /\ NoUpdate /\ NoTable /\ NoWire /\ EventsInit /\ Init
  \/ part = "buffer" /\ NoLoop /\ BufferInit /\ NoBits /\ NoRegions /\ NoUpdate /\ NoTable /\ NoWire /\ EventsInit /\ Init
  \/ part = "bits" /\ NoLoop /\ BufferInit /\ BitInit /\ NoRegions /\ NoUpdate /\ NoTable /\ NoWire /\ EventsInit /\ Init
  \/ part = "regions" /\ NoLoop /\ BufferInit /\ NoBits /\ RegionsInit /\ NoUpdate /\ NoTable /\ NoWire /\ EventsInit /\ Init
  \/ part = "update" /\ NoLoop /\ BufferInit /\ NoBits /\ NoRegions /\ UpdateInit /\ NoTable /\ NoWire /\ EventsInit /\ Init
  \/ part = "table" /\ NoLoop /\ BufferInit /\ NoBits /\ NoRegions /\ NoUpdate /\ TableInit /\ NoWire /\ EventsInit /\ Init
  \/ part = "wire" /\ NoLoop /\ BufferInit /\ NoBits /\ NoRegions /\ NoUpdate /\ NoTable /\ WireInit /\ EventsInit /\ Init
  \/ part = "events" /\ NoLoop /\ BufferInit /\ NoBits /\ NoRegions /\ NoUpdate /\ NoTable /\ NoWire /\ EventsInit /\ Init
  \/ part = "world" /\ NoLoop /\ BufferInit /\ NoBits /\ NoRegions /\ NoUpdate /\ NoTable /\ NoWire /\ EventsInit /\ Init

\* The calls that have come to their end; the rest can always be called again.
Ended ==
  \/ part = "loop" /\ pc = "done"
  \/ part = "buffer" /\ taken # <<>> /\ Len(taken) = Len(puts) /\ position = 0
  \/ part = "bits" /\ (overrun \/ (left = 0 /\ program = <<>> /\ unplaced = {}))
  \/ part = "regions" /\ IF dynamic THEN plane = 4 ELSE x > Highest(chunkX, mapSize, 8)
  \/ part = "table" /\ phase \in {"done", "refused", "crashed"}
  \/ part = "wire" /\ todo = <<>> /\ screens = MaxScreens

CallEnded == Ended /\ UNCHANGED <<part, parts>>

CallsNext ==
  \/ CallEnded
  \/ part = "loop" /\ LoopNext /\ UNCHANGED <<part, bufferVars, bitVars, regionVars, updateVars, tableVars, wireVars, eventVars, vars>>
  \/ part = "buffer" /\ BufferNext /\ UNCHANGED <<part, loopVars, bitVars, regionVars, updateVars, tableVars, wireVars, eventVars, vars>>
  \/ part = "bits" /\ BitNext /\ UNCHANGED <<part, loopVars, bufferVars, regionVars, updateVars, tableVars, wireVars, eventVars, vars>>
  \/ part = "regions" /\ RegionsNext /\ UNCHANGED <<part, loopVars, bufferVars, bitVars, updateVars, tableVars, wireVars, eventVars, vars>>
  \/ part = "update" /\ UpdateNext /\ UNCHANGED <<part, loopVars, bufferVars, bitVars, regionVars, tableVars, wireVars, eventVars, vars>>
  \/ part = "table" /\ TableNext /\ UNCHANGED <<part, loopVars, bufferVars, bitVars, regionVars, updateVars, wireVars, eventVars, vars>>
  \/ part = "wire" /\ WireNext /\ UNCHANGED <<part, loopVars, bufferVars, bitVars, regionVars, updateVars, tableVars, eventVars, vars>>
  \/ part = "events" /\ EventsNext /\ UNCHANGED <<part, loopVars, bufferVars, bitVars, regionVars, updateVars, tableVars, wireVars, vars>>
  \/ part = "world" /\ Next /\ UNCHANGED <<part, loopVars, bufferVars, bitVars, regionVars, updateVars, tableVars, wireVars, eventVars>>

CallsSpec == CallsInit /\ [][CallsNext]_<<part, parts>>
=============================================================================
