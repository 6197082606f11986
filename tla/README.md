# openrs in TLA+

openrs is a game server in C++17: one process with one thread, which plays a
tick every 600 ms. The modules in this directory describe its core as state
machines. TLC checks them on small instances (the `.cfg` files), TLAPS proves
theorems about them for every value of their constants (the `*_proofs`
modules), and `PROJECT.json` maps each definition to the lines it models.

Names follow the source: an action has the name of the function, a variable the
name of the field without its trailing underscore, a constant the `k...` name.

## 1. The system

`main` (src/openrs/src/main.cpp) initialises the managers, binds a socket and
calls `Reactor::Poll` for ever, sleeping what is left of 600 ms between calls.
An exception that leaves `Poll` ends the process.

    client --TCP--> Reactor --Read--> Session --decoder/handler--> PacketHandlers
                       |                 ^                              | events
                       |                 | Send                         v
                       +--remove_player--+------------------------ WorldManager -- World

    GrabPacketHandler --> GrabManager --> Cache --> Index --> the files of the cache

There are no threads. What interleaves is the order in which clients connect,
send, close and reset with the steps of the loop, and the order of the callbacks
of the sessions that are ready in one Poll. Inside a callback everything is a
synchronous call, events included: `EventSource` calls its sinks directly.

### Components

| Component | State | Operations | What makes it correct |
|---|---|---|---|
| Reactor, epoll set, sockets (`net/reactor.cpp`, `net/io/epoll.h`, `net/io/socket.cpp`) | `sessions_` by descriptor; `channel_map_`, whose entries epoll points to; what is registered for EPOLLIN and EPOLLOUT; `last_active_`, `buffer_output_`; the kernel's sockets and received bytes | `Poll`, `DoAccept`, `DoReadWrite`, `SessionDisconnect`, the timeout scan | The three tables and the open descriptors agree; no callback for a session that is gone; closed, reset and silent clients are let go, and buffered output is written, while every client reads |
| Session (`net/session.cpp`) | `status_`, `buffer_input_` and its position, decoder, handler and encoder, `player_index_` | `Read`, `Write`, `Send`, the setters | The three stage pointers stay in step; the position stays inside the buffer; a refused login and a disconnect are final |
| Decoders, handlers, encoders (`net/codec`) | none of their own; they change the session | one packet of a stage | Each reply has a code; logins are checked before a player exists |
| World (`game/world.h`) | `players_`: slot to player | `add_player`, `remove_player` | A slot that is handed out is empty and stays small |
| World manager (`manager/worldmanager.cpp`) | the world, `sessions_`: slot to weak session pointer | login, move and screen events, `remove_player` | Both tables agree; no player without its session; updates reach the right sessions |
| Cache files (`src/cache`) | the shared file streams; the metadata of each index | `GetArchiveData`, `PopulateIndexMetadata`, `Archive`, `ReferenceTable` | What is returned is the archive asked for, whatever the files hold; every read ends |
| Cache service (`grabpackethandler.cpp`, `grabmanager.cpp`) | the archives it loaded | handshake replies, archive requests, cut in blocks | A reply is the archive asked for; requests are not lost |
| Game objects (`game/entity.cpp`, `worldtile.cpp`, `player/*.h`) | position, map regions, graphics slots, appearance, skills | setters, packet building | Slots are filled in order; regions cover what the client sees |
| Buffers (`common/io`) | bytes and a position | get, put, seek, bit access | Positions stay inside; what is written is read back |
| Events (`common/event`) | the sinks of a source | register, emit | Every live sink gets each event once |
| Database (`src/database`) | rows of players | load, save, find | An account is stored once |
| Configuration, interface, appearance managers | none | build packets | formatting only |
| Logging, crypto helpers, vendored libraries | | | outside the server's own logic |

### What is hard about it

* One epoll_wait snapshots a batch of events, and a callback may end its session
  while others wait; the timeout scan follows and may want to end it again.
* epoll holds raw pointers into `channel_map_`; `DoAccept` can fail half way.
* Descriptor numbers and player slots are reused.
* A write to a client that does not read is tried again for ever, in the only
  thread there is (section 5).
* A login writes to the sessions of other players, who are not in their callback.
* `Read` decodes on with what is left in its buffer after a packet has changed
  the decoder or disconnected the session.
* The search for a free slot is subtle and wrong (section 5).
* The cache files are input: a chain of blocks may be cut, cross-linked or run
  in a circle, and all indexes share one stream whose error state persists.
* A reply and an update are read by a client that only has lengths, masks and
  fixed places to go by: one byte off and the rest is another message.
* An account outlives the process that may end right after it was inserted.
* Settings and the database are looked up in the middle of a login, where an
  exception ends the process for every client.

`PROJECT.json` lists each of these at its line, with the properties that cover it.

## 2. The modules

| Module | What it is | Composes or extends |
|---|---|---|
| `World` | `add_player`, `remove_player` as operators on the map | |
| `AddPlayerLoop` | the loop of `add_player`, one iteration at a time | `World`: shown to compute `SlotFor` |
| `WorldManager` | login, screen and disconnect as atomic steps on both tables | `World` |
| `Reactor` | one `Poll`: `Wait`, callbacks in any order, writes that are held up, `ScanTimeouts`; clients in between; handlers are arbitrary | |
| `Server` | the reactor whose callbacks are the world manager's operations | INSTANCE of `Reactor` and `WorldManager`, implements both |
| `Session` | `Read` packet by packet, through the four stages | |
| `Index` | `GetArchiveData`, one block at a time | |
| `Grab` | `GrabPacketHandler::Handle`, request by request and byte by byte | |
| `Startup` | from the configuration to `Poll`, and the store of checksums | |
| `Accounts` | the columns of a player, `Insert` and `Select` as operators | |
| `Login` | the world login, check by check, with accounts that survive the process | `Startup`, `Accounts` |
| `Buffer`, `BitBuffer` | the codings of integers and strings; bits and their places | |
| `Regions` | the regions around a tile | |
| `PlayerUpdate` | graphics slots, mask, blocks and appearance of one update | |
| `ReferenceTable` | the reader of an index's table of archives | |
| `Interfaces` | the packets of a login and of a change of screen, and their framing | |
| `Events` | registration, expiry and delivery | |
| `MCWorldManager`, `MCReactor`, `MCServer`, `MCLogin`, `MCCalls` | TLC instances; `MCLogin` bounds what is at fault in one behaviour; `MCCalls` runs the sequential modules, one call of one of them in each behaviour, or the world manager's calls in any order | |
| `World_proofs` | theorems about a free slot | `World`, `AddPlayerLoop` |
| `WorldManager_proofs` | theorems about the players and what they are sent | `WorldManager`, `PlayerUpdate`, `BitBuffer`, `Regions` |
| `Reactor_proofs` | theorems about the reactor and the buffers it moves | `Reactor`, `Buffer` |
| `Login_proofs` | theorems about a start, a login and what is sent after it | `Login`, `Interfaces` |
| `Server_proofs`, `Grab_proofs` | theorems | the module of their name |
| `Session_proofs` | theorems about a session and the events it causes | `Session`, `Events` |
| `Index_proofs` | theorems about the files of an index | `Index`, `ReferenceTable` |

### How they correspond to the code

**World, AddPlayerLoop.** A `std::map` is a function on the set of its keys.
`SlotFor` is the slot `add_player` inserts at: `size()` when the last key is
`size() - 1`, else the value of the loop's counter, which `index++` in the
condition has moved one past the gap. `AddPlayerLoop` runs the loop from every
table with slots up to 8 and shows that `SlotFor` is what it computes.

**WorldManager.** A player object is named by the session that logged it in,
because each login makes a new one. `Login` is everything
`HandleLoginWorld` does from `add_player` on, with the login event and the move
event it causes: both tables, the session's index, and who is sent whose display
information. `Disconnect` takes a set, because the timeout scan ends several
sessions in one step; one at a time is the case of a singleton. The packets of
`StartPlayer` go to the session itself and are in `Interfaces`. An entity moves only when it logs in: nothing else emits the event.

**Reactor.** `Wait` is `epoll_wait` and the tick before it; `ready` the batch it
returned. `DoReadWrite(fd, effect)` is the whole callback: `Read`, `Write`, then
either `SessionDisconnect` or the new interest; `effect` is what packet handlers
did: which sessions got output, and whether they disconnected this one.
`full` holds the connections whose send buffer has no room because the client
does not read; `epoll_wait` does not report those as writable. A write goes
through (`DoReadWrite`, perhaps with the last room there is) or does not
(`DoReadWriteHeldUp`): `putMessageData` then meets EAGAIN and the loop stands in
phase `"write"`, with the session in `writing` and in `ending` whether its read has
already set `kDisconnected`. `Retry` is a tick of trying again, `WriteOn` the rest of the callback
once the client has read (`ClientRead`), `HeldUpThrows` the error after a reset.
A write that is interrupted (EINTR) is the next `write` of the same action.
`DeviceFails` is the other errors of a write (no network, no memory), which can
happen at any write.
`DoReadThrows`, `DoReadWriteThrows`, `HeldUpThrows`, `DeviceFails` and
`AcceptThrows` are the exceptions that leave `Poll` and end the process
(`ProcessEnds`); `AcceptNotPolled` is the one caught on the way, when
`AddPollEvent` fails after `channel_map_` was changed. `ScanTimeouts` also drops
the last references to the sessions that ended, which closes their sockets.
`idle` counts ticks since `last_active_`. A tick is taken to be exactly 600 ms;
when a Poll takes longer, clients are cut after fewer ticks.

**Server.** A session is named by its descriptor. Each callback is a callback of
`Reactor` together with what its packets do to the world: nothing, a login, or a
screen change; a session that ends leaves the world in the same step, as
`SessionDisconnect` calls `remove_player`. A callback whose write is held up has
changed the world already; if its read ended the session, the player leaves when
`WriteOn` comes to the end of it. One callback stands for one packet
that matters. A login takes all that is left of its read, so nothing follows it,
and screen packets in one read leave the same screen; that nothing else can
matter is what `Session` shows: a session that is online is not logged in again
(`OnlineUntilClosed`), and packets behind one that disconnects do nothing to the
world (`DisconnectIsFinal`).

**Session.** The input is its size and the position in it; what a byte says is
chosen when it is read. A step decodes one packet and runs its handler. Each
decoder is the set of packets it can return, with the position it leaves;
`FailsAt` is where it leaves the position when it fails. Each handler is one or
more actions. A login's checks (CRCs, account, password) are one choice between
their outcomes here, and one after the other in `Login`; those of a handshake
likewise. `lost` records that an encoder had
no code for a reply, since `Encode` then drops the packet without a word.

**Index.** A header is chosen when its block is first read and stays, so the
files may hold anything. `sound` is the error state of the shared stream,
`padded` that `read` returned less than was asked and nobody looked. Blocks 1 to
`BlockCount - 1` are whole; behind them lies what is left of the file, perhaps
nothing, and the code accepts it as a block.

**Grab.** A packet is all requests of one read. `Current` is the request the
loop is at; each way past it is an action: `Unsupported` and `NotFound` go on,
`Logout`, `UnknownStore`, `TooShort` and `CopyFails` return, `Found` and
`SendUKeys` begin a reply, `CopyByte` and `Send` finish it. What an archive holds
is chosen when it is first read, and may be less or more than it states. Bytes of
data are numbers; `Separator` and `Header` are the bytes that are not data.

**Startup, Login, Accounts.** `Startup` goes through the phases of `main`:
configuration, database, cache, opening the indexes, populating their tables,
then serving. Each file is there or not and readable or not; a failure ends the
process as `failed` (it returns) or `aborted` (nothing catches it), and `Restart`
begins again with whatever files are then on the disk. A config.json that parses
need not be complete: `settings` are the parts of it that are there and of the right
type (a file that does not parse is replaced by the defaults, which are whole);
`keys` is the same for the config.json of the cache. `database` is whether a
query goes through, which may change at any time (`DatabaseChanges`: a file that is
locked, full or damaged). `Login` adds the accounts:
`Unreadable`, `SumsDiffer`, `Register` and `LogIn` are the ways through
`HandleLoginWorld`, `CannotDecrypt`, `DatabaseThrows`, `NowhereToStart` and `End`
in `Enter` (`EntryThrows`) the exceptions on them, each where the code looks up what it
lacks; nothing catches them. A missing key of a map is read with `[]` from a constant
object, which is undefined: `Enter` may then end the process or not.
`Kill` ends the process between any two steps. A row is
written by position and read by name; `Accounts` has the two column lists as the
source has them.

**Buffer, BitBuffer.** A coding is what it does to the bytes of a value, with the
reader the client (or the server itself) has for it. Puts, reads and
`ClearOldData` come in any order, as they do on a session's buffers. `BitBuffer` stores byte by
byte, as the loop of `PutData` does, under the programs that use it; a store past
the end is an overrun and no longer a byte. `Begin` starts a write and the loop
over the other players starts one for each (`BeginPlayer`), lowest slot first.

**Regions, PlayerUpdate, ReferenceTable, Interfaces, Events.** One step is one
round of a loop or one call. `ReferenceTable` reads a table another program wrote:
the layout (`Written`) is external and the reader is not; a table may end
anywhere. `Interfaces` sends the packets of a login and of up to two changes of
the screen one by one and keeps what a client then shows: the window, the tabs
and where they are, the components changed, and each packet's size.

## 3. What the runs check

Expected to pass:

| Run | Instance | What it shows |
|---|---|---|
| `reactor` | 2 descriptors, a timeout of two ticks, both clients may stop reading | `HandlesAgree`: sessions, epoll set, channels and open descriptors are one table; `EndedOnce`: no callback and no removal for a session that is gone; unless a client holds the loop up for ever, `ConnectionsEnd`: ended and silent clients are let go, and `OutputDrains`: the output of a client that reads is written |
| `server` | 2 descriptors, debug timeout, 1 tile, one client may stop reading | whoever is online is registered and updates go to registered sessions (`WorldIsRegistered`); silent players leave, unless a client holds the loop up for ever; every step is one of `Reactor` and one of `WorldManager`, or leaves it alone |
| `session` | 20 bytes | stages agree, replies have codes, refused logins and disconnects are final, nothing but the end of the connection disconnects a player, and the position is inside the input except as finding 4 says |
| `index` | 2 archives, 2 blocks, sizes up to 5 bytes of 2 a block | what is returned is the archive, an intact one is always returned, no block twice, zeros only at the end, every call ends |
| `grab` | 2 requests, 2 indexes, archives of up to 6 bytes, blocks of 3 | a reply is the archive asked for, whole and cut in blocks; replies keep the order of the requests, and only a request that ends the packet costs those behind it; the handler returns |
| `login` | 2 names, 2 passwords, 2 archives, 3 database modes, kills and restarts; any file missing or damaged, and beside it one setting, the keys of the maps or the database at fault | the server only serves indexes whose table it has read; accounts read back as registered, one row a name; nobody plays with another password or another cache; no login ends a process whose set-up has no fault and whose account numbers fit: an end needs a gap in the stores, a setting or a key that cannot be used, a failing database or a number above 16 bits; a start ends |
| `calls` | see below; for the world 4 sessions, 2 tiles, symmetric | both tables of the world agree (`TablesAgree`), no player without a session (`NoGhostPlayers`), slots stay below the number of sessions (`SlotsBounded`), and a slot handed out twice is the only way two players mix (`OwnPlayerUnlessCollided`); `LoopIsAddPlayer`: the loop is `SlotFor`; `ValuesComeBack`: every coding has its inverse, also when reads and clears come between the puts; `BitsStayInPlace`; `ListsTheMap`: the regions in reach, also at the edge of the world; `UpdateCanBeRead`: graphics, mask, blocks and length fit each other; `TableIsRead`: fields go to their reference; `LayoutFitsMode` and `PacketsCanBeRead`: a client shows the layout of its mode and can take the packets apart; `DeliveredInOrder` |

Expected to find a violation (section 5): `empty_slot`, `vicinity`,
`write_to_reset`, `unread_output`, `next_packets`.

Each property of a passing run has a mutant: an operator beside the one it
replaces, marked as a seeded defect, with which the same run fails.

### Bounds, and why they are enough

* **Four sessions** for the world: a shared slot needs a gap followed by two used
  slots, thus three players and a fourth to log in. Slots above are not reached,
  which `SlotsBounded` proves in general.
* **Two descriptors**: one callback can end its session while another waits, and
  a number can be reused while another session is alive. Sessions relate to each
  other only through output and the batch.
* **`SlowReaders`**: all clients of `reactor` may let their buffers fill, one of
  the two in `server`, where it can be the one online, another one, or none. The
  theorems hold for any set of them. **Two ticks** (1000 ms) stand for the timeout
  of a release build (`reactor`), so that time passes while a write is held up and a
  session is a tick short of it; the debug build's 500 ms is one (`server`).
* **`MaxBacklog` = 1, `MaxUnread` = 1**: only one connection is accepted per
  Poll, and a callback reads once; what remains is there for the next tick just
  as what is sent anew.
* **20 bytes of input**: a handshake takes 10, a cache request 6; `LoginSize` =
  16 stands for the least real login, which is longer, with everything in between
  decided the same way. The theorems hold for all sizes.
* **Two requests in a packet**: one that fails and one behind it, and a part of a
  third is the end of the packet. **Blocks of 3 bytes, a header of 2**, stand for
  512 and 10: archives of 0 to 6 bytes end before, at and behind a separator.
  `kMaxTypes` = 0 stands for 255, so that too many indexes occur, `kSizes` = 6
  for 2^32, where the bytes to copy wrap for the longest compressed archive. The
  theorems hold for all sizes.
* **Login**: `kCounter` = 4 stands for the 65536 values of the counter over the
  index files, `kMaxSums` = 2 for 32 sums in a login block, `kMaxId` = 1 for 65535:
  each with an instance on both sides. `MaxFaults` = 1: what else can be at fault
  when the process starts (a setting, the keys of the maps, the database) occurs one
  at a time, beside any combination of files; two faults only mean that the one a
  login comes to first ends it. The theorems have no such bound. Two names and two passwords are one account
  and somebody else's.
* **calls**: tables with slots up to 8 (a gap, a used slot behind it, more than
  one of each); values of 2 and 4 bytes at the borders of each coding; 3 slots
  for 2046, with widths of 30 and 18 bits as they are, so that the buffer's last
  slot and the first behind it occur; chunks 0 to 9 and 355 with the five real map
  sizes; graphics 7, 8, 9, 200 and 188, which the constructor sets; names of 214
  and 215 characters, of 159 and 160, where a length byte wraps; protocols 4 to 8,
  3 ids that wrap at 8 (2^32), digests of 2 fields (16), every truncation; all four
  display modes with two changes of the screen and the real numbers of interfaces
  and tabs; 4 registrations of 2 sinks.
* **Two blocks and three chunk numbers**: a circle of two, a chain that leaves
  for another archive, one that ends early, one that goes past the file, and a
  size that needs more blocks than there are. The theorems hold for all sizes.

No run turns deadlock checking off. Where the system has stopped (main has
returned, a session has ended, a call of `calls` is over) there is an action that
says so and stutters; anywhere else a step is possible.

### Fairness

`Reactor` and `Server` assume weak fairness of the loop as a whole, because
`main` calls `Poll` until an exception leaves it. That is the fairness of a thread
that keeps running, and no more: a callback need not end, since one step of the
loop may be to try a write again (`Retry`), and the client whose reading it waits
for owes none (`ClientRead` has no fairness). So a client that stays connected and
does not read can hold up everything for ever: `Stalled` says that it does,
`ConnectionsEnd`, `OutputDrains` and `SilentPlayersLeave` hold unless `<>[]Stalled`,
and `unread_output` shows that this happens. A callback that is not held up needs no fairness of
its own: every other step of a Poll consumes an event of a finite batch. Clients
owe nothing else either; `ConnectionsEnd` is about those that send no more, no device
has to fail, and
a property that waits for a client says `phase = "exit"` too, because the process
may end. `Index` and `Grab` assume that a call runs on, and `Login` that a start
does: nothing in them waits for anybody.

## 4. What is proved

TLAPS checks these for every value of the constants that satisfies the
assumptions named in the modules.

### The world and its sessions

* **World_proofs.** `FirstGapExists`: the search has a gap to find, at most at
  the size of the table. `SlotForBound`: the slot handed out is never above the
  size. Both rest on the least element of a set of naturals and on cardinality.
  `LoopIsAlwaysAddPlayer`: the loop ends with `SlotFor` for tables of any size.
  The invariant says that the keys below the counter are all used and those from
  it on are still to come, so that the first key that differs from the counter
  leaves the least number missing behind.
* **WorldManager_proofs**, the tables. `SessionsAssumption`: finitely many
  sessions. `TypeCorrect`; `TablesAlwaysAgree` (both tables change by the same
  function of equal tables); `NeverGhostPlayers`, inductive with the types. Its
  converse is false after a slot was handed out twice, so nothing may rest on it.
  `SlotsAlwaysBounded`: by `NoGhostPlayers` the players of the table map one to
  one into the sessions that are online, the session about to log in is not among
  them (`RoomForOneMore`), and a new slot is at most the size of the table.
  `OwnPlayerAlways`: as long as no slot was handed out twice the converse holds
  as well; it is inductive by itself, since erasing the slots of some sessions
  then cannot touch the slot of another.
* **Reactor_proofs.** `IInv` is the types, `HandlesAgree`, `EndedOnce` and that a
  registered session holds its descriptor; one lemma for each step of a Poll. What
  makes it inductive is that an event waits for registered sessions only: whoever
  leaves the tables in a callback has no other event in the batch. A session whose
  write is held up is registered, with no event left, until its callback goes on (`HeldInv`).
* **Server_proofs.** The half of the reactor it needs (`NetInv`), the half of the
  world (`WorldInv`: both tables equal and finite, every player's session has its
  slot) and `OnlineAreRegistered` are inductive together. Theorems:
  `WorldAlwaysRegistered`, and two refinements for any number of clients:
  `ServerImplementsWorldManager`, and `ServerImplementsReactor`: a server
  starts as a reactor does and makes none but its steps. `None` may be anything but
  a number.
* **Session_proofs**, a session. `IInv` is the types, `~lost` and `StageInv`: the
  three pointers name one stage, except after a refused login; online means the
  handler of the world; a session that reads while disconnected is in the first
  two stages. The last part is what makes a disconnect final. `PositionInv`
  adds where the position can be when GrabDecoder runs. Theorems: all properties
  of the run except its type invariant, which is a part of `IInv`.
* **Session_proofs**, events. `EventsAreDelivered`: whatever the order of
  registrations and expiries, each delivery goes to a later registration than the
  one before it, only the last can have been the one that handled the event, and a
  registration is passed over only when its sink is gone or an earlier one
  handled the event. `EventsInv` says it for the registrations before the
  current one, which is what a round of the loop can keep.

### What is sent

* **WorldManager_proofs**, an update. `UpdatesCanBeRead`: graphics fill their
  slots in order, the mask announces exactly the blocks that follow and the
  appearance is as long as its length byte says. `UpdateInv` is `GraphicsPacked`
  and that an appearance is only sent as `GetPlayerAppearance` makes it. The sum
  of the flags is compared with the count of blocks of each bit, block after block
  (`CountConcat`). `GraphicAssumption`: graphics are sixteen bits and 0 is none.
* **WorldManager_proofs**, its bits. `BitsAreInPlace`: every bit of every write is
  where its value belongs, nothing else is set, and nothing is stored past the end
  unless there are as many players as `OverrunNeedsManyPlayers` says. `BitInv`
  counts the bits the loop of `PutData` has still to store (`LoopIsAtRest`), keeps
  the writes apart (`WritesAscend`), and relates the contents to the writes
  both ways (`DoneIsStored`, `StoredIsDone`). The second way needs the program as
  well: an update leaves room for the players the loop has not come to
  (`WritesAnUpdate`), and a move takes less than a byte (`WritesAMove`). The widths
  of 30 and 18 bits are those of the code, the number of slots is any number.
* **WorldManager_proofs**, the map. `MapsAreListed`: the list of a fixed map names
  each region in reach once; that of a dynamic map has an entry for every chunk of
  four planes, and the keys sent with it are those of the regions of its chunks. `RegionsInv` states it for the
  columns passed: which is a bijection with what is listed in one case
  (`ColumnsListed`), and a product that counts the entries in the other
  (`ChunksListed`). `RegionsAssumption`: the last chunk in reach has a number of
  ten bits, since that is what an entry has room for.
* **Reactor_proofs**, the buffers. `ValuesAlwaysComeBack`: each coding has its
  inverse for every value of its width, every text without the two bytes that end
  one, and puts, reads and clears in any order. `BufferInv` says that the bytes
  from the position on are the codings of the values put and not yet taken, one
  behind another, which is what `Laid` states with the place of each;
  `LaidByPut`, `LaidByGet` and `LaidByClear` keep it. The lemmas before them are
  the arithmetic of the codings: that two or four bytes make up their value
  (`BytesAddUp`), that the bits of an octet do, and that a shift is undone.
  `BufferAssumption`: values are below 2^16 and 2^32 and a text has none of the two
  bytes that end one. `PutSmartBE` is only claimed below 32768, from where on a
  value would read as a shorter one.
* **Login_proofs**, the interfaces. `LayoutAlwaysFitsMode` and
  `PacketsAlwaysReadable`: for any number of changes of the screen, any name and
  any regions. A list of packets `Builds` when it consists of readable packets,
  fills slots of its pane only, and fills or changes nothing but what is open in
  front of it; such lists can follow one another (`BuildsBoth`), and a list that
  needs something open can follow one that opened it (`BuildsWith`). So each
  tab, each layout and the rest of a login is shown to build, part by part. The
  invariant `WireInv` says of what is still to go out that it begins with a map or
  a pane, or builds on what the client has open (`Pending`), and of what
  has gone out that it is in the layout of the window and was readable
  (`WireShape`). The layout alone is not inductive: that a tab finds its frame
  open depends on the order of the packets not sent yet. No slot of a
  pane occurs twice in its layout (`SlotsOnce`), and the code of a packet is its
  type's alone (`CodesDiffer`). `InterfacesAssumption`: a map reaches over at most 256
  regions, and the first message of a login is no longer than the second, which
  has a longer text around the same name of the server.
* **Grab_proofs.** `IInv` relates the requests done with to the replies, the
  archive being copied to the one asked for, and what has been copied to `IsCut`.
  `CutGrows` is the arithmetic: a byte more, behind a separator where the length
  is a multiple of a block, keeps every byte where `IsCut` wants it.
  `ContentsStay`: what was read of an archive does not change below a reply.
  Theorems: both safety properties of the run, for blocks of any length greater
  than the header, and packets and archives of any size.

### What is stored

* **Index_proofs**, the blocks. `IInv` is the types, `Chain` (the output is the
  chain from the entry, under the headers read so far), `Progress` (what remains
  is the size less the whole blocks read, and the chunk is their number, which
  needs `MaxSize <= kBlockLength * ChunkValues`, true of 24-bit sizes and 16-bit
  chunks) and `Streams`. Theorems: every safety property of the run, among them
  that an intact archive is always returned: two chains from one block through
  the same headers agree, by the least place where they would differ.
* **Index_proofs**, the table. `TablesAreRead`: a table that may end anywhere is
  read field by field, each to the reference it was written for.
  `FieldIsWritten` gives the field at each place of `Written`, and the invariant
  `TableInv` says that the number of fields read is the place of the current phase
  and entry; digests do not move it, so it says nothing of a table that has them
  beyond its names.
* **Login_proofs.** `IInv` is four parts. `StartInv`: what is open and described in
  each phase of a start. `RowsInv`: the rows and the accounts registered are the
  same, one row a name, numbered in their order; without it neither "one row" nor
  "the password of that row" is inductive, since both are about what a later
  `Select` finds. `PlayerInv`: whoever plays an account with a number has its
  password and the checksums of all stores. And the replies. `ReadAsWritten`: the
  two lists of columns, by position and by name, undo each other. Theorems, for any
  set of names and passwords, any cache and any number of kills and restarts:
  `LoginTypeOK`, `ServingIsComplete`, `AccountsAreKept`, `OnlyOwnersPlay` and the
  action property `OnlySetupEverStops`: each exception on the way of a login is
  put down to what was not set up as it should be, for any combination of
  settings, keys, files and failures of the database at any time.

The type invariants of `WorldManager`, `Session`, `Index` and `Reactor` are proved
and no longer run; that of `Login` is proved and run.

### What is only model-checked

* Liveness: `ConnectionsEnd`, `OutputDrains`, `SilentPlayersLeave`, that calls and
  starts end (`CallsReturn`, `HandleReturns`, `StartEnds`). A proof would need the
  fairness of a disjunction and with it ENABLED.

Every invariant and every action property of the runs is proved. What recursive
definitions compute for every input would need induction over data, so the modules
with theorems have none.

## 5. Where code and documentation part

1. `empty_slot`: world.h:73 says an empty slot is found. The loop's counter is
   one past the gap when it stops; if that slot is used, `insert` keeps the old
   player, both sessions share an index, and the first disconnect removes the
   other's player.
2. `vicinity`: worldmanager.h:99 says every player nearby receives the display
   information of an entity. Each receiver gets the appearance of its own player.
3. `write_to_reset`: socket.cpp:134 calls EPIPE and ECONNRESET a programming bug.
   A client that resets its connection while output waits causes one, and the
   process ends.
4. `next_packets`: packethandler.cpp:68 makes sure the next packets are handled.
   `GrabDecoder` copies the buffer from its beginning and not from the position,
   so a request in the same read as the handshake pushes the position past the
   end, `remaining()` wraps around and `at()` throws.
5. `unread_output`: socket.cpp:151 calls EAGAIN a temporary error and retries at
   once. The socket does not block, so a client that stays connected and does not
   read keeps the only thread in `putMessageData`: no other session is served, and
   the timeout that would cut this client is not looked for.

Met on the way, and stated nowhere as a promise, so not findings: packets split
by TCP are decoded as new packets once their first part has failed, and a login
in two pieces leaves the session without a second try; a client whose bytes never
decode makes `buffer_input_` grow; Index validates the header of a block, but the
index it names (index.cpp:110) is read and never compared; the token of the handshake is read and not
compared; `GrabPacketHandler` drops a request cut by the end of a read; account
identifiers above 65535 make a login throw; output that another player's login
causes waits until that client sends something or is cut; the skin colour of a
player is kept in `colour_shoes`; a table with digests gives every archive the
first digest, and one of protocol 5 ends the start by a null pointer; with a gap
in the numbers of the index files each login ends the process; a missing
config.json of the cache is noticed at the first login only, and so is a setting
that is missing from config.json (`login`, `starting_location`, `server`): the login
that needs it ends the process; an exception of the database during a login ends it
too; a user name of 160
characters makes a message of the login longer than its length byte can say;
`HandleEvent(EventEntityMove)` gives the receiver its own appearance (finding 2);
one configuration value (823) stays 1 after a change to the fixed screen; under a
database mode other than the two it knows the server registers each login anew.

## 6. Not modelled

* Decompression in `Archive`, encryption, the parsing of JSON and the SQL text: the
  vendored libraries do them. A file, a block or a login is readable or not, a
  setting can be used or not.
* `Session` and `Grab` take the settings of the cache service (`grab.keys`,
  `grab.private_exponent`, `grab.modulus`) to be usable; one that is missing ends the process
  at the first request that needs it, as those of a login do in `Login`. A `starting_location` of fewer
  than three numbers is read past its end and not modelled.
* I/O errors of the file streams (`bad()`), signals, logging.
* `FileStore`, an older copy of `Index`; npcs; `Model::Update`; the arithmetic of
  skills; the senders of overlays, music, dungeon tabs, dynamic regions and
  component animations: nothing in the program calls them. (The function that lists
  dynamic regions is in `Regions`; the sender cuts each entry
  to 18 bits.)
* Several connections logged in to one account at once: `Login` follows one player
  at a time, and nothing in the handler looks for another.
* The setters of movement and further graphics have no caller yet;
  `PlayerUpdate` calls them in any order.
* The time a Poll takes: a tick is 600 ms.

## 7. What is left

Every component has its module. Worth adding with the code: an entity that moves
after its login would make `WorldManager` and `PlayerUpdate` meet, and a caller of
`Save` would add the update of a row to `Login`. What the proofs leave is the
liveness named in section 4.
