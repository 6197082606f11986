------------------------------ MODULE Reactor ------------------------------
(***************************************************************************)
(* The reactor (src/openrs/src/net/reactor.cpp), its epoll set             *)
(* (include/openrs/net/io/epoll.h) and the sockets under it, run by the    *)
(* single-threaded tick loop of main.cpp.  One iteration of the loop is    *)
(*    Wait; (DoAccept | DoReadWrite)*; ScanTimeouts                        *)
(* and the clients act at any time in between.  What a packet handler does *)
(* inside Session::Read is the parameter effect of DoReadWrite: the        *)
(* sessions it appends output to, and whether it sets kDisconnected.       *)
(* A write to a client that does not read is tried again until it goes     *)
(* through (socket.cpp:146-153); until then the loop stands still in phase *)
(* "write" (DoReadWriteHeldUp, Retry, WriteOn).                            *)
(***************************************************************************)
EXTENDS Naturals, FiniteSets

CONSTANTS
  Fds,              \* the descriptor numbers the process can give to clients
  PeerEnds,         \* how a client can end a connection: {"fin", "rst"}
  kTickRate,        \* milliseconds from one Poll to the next
  kDefaultTimeout,  \* milliseconds of inactivity after which a client is cut
  SlowReaders,      \* bound: the descriptors whose clients may let their buffers fill
  MaxBacklog,       \* bound: connections waiting to be accepted
  MaxUnread         \* bound: reads' worth of received bytes per descriptor

ASSUME ReactorAssumption ==
  /\ PeerEnds \subseteq {"fin", "rst"}
  /\ kTickRate \in Nat \ {0} /\ kDefaultTimeout \in Nat
  /\ SlowReaders \subseteq Fds
  /\ MaxBacklog \in Nat /\ MaxUnread \in Nat

VARIABLES
  \* the kernel's side
  backlog,      \* connections waiting in the listening socket's queue
  peer,         \* the client's end of each descriptor, "none" if not in use
  unread,       \* received bytes, in reads of up to kReadSize = 1024 bytes
  full,         \* connections whose send buffer has no room: the client does not read
  interest,     \* the epoll set: events each descriptor is registered for
  \* the process's side
  channels,     \* EPoll::channel_map_ without the listening socket
  sessions,     \* Reactor::sessions_, by descriptor
  output,       \* sessions whose buffer_output_ is not empty
  idle,         \* ticks since last_active_, counted up to the timeout
  \* the loop
  phase,        \* "sleep": in usleep; "poll": in Poll; "write": in putMessageData,
                \* which tries again and again; "exit": the process has ended
  writing,      \* the session whose write is held up, if any
  ending,       \* whether its read has set kDisconnected already
  ready,        \* the events of this epoll_wait not handled yet
  accepting,    \* the listening socket is among them
  fault         \* the exception that left Poll, if any

netVars == <<backlog, peer, unread, full>>
objVars == <<interest, channels, sessions, output, idle>>
heldVars == <<writing, ending>>
loopVars == <<phase, heldVars, ready, accepting, fault>>
reactorVars == <<netVars, objVars, loopVars>>

Open == {fd \in Fds : peer[fd] # "none"}

TypeOK ==
  /\ backlog \in 0 .. MaxBacklog
  /\ peer \in [Fds -> {"none", "open", "fin", "rst"}]
  /\ unread \in [Fds -> 0 .. MaxUnread]
  /\ full \in SUBSET Fds
  /\ interest \in [Fds -> SUBSET {"in", "out"}]
  /\ channels \in SUBSET Fds
  /\ sessions \in SUBSET Fds
  /\ output \in SUBSET Fds
  /\ idle \in [Fds -> Nat]
  /\ phase \in {"sleep", "poll", "write", "exit"}
  /\ writing \in SUBSET Fds
  /\ ending \in BOOLEAN
  /\ ready \in [Fds -> SUBSET {"in", "out"}]
  /\ accepting \in BOOLEAN
  /\ fault \in {"none", "accept", "read", "write", "device", "epoll_del"}

Init ==
  /\ backlog = 0
  /\ peer = [fd \in Fds |-> "none"]
  /\ unread = [fd \in Fds |-> 0]
  /\ full = {}
  /\ interest = [fd \in Fds |-> {}]
  /\ channels = {} /\ sessions = {} /\ output = {}
  /\ idle = [fd \in Fds |-> 0]
  /\ phase = "sleep"
  /\ writing = {} /\ ending = FALSE
  /\ ready = [fd \in Fds |-> {}]
  /\ accepting = FALSE
  /\ fault = "none"

-----------------------------------------------------------------------------
(* Clients *)

Connect ==
  /\ phase # "exit"
  /\ backlog < MaxBacklog
  /\ backlog' = backlog + 1
  /\ UNCHANGED <<peer, unread, full, objVars, loopVars>>

ClientSend(fd) ==
  /\ phase # "exit"
  /\ peer[fd] = "open" /\ unread[fd] < MaxUnread
  /\ unread' = [unread EXCEPT ![fd] = @ + 1]
  /\ UNCHANGED <<backlog, peer, full, objVars, loopVars>>

ClientEnd(fd, end) ==
  /\ phase # "exit"
  /\ peer[fd] = "open" \/ (peer[fd] = "fin" /\ end = "rst")
  /\ peer' = [peer EXCEPT ![fd] = end]
  /\ UNCHANGED <<backlog, unread, full, objVars, loopVars>>

\* The client reads what it was sent, and the send buffer has room again; a read
\* that does not make enough of it changes nothing here.
ClientRead(fd) ==
  /\ phase # "exit"
  /\ peer[fd] \in {"open", "fin"} /\ fd \in full
  /\ full' = full \ {fd}
  /\ UNCHANGED <<backlog, peer, unread, objVars, loopVars>>

Client ==
  \/ Connect
  \/ \E fd \in Fds : ClientSend(fd)
  \/ \E fd \in Fds, end \in PeerEnds : ClientEnd(fd, end)
  \/ \E fd \in Fds : ClientRead(fd)

-----------------------------------------------------------------------------
(* The loop *)

Readable(fd) == unread[fd] > 0 \/ peer[fd] \in {"fin", "rst"}

Writable(fd) == fd \notin full \/ peer[fd] = "rst"

\* Whether so many ticks of inactivity cut a session; it is not counted further.
Expired(ticks) == ticks * kTickRate >= kDefaultTimeout

\* last_active_ of every session, a tick later.
Aged == [fd \in Fds |-> IF fd \in sessions /\ ~Expired(idle[fd])
                        THEN idle[fd] + 1 ELSE idle[fd]]

\* epoll_wait, a tick after the last one: it snapshots which registered
\* descriptors are readable, or writable (a socket's send buffer has room).
Wait ==
  /\ phase = "sleep"
  /\ phase' = "poll"
  /\ idle' = Aged
  /\ ready' = [fd \in Fds |->
                 {e \in interest[fd] : IF e = "in" THEN Readable(fd) ELSE Writable(fd)}]
  /\ accepting' = (backlog > 0)
  /\ UNCHANGED <<netVars, interest, channels, sessions, output, heldVars, fault>>

\* An exception leaves Poll. main.cpp returns if it is a runtime_error, and the
\* process is terminated if not: either way the callback it left is gone, the other
\* events too, and the kernel closes the sockets.
ProcessEnds(why) ==
  /\ phase' = "exit" /\ fault' = why
  /\ backlog' = 0 /\ full' = {}
  /\ peer' = [fd \in Fds |-> "none"]
  /\ unread' = [fd \in Fds |-> 0]
  /\ ready' = [fd \in Fds |-> {}]
  /\ accepting' = FALSE /\ writing' = {} /\ ending' = FALSE
  /\ UNCHANGED objVars

\* DoAccept throws when accept() finds no free descriptor and when the client
\* is already gone.
AcceptThrows ==
  /\ phase = "poll" /\ accepting
  /\ Open = Fds \/ "rst" \in PeerEnds
  /\ ProcessEnds("accept")

\* Seeded defect: the failure empties channel_map_.
AcceptNotPolledClears(fd) ==
  /\ phase = "poll" /\ accepting
  /\ fd \notin Open /\ fd \notin sessions
  /\ backlog' = backlog - 1
  /\ accepting' = FALSE
  /\ channels' = {}
  /\ UNCHANGED <<peer, unread, full, interest, sessions, output, idle, phase, heldVars, ready, fault>>

\* DoAccept when AddPollEvent fails: the channel stays in channel_map_ and the
\* socket is closed on return.
AcceptNotPolled(fd) ==
  /\ phase = "poll" /\ accepting
  /\ fd \notin Open /\ fd \notin sessions
  /\ backlog' = backlog - 1
  /\ accepting' = FALSE
  /\ channels' = channels \cup {fd}
  /\ UNCHANGED <<peer, unread, full, interest, sessions, output, idle, phase, heldVars, ready, fault>>

\* DoAccept: the client may have sent data or closed its end by now.
DoAccept(fd) ==
  /\ phase = "poll" /\ accepting
  /\ fd \notin Open
  /\ backlog' = backlog - 1
  /\ accepting' = FALSE
  /\ IF fd \in sessions
     THEN UNCHANGED <<peer, unread, interest, channels, sessions, output, idle>>
     ELSE /\ \E end \in {"open"} \cup (PeerEnds \ {"rst"}) :
               peer' = [peer EXCEPT ![fd] = end]
          /\ \E sent \in 0 .. MaxUnread : unread' = [unread EXCEPT ![fd] = sent]
          /\ channels' = channels \cup {fd}
          /\ interest' = [interest EXCEPT ![fd] = {"in"}]
          /\ sessions' = sessions \cup {fd}
          /\ idle' = [idle EXCEPT ![fd] = 0]
          /\ UNCHANGED output
  /\ UNCHANGED <<full, phase, heldVars, ready, fault>>

\* Seeded defect: every inactive session is erased along with those that ended.
SessionDisconnectSweeps(S, next) ==
  /\ channels' = channels \ S
  /\ sessions' = {fd \in sessions \ S : idle[fd] = 0}
  /\ phase' = next /\ UNCHANGED fault

\* SessionDisconnect for the sessions in S; the loop then continues in phase
\* next. RemovePollEvent erases the channel first and throws if the kernel
\* does not know the descriptor.
SessionDisconnect(S, next) ==
  /\ channels' = channels \ S
  /\ IF \A fd \in S : interest[fd] # {}
     THEN sessions' = sessions \ S /\ phase' = next /\ UNCHANGED fault
     ELSE UNCHANGED sessions /\ phase' = "exit" /\ fault' = "epoll_del"

\* The effect of handling what was read: who gets output, and whether its
\* handler disconnects the reading session.
Effects == [sends : SUBSET Fds, disconnect : BOOLEAN]

ReadsData(fd) == "in" \in ready[fd] /\ unread[fd] > 0

\* Read returned 0 or -1: the client closed or reset the connection.
ReadsEnd(fd) == "in" \in ready[fd] /\ unread[fd] = 0

\* getMessageData refreshes last_active_ unless its first read fails.
ReadRefreshes(fd) ==
  "in" \in ready[fd] /\ (unread[fd] > 0 \/ peer[fd] = "fin")

\* Seeded defect: a read of 0 bytes is taken for an empty packet.
EndsOnlyByHandler(fd, effect) == ReadsData(fd) /\ effect.disconnect

\* Whether this callback disconnects the session, given its handler's verdict.
Ends(fd, effect) == ReadsEnd(fd) \/ (ReadsData(fd) /\ effect.disconnect)

OutputAfterRead(fd, effect) ==
  IF ReadsData(fd) THEN output \cup (effect.sends \cap sessions) ELSE output

\* A decoder or a handler throws: whatever it did before ends with the process.
DoReadThrows(fd) ==
  /\ phase = "poll" /\ ReadsData(fd)
  /\ ProcessEnds("read")

\* The callback comes to Session::Write with something to write.
Writes(fd, effect) == "out" \in ready[fd] /\ fd \in OutputAfterRead(fd, effect)

\* write() on a connection the client has reset: the error leaves the loop.
DoReadWriteThrows(fd, effect) ==
  /\ phase = "poll" /\ Writes(fd, effect)
  /\ peer[fd] = "rst" /\ ProcessEnds("write")

\* The end of a callback whose session has ended, or not: SessionDisconnect, or
\* EPOLLOUT is asked for while there is output left.
Finish(fd, ended, wrote) ==
  IF ended
  THEN /\ SessionDisconnect({fd}, "poll")
       /\ interest' = [interest EXCEPT ![fd] = {}]
  ELSE /\ interest' = [interest EXCEPT ![fd] =
                         IF fd \in output' THEN {"in", "out"} ELSE IF wrote THEN {"in"} ELSE @]
       /\ phase' = "poll"
       /\ UNCHANGED <<channels, sessions, fault>>

UnreadAfterRead(fd) ==
  [unread EXCEPT ![fd] = IF ReadsData(fd) THEN @ - 1 ELSE @]

\* Read, then Write where it goes through, be it with the last room in the send
\* buffer, then Finish.
DoReadWrite(fd, effect) ==
  LET writes == Writes(fd, effect)
  IN /\ phase = "poll" /\ ready[fd] # {}
     /\ ~(writes /\ peer[fd] = "rst")
     /\ unread' = UnreadAfterRead(fd)
     /\ output' = OutputAfterRead(fd, effect) \ {f \in {fd} : writes}
     /\ \E filled \in SUBSET {f \in {fd} \cap SlowReaders : writes} : full' = full \cup filled
     /\ idle' = [idle EXCEPT ![fd] = IF ReadRefreshes(fd) \/ writes THEN 0 ELSE @]
     /\ ready' = [ready EXCEPT ![fd] = {}]
     /\ Finish(fd, Ends(fd, effect), "out" \in ready[fd])
     /\ UNCHANGED <<backlog, peer, heldVars, accepting>>

\* Read, then Write of more than there is room for: the callback does not return.
DoReadWriteHeldUp(fd, effect) ==
  /\ phase = "poll" /\ Writes(fd, effect)
  /\ peer[fd] # "rst" /\ fd \in SlowReaders
  /\ phase' = "write" /\ writing' = {fd} /\ ending' = Ends(fd, effect)
  /\ unread' = UnreadAfterRead(fd)
  /\ output' = OutputAfterRead(fd, effect)
  /\ full' = full \cup {fd}
  /\ idle' = [idle EXCEPT ![fd] = IF ReadRefreshes(fd) THEN 0 ELSE @]
  /\ ready' = [ready EXCEPT ![fd] = {}]
  /\ UNCHANGED <<backlog, peer, interest, channels, sessions, accepting, fault>>

\* EAGAIN, again and again for a tick: no other session is served and no timeout
\* looked for. The time passes all the same.
Retry ==
  /\ phase = "write" /\ \A fd \in writing : ~Writable(fd)
  /\ idle' = Aged
  /\ UNCHANGED <<netVars, interest, channels, sessions, output, loopVars>>

\* The client has read: the rest is written and the callback goes on.
WriteOn(fd) ==
  /\ phase = "write" /\ fd \in writing
  /\ fd \notin full /\ peer[fd] # "rst"
  /\ output' = output \ {fd}
  /\ \E filled \in SUBSET ({fd} \cap SlowReaders) : full' = full \cup filled
  /\ idle' = [idle EXCEPT ![fd] = 0]
  /\ writing' = {} /\ ending' = FALSE
  /\ Finish(fd, ending, TRUE)
  /\ UNCHANGED <<backlog, peer, unread, ready, accepting>>

\* The client resets a connection with a write held up.
HeldUpThrows(fd) ==
  /\ phase = "write" /\ fd \in writing
  /\ peer[fd] = "rst" /\ ProcessEnds("write")

\* The network goes down under a write, the client cannot be reached any more,
\* or memory is short: it can happen, and nothing says that it must.
DeviceFails ==
  /\ \/ phase = "poll" /\ \E fd \in Fds, effect \in Effects : Writes(fd, effect)
     \/ phase = "write"
  /\ ProcessEnds("device")

\* Seeded defect: sessions with output waiting are spared.
TimedOutWithoutOutput == {fd \in sessions \ output : Expired(idle[fd])}

TimedOut == {fd \in sessions : Expired(idle[fd])}

\* Leaving Poll drops the last references to the sessions that ended in it,
\* which closes their sockets.
ReleaseSessions ==
  /\ peer' = [fd \in Fds |-> IF fd \in sessions' THEN peer[fd] ELSE "none"]
  /\ unread' = [fd \in Fds |-> IF fd \in sessions' THEN unread[fd] ELSE 0]
  /\ full' = full \cap sessions'
  /\ output' = output \cap sessions'
  /\ idle' = [fd \in Fds |-> IF fd \in sessions' THEN idle[fd] ELSE 0]

\* The timeout scan after the last callback.
ScanTimeouts ==
  /\ phase = "poll"
  /\ ~accepting /\ \A fd \in Fds : ready[fd] = {}
  /\ SessionDisconnect(TimedOut, "sleep")
  /\ interest' = [fd \in Fds |-> IF fd \in TimedOut THEN {} ELSE interest[fd]]
  /\ ReleaseSessions
  /\ UNCHANGED <<backlog, heldVars, ready, accepting>>

\* The process has ended.
Exited == phase = "exit" /\ UNCHANGED reactorVars

Loop ==
  \/ Wait
  \/ AcceptThrows
  \/ \E fd \in Fds : AcceptNotPolled(fd)
  \/ \E fd \in Fds : DoAccept(fd)
  \/ \E fd \in Fds : DoReadThrows(fd)
  \/ \E fd \in Fds, effect \in Effects : DoReadWriteThrows(fd, effect)
  \/ \E fd \in Fds, effect \in Effects : DoReadWrite(fd, effect)
  \/ \E fd \in Fds, effect \in Effects : DoReadWriteHeldUp(fd, effect)
  \/ Retry
  \/ \E fd \in Fds : WriteOn(fd)
  \/ \E fd \in Fds : HeldUpThrows(fd)
  \/ ScanTimeouts

Next == Client \/ Loop \/ DeviceFails \/ Exited

\* main.cpp calls Poll forever: the loop never stops by itself, though one step
\* of it may be to try a write once more. Clients owe nothing, not even to read, and
\* no device has to fail.
Fairness == WF_reactorVars(Loop)

Spec == Init /\ [][Next]_reactorVars /\ Fairness

-----------------------------------------------------------------------------
(* Properties *)

\* Exactly the registered sessions are in the epoll set, so no session is deaf
\* and no event reaches a session that was erased.
SessionsArePolled == \A fd \in Fds : fd \in sessions <=> interest[fd] # {}

\* The epoll set holds pointers into channel_map_ (epoll.h:78): a descriptor it
\* knows always has its entry there.
PointersValid == \A fd \in Fds : interest[fd] # {} => fd \in channels

\* RemovePollEvent never throws: no session is disconnected twice, and none
\* before it was registered.
NeverRemovedTwice == fault # "epoll_del"

\* Between two Polls the process holds a descriptor for every registered session
\* and for nothing else: none leaks, none is closed under a session.
NoDescriptorLeak == phase = "sleep" => Open = sessions

\* The sessions, the epoll set, the pointers it holds and the descriptors of
\* the process always belong together.
HandlesAgree == SessionsArePolled /\ PointersValid /\ NoDescriptorLeak

\* Events wait only for sessions that are still registered: no callback runs for
\* a session that another callback of the same Poll ended.
CallbacksHaveSessions == \A fd \in Fds : ready[fd] # {} => fd \in sessions

\* A session ends once, by a callback or by the scan, and nothing reaches it
\* afterwards.
EndedOnce == NeverRemovedTwice /\ CallbacksHaveSessions

\* socket.cpp:134 "Fatal error. Programming bug": as long as the server is
\* correct, writing to a client never meets EPIPE or ECONNRESET.
NoCriticalWrite == fault # "write"

\* A client that stays connected and does not read has the loop to itself.
Stalled == phase = "write" /\ \E fd \in writing : ~Writable(fd)

\* A client that sends nothing more is cut in the end, whatever output the
\* packets of other clients append to its session (sends to a session of
\* another client do not refresh last_active_): unless some client holds the loop
\* up for ever.
SilentClientsAreCut ==
  \A fd \in Fds : <>[](unread[fd] = 0) =>
     []<>(fd \notin sessions \/ phase = "exit") \/ <>[]Stalled

\* A connection the client closed is closed by the server too, with the same
\* exception.
EndedConnectionsClose ==
  \A fd \in Fds :
     (peer[fd] \in {"fin", "rst"} ~> peer[fd] = "none" \/ phase = "exit") \/ <>[]Stalled

\* No connection outlives its client: not one that ended, not one that is
\* only silent.
ConnectionsEnd == SilentClientsAreCut /\ EndedConnectionsClose

\* Output does not stay buffered for ever: it is written, or the session ends,
\* if its client goes on reading and no other one holds the loop up.
OutputDrains ==
  \A fd \in Fds :
     (fd \in output ~> fd \notin output \/ phase = "exit") \/ <>[](fd \in full) \/ <>[]Stalled

\* socket.cpp:151 "Temporary error": a write that meets EAGAIN comes to an end.
TemporaryError == phase = "write" ~> phase # "write"
=============================================================================
