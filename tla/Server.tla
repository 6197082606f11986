------------------------------- MODULE Server -------------------------------
(***************************************************************************)
(* The running server: the reactor and the world manager together.  A      *)
(* session is named by its descriptor.  The packets read by a callback     *)
(* either log the session in, change its player's screen, or do neither;   *)
(* a session that ends takes its player out of the world in the same step  *)
(* (Reactor::SessionDisconnect calls WorldManager::remove_player): at the   *)
(* end of the callback, which a write that is held up puts off.            *)
(***************************************************************************)
EXTENDS Naturals, FiniteSets

CONSTANTS Fds, PeerEnds, kTickRate, kDefaultTimeout, SlowReaders, MaxBacklog, MaxUnread,
          Tiles, None

ASSUME ServerAssumption == None \notin Nat

VARIABLES backlog, peer, unread, full, interest, channels, sessions, output, idle,
          phase, writing, ending, ready, accepting, fault
VARIABLES players, playerSessions, index, tile, seen, screen, collided

Net == INSTANCE Reactor

\* WorldManager::sessions_ and Reactor::sessions_ are different tables.
World == INSTANCE WorldManager
           WITH Sessions <- Fds, sessions <- playerSessions

netVars == <<backlog, peer, unread, full, interest, channels, sessions, output, idle,
             phase, writing, ending, ready, accepting, fault>>
worldVars == <<players, playerSessions, index, tile, seen, screen, collided>>
serverVars == <<netVars, worldVars>>

Init == Net!Init /\ World!Init

\* Seeded defects: the world is never told, or only its player table is.
StayInWorld(S) == UNCHANGED worldVars

LeavePlayersOnly(S) ==
  LET online == {fd \in S : index[fd] # None}
  IN /\ players' = World!remove_player(players, {index[fd] : fd \in online})
     /\ index' = [fd \in Fds |-> IF fd \in S THEN None ELSE index[fd]]
     /\ UNCHANGED <<playerSessions, tile, seen, screen, collided>>

\* The sessions in S have ended; those that logged in leave the world.
LeaveWorld(S) ==
  LET online == {fd \in S : index[fd] # None}
  IN IF online = {} THEN UNCHANGED worldVars ELSE World!Disconnect(online)

\* Packets that leave the world alone: the handshake, cache requests, refused
\* logins, pings. Every handler but the world's may disconnect the session.
PacketsElsewhere(fd) ==
  \E sends \in SUBSET {fd}, disconnect \in BOOLEAN :
    LET effect == [sends |-> sends, disconnect |-> disconnect]
    IN /\ disconnect => index[fd] = None
       /\ \/ Net!DoReadWrite(fd, effect) /\ LeaveWorld(IF Net!Ends(fd, effect) THEN {fd} ELSE {})
          \/ Net!DoReadWriteHeldUp(fd, effect) /\ UNCHANGED worldVars

\* A callback whose packets do not end the session, whether its write goes through
\* or is held up.
Callback(fd, sends) ==
  LET effect == [sends |-> sends, disconnect |-> FALSE]
  IN Net!DoReadWrite(fd, effect) \/ Net!DoReadWriteHeldUp(fd, effect)

\* An accepted login: the session and everybody in the world get output.
PacketLogin(fd, at) ==
  /\ Net!ReadsData(fd)
  /\ World!Login(fd, at)
  /\ Callback(fd, {fd} \cup World!Receivers(players', playerSessions'))

PacketScreen(fd) ==
  /\ Net!ReadsData(fd)
  /\ World!Screen(fd)
  /\ Callback(fd, {fd})

\* What was held up is written; if the read had ended the session, it leaves now.
WriteOn(fd) == Net!WriteOn(fd) /\ LeaveWorld(IF ending THEN {fd} ELSE {})

Throws ==
  /\ \/ Net!AcceptThrows
     \/ \E fd \in Fds : Net!DoReadThrows(fd)
     \/ \E fd \in Fds, sends \in SUBSET Fds :
          Net!DoReadWriteThrows(fd, [sends |-> sends, disconnect |-> FALSE])
     \/ \E fd \in Fds : Net!HeldUpThrows(fd)
  /\ UNCHANGED worldVars

Accept ==
  /\ \E fd \in Fds : Net!DoAccept(fd) \/ Net!AcceptNotPolled(fd)
  /\ UNCHANGED worldVars

\* Seeded defect: a timeout leaves the player in the world.
ScanOnlyNet == Net!ScanTimeouts /\ UNCHANGED worldVars

\* Seeded defect: the scan erases the sessions itself, and epoll is not told.
ScanErases ==
  /\ phase = "poll" /\ ~accepting /\ \A fd \in Fds : ready[fd] = {}
  /\ phase' = "sleep" /\ sessions' = sessions \ Net!TimedOut
  /\ Net!ReleaseSessions
  /\ LeaveWorld(Net!TimedOut)
  /\ UNCHANGED <<backlog, interest, channels, writing, ending, ready, accepting, fault>>

Scan == Net!ScanTimeouts /\ LeaveWorld(Net!TimedOut)

Loop ==
  \/ Net!Wait /\ UNCHANGED worldVars
  \/ Accept
  \/ \E fd \in Fds : PacketsElsewhere(fd)
  \/ \E fd \in Fds, at \in Tiles : PacketLogin(fd, at)
  \/ \E fd \in Fds : PacketScreen(fd)
  \/ Net!Retry /\ UNCHANGED worldVars
  \/ \E fd \in Fds : WriteOn(fd)
  \/ Throws
  \/ Scan

Next ==
  \/ Net!Client /\ UNCHANGED worldVars
  \/ Loop
  \/ Net!DeviceFails /\ UNCHANGED worldVars
  \/ Net!Exited /\ UNCHANGED worldVars

Spec == Init /\ [][Next]_serverVars /\ WF_serverVars(Loop)

-----------------------------------------------------------------------------
(* Properties *)

\* The world and the reactor agree on who is there: every session with a player
\* index is registered with the reactor, so the player will be removed when its
\* connection ends, whichever way that happens.
OnlineAreRegistered == \A fd \in Fds : index[fd] # None => fd \in sessions

\* An update is only ever sent to a session the reactor still writes for: the
\* weak pointers of the world manager never outlive a Poll.
ReceiversRegistered == World!Receivers(players, playerSessions) \subseteq sessions

\* The world holds nobody the reactor has forgotten, as a player or as a
\* receiver of updates.
WorldIsRegistered == OnlineAreRegistered /\ ReceiversRegistered

\* The player of a client that falls silent leaves the world, however many
\* updates the logins of others append to its session, unless some client stays
\* connected and never reads what a callback has to write to it.
SilentPlayersLeave ==
  \A fd \in Fds : <>[](unread[fd] = 0) =>
     []<>(phase = "exit" \/ \A i \in DOMAIN players : players[i] # fd) \/ <>[]Net!Stalled

\* The server is a reactor: with the packet handlers of the world manager in
\* place of arbitrary ones it still begins as module Reactor says and makes no
\* other steps.
ImplementsReactor == Net!Init /\ [][Net!Next]_Net!reactorVars

\* The server is a world manager: whatever the network does, the world only ever
\* sees whole logins, screen changes and departures.
ImplementsWorldManager == World!Spec
=============================================================================
