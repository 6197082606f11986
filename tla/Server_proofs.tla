---------------------------- MODULE Server_proofs ----------------------------
(* What the server keeps between its two halves, for any number of clients: *)
(* the world holds nobody whose session the reactor has erased.             *)
EXTENDS Server, World_proofs

\* What the reactor's half contributes: registered sessions are those in the
\* epoll set, events wait for them only, and a write that is held up belongs to
\* one of them that has no event left.
NetInv ==
  /\ sessions \subseteq Fds
  /\ interest \in [Fds -> SUBSET {"in", "out"}]
  /\ ready \in [Fds -> SUBSET {"in", "out"}]
  /\ \A fd \in Fds : fd \in sessions <=> interest[fd] # {}
  /\ \A fd \in Fds : ready[fd] # {} => fd \in sessions
  /\ phase = "write" => \A fd \in writing : fd \in sessions /\ ready[fd] = {}

\* What the world's half contributes: both tables are one finite map, and every
\* player in it belongs to the session that has its slot.
WorldInv ==
  /\ index \in [Fds -> Nat \cup {None}]
  /\ DOMAIN players \subseteq Nat /\ IsFiniteSet(DOMAIN players)
  /\ playerSessions = players
  /\ \A i \in DOMAIN players : players[i] \in Fds /\ index[players[i]] = i

IInv == NetInv /\ WorldInv /\ OnlineAreRegistered

-----------------------------------------------------------------------------
(* The world's half *)

\* The slot the world manager of the server hands out is the one of World.
LEMMA SameSlot ==
  ASSUME NEW slots \in SUBSET Nat, IsFiniteSet(slots) PROVE World!SlotFor(slots) \in Nat
<1>1. \A S : World!Cardinality(S) = Cardinality(S)
  BY DEF World!Cardinality, Cardinality
<1>2. \A S : World!Min(S) = Min(S)
  BY DEF World!Min, Min
<1>3. World!FirstGap(slots) = FirstGap(slots)
  BY <1>1, <1>2 DEF World!FirstGap, FirstGap
<1>4. World!LoopCounter(slots) = LoopCounter(slots)
  BY <1>1, <1>2, <1>3 DEF World!LoopCounter, LoopCounter
<1>5. World!NoGaps(slots) = NoGaps(slots)
  BY <1>1 DEF World!NoGaps, NoGaps
<1>6. World!SlotFor(slots) = SlotFor(slots)
  BY <1>1, <1>4, <1>5 DEF World!SlotFor, SlotFor
<1> QED
  BY <1>6, SlotForBound

\* A login gives the session a slot, and the table its player unless somebody
\* stands there.
LEMMA LoginKeepsWorld ==
  ASSUME WorldInv, NEW fd \in Fds, NEW at, World!Login(fd, at)
  PROVE  WorldInv' /\ \A other \in Fds : other # fd => index'[other] = index[other]
<1> DEFINE slot == World!SlotFor(DOMAIN players)
<1>1. slot \in Nat
  BY SameSlot DEF WorldInv
<1>2. index' = [index EXCEPT ![fd] = slot] /\ index[fd] = None
  BY DEF World!Login
<1> HIDE DEF slot
<1>3. /\ players' = World!Insert(players, slot, fd)
      /\ playerSessions' = World!Insert(playerSessions, slot, fd)
  BY DEF World!Login, World!add_player, slot
<1>4. playerSessions' = players'
  BY <1>3 DEF WorldInv
<1>5. /\ DOMAIN players' = DOMAIN players \cup {slot}
      /\ \A i \in DOMAIN players' : players'[i] = IF i \in DOMAIN players THEN players[i] ELSE fd
  BY <1>3 DEF World!Insert
<1>6. DOMAIN players' \subseteq Nat /\ IsFiniteSet(DOMAIN players')
  BY <1>1, <1>5, FS_AddElement DEF WorldInv
<1>7. \A i \in DOMAIN players' : players'[i] \in Fds /\ index'[players'[i]] = i
  <2> TAKE i \in DOMAIN players'
  <2>1. CASE i \in DOMAIN players
    <3>1. players'[i] = players[i] /\ players[i] \in Fds /\ index[players[i]] = i /\ i \in Nat
      BY <1>5, <2>1 DEF WorldInv
    <3>2. players[i] # fd
      BY <1>2, <3>1, ServerAssumption DEF ServerAssumption
    <3> QED
      BY <1>2, <3>1, <3>2 DEF WorldInv
  <2>2. CASE i \notin DOMAIN players
    BY <1>2, <1>5, <2>2 DEF WorldInv
  <2> QED
    BY <2>1, <2>2
<1>8. index' \in [Fds -> Nat \cup {None}]
  BY <1>1, <1>2 DEF WorldInv
<1> QED
  BY <1>2, <1>4, <1>6, <1>7, <1>8 DEF WorldInv

\* Sessions that leave take their slots with them and no other.
LEMMA LeaveKeepsWorld ==
  ASSUME WorldInv, NEW S \in SUBSET Fds, LeaveWorld(S)
  PROVE  /\ WorldInv'
         /\ \A fd \in S : index'[fd] = None
         /\ \A fd \in Fds \ S : index'[fd] = index[fd]
<1> DEFINE online == {fd \in S : index[fd] # None}
<1>1. CASE online = {}
  BY <1>1 DEF LeaveWorld, worldVars, WorldInv
<1>2. CASE online # {}
  <2>1. World!Disconnect(online)
    BY <1>2 DEF LeaveWorld
  <2>2. index' = [fd \in Fds |-> IF fd \in online THEN None ELSE index[fd]]
    BY <2>1 DEF World!Disconnect
  <2> DEFINE slots == {index[fd] : fd \in online}
  <2>3. /\ players' = World!Erase(players, slots)
        /\ playerSessions' = World!Erase(playerSessions, slots)
    BY <2>1 DEF World!Disconnect, World!remove_player
  <2>4. DOMAIN players' = DOMAIN players \ slots /\ \A i \in DOMAIN players' : players'[i] = players[i]
    BY <2>3 DEF World!Erase
  <2>5. /\ DOMAIN players' \subseteq Nat /\ IsFiniteSet(DOMAIN players')
        /\ playerSessions' = players'
    <3>1. playerSessions' = players'
      BY <2>3 DEF WorldInv
    <3>2. IsFiniteSet(DOMAIN players) /\ DOMAIN players \subseteq Nat
      BY DEF WorldInv
    <3> HIDE DEF slots
    <3>3. IsFiniteSet(DOMAIN players \ slots)
      BY <3>2, FS_Difference
    <3> QED
      BY <2>4, <3>1, <3>2, <3>3
  <2>6. \A i \in DOMAIN players' : players'[i] \in Fds /\ index'[players'[i]] = i
    <3> TAKE i \in DOMAIN players'
    <3>1. players'[i] = players[i] /\ players[i] \in Fds /\ index[players[i]] = i /\ i \notin slots
      BY <2>4 DEF WorldInv
    <3>2. players[i] \notin online
      BY <3>1
    <3> HIDE DEF online
    <3> QED
      BY <2>2, <3>1, <3>2
  <2>7. \A fd \in S : index'[fd] = None
    BY <2>2
  <2>8. \A fd \in Fds \ S : index'[fd] = index[fd]
    BY <2>2
  <2>9. index' \in [Fds -> Nat \cup {None}]
    BY <2>2 DEF WorldInv
  <2> QED
    BY <2>5, <2>6, <2>7, <2>8, <2>9 DEF WorldInv
<1> QED
  BY <1>1, <1>2

-----------------------------------------------------------------------------
(* The reactor's half *)

\* The end of a callback takes its own session out of the tables, or none.
LEMMA FinishKeepsNet ==
  ASSUME NetInv, NEW fd \in sessions, NEW ended, NEW wrote, Net!Finish(fd, ended, wrote),
         ready' = [ready EXCEPT ![fd] = {}]
  PROVE  /\ NetInv'
         /\ ended = TRUE => sessions' = sessions \ {fd}
         /\ ended # TRUE => sessions' = sessions
<1>1. fd \in Fds /\ interest[fd] # {}
  BY DEF NetInv
<1>2. CASE ended = TRUE
  <2>1. /\ sessions' = sessions \ {fd} /\ interest' = [interest EXCEPT ![fd] = {}]
        /\ phase' = "poll"
    BY <1>1, <1>2 DEF Net!Finish, Net!SessionDisconnect
  <2> QED
    BY <1>1, <1>2, <2>1 DEF NetInv
<1>3. CASE ended # TRUE
  <2>1. sessions' = sessions /\ phase' = "poll"
    BY <1>3 DEF Net!Finish
  <2>2. PICK events \in {{"in", "out"}, {"in"}, interest[fd]} : interest' = [interest EXCEPT ![fd] = events]
    BY <1>3 DEF Net!Finish
  <2>3. events # {} /\ events \subseteq {"in", "out"}
    BY <1>1, <2>2 DEF NetInv
  <2> QED
    BY <1>1, <1>3, <2>1, <2>2, <2>3 DEF NetInv
<1> QED
  BY <1>2, <1>3

\* A callback that comes to its end,
LEMMA CallbackKeepsNet ==
  ASSUME NetInv, NEW fd \in Fds, NEW effect, Net!DoReadWrite(fd, effect)
  PROVE  /\ NetInv' /\ fd \in sessions
         /\ sessions' = IF Net!Ends(fd, effect) THEN sessions \ {fd} ELSE sessions
<1>1. fd \in sessions /\ ready' = [ready EXCEPT ![fd] = {}]
  BY DEF Net!DoReadWrite, NetInv
<1> DEFINE ended == Net!Ends(fd, effect)
           wrote == "out" \in ready[fd]
<1>2. Net!Finish(fd, ended, wrote)
  BY DEF Net!DoReadWrite
<1> HIDE DEF ended, wrote
<1>3. /\ NetInv' /\ (ended = TRUE => sessions' = sessions \ {fd}) /\ (ended # TRUE => sessions' = sessions)
  BY <1>1, <1>2, FinishKeepsNet
<1> QED
  BY <1>1, <1>3 DEF ended

\* one that is held up in its write,
LEMMA HeldUpKeepsNet ==
  ASSUME NetInv, NEW fd \in Fds, NEW effect, Net!DoReadWriteHeldUp(fd, effect)
  PROVE  NetInv' /\ fd \in sessions /\ sessions' = sessions
<1>1. fd \in sessions /\ ready' = [ready EXCEPT ![fd] = {}]
  BY DEF Net!DoReadWriteHeldUp, Net!Writes, NetInv
<1>2. UNCHANGED <<interest, sessions>> /\ writing' = {fd}
  BY DEF Net!DoReadWriteHeldUp
<1> QED
  BY <1>1, <1>2 DEF NetInv

\* and its end later on.
LEMMA WriteOnKeepsNet ==
  ASSUME NetInv, NEW fd \in Fds, Net!WriteOn(fd)
  PROVE  NetInv' /\ sessions' = IF ending THEN sessions \ {fd} ELSE sessions
<1>1. fd \in sessions /\ ready[fd] = {} /\ ready' = ready
  BY DEF Net!WriteOn, NetInv
<1>2. ready' = [ready EXCEPT ![fd] = {}]
  BY <1>1 DEF NetInv
<1> DEFINE wrote == TRUE
<1>3. Net!Finish(fd, ending, wrote)
  BY DEF Net!WriteOn
<1> HIDE DEF wrote
<1>4. /\ NetInv' /\ (ending = TRUE => sessions' = sessions \ {fd}) /\ (ending # TRUE => sessions' = sessions)
  BY <1>1, <1>2, <1>3, FinishKeepsNet
<1> QED
  BY <1>4

\* Steps that leave the world alone and take nobody out of the tables.
LEMMA OtherNetSteps ==
  ASSUME NetInv,
         \/ Net!Client \/ Net!Wait \/ Net!Retry \/ Net!Exited
         \/ Net!AcceptThrows \/ Net!DeviceFails \/ \E fd \in Fds : Net!HeldUpThrows(fd)
         \/ \E fd \in Fds : Net!DoReadThrows(fd)
         \/ \E fd \in Fds, effect \in Net!Effects : Net!DoReadWriteThrows(fd, effect)
         \/ \E fd \in Fds : Net!DoAccept(fd) \/ Net!AcceptNotPolled(fd)
  PROVE  NetInv' /\ sessions \subseteq sessions'
<1>1. CASE Net!Client
  <2>1. UNCHANGED <<interest, sessions, ready, phase, writing>>
    BY <1>1 DEF Net!Client, Net!Connect, Net!ClientSend, Net!ClientEnd, Net!ClientRead, Net!objVars,
       Net!loopVars, Net!heldVars
  <2> QED
    BY <2>1 DEF NetInv
<1>2. CASE Net!Wait
  <2>1. UNCHANGED <<interest, sessions>> /\ phase' = "poll"
    BY <1>2 DEF Net!Wait
  <2>2. ready' \in [Fds -> SUBSET {"in", "out"}] /\ \A fd \in Fds : ready'[fd] \subseteq interest[fd]
    BY <1>2 DEF Net!Wait, NetInv
  <2> QED
    BY <2>1, <2>2 DEF NetInv
<1>3. CASE Net!Exited \/ Net!Retry
  <2>1. UNCHANGED <<interest, sessions, ready, phase, writing>>
    BY <1>3 DEF Net!Exited, Net!Retry, Net!reactorVars, Net!objVars, Net!loopVars, Net!heldVars
  <2> QED
    BY <2>1 DEF NetInv
<1>5. ASSUME NEW why, Net!ProcessEnds(why) PROVE NetInv' /\ sessions \subseteq sessions'
  <2>1. UNCHANGED <<interest, sessions>> /\ ready' = [fd \in Fds |-> {}] /\ phase' = "exit"
    BY <1>5 DEF Net!ProcessEnds, Net!objVars
  <2> QED
    BY <2>1 DEF NetInv
<1>6. CASE \/ Net!AcceptThrows \/ Net!DeviceFails \/ \E fd \in Fds : Net!HeldUpThrows(fd)
           \/ \E fd \in Fds : Net!DoReadThrows(fd)
           \/ \E fd \in Fds, effect \in Net!Effects : Net!DoReadWriteThrows(fd, effect)
  <2>1. \E why : Net!ProcessEnds(why)
    BY <1>6 DEF Net!AcceptThrows, Net!DeviceFails, Net!HeldUpThrows, Net!DoReadThrows,
       Net!DoReadWriteThrows
  <2> QED
    BY <1>5, <2>1
<1>4. ASSUME NEW fd \in Fds, Net!DoAccept(fd) \/ Net!AcceptNotPolled(fd)
      PROVE  NetInv' /\ sessions \subseteq sessions'
  <2>1. \/ UNCHANGED <<interest, sessions>>
        \/ sessions' = sessions \cup {fd} /\ interest' = [interest EXCEPT ![fd] = {"in"}]
    BY <1>4 DEF Net!DoAccept, Net!AcceptNotPolled
  <2>2. ready' = ready /\ phase' = phase /\ phase = "poll"
    BY <1>4 DEF Net!DoAccept, Net!AcceptNotPolled
  <2> QED
    BY <2>1, <2>2 DEF NetInv
<1> QED
  BY <1>1, <1>2, <1>3, <1>4, <1>6

\* The scan takes out the sessions that timed out.
LEMMA ScanKeepsNet ==
  ASSUME NetInv, Net!ScanTimeouts
  PROVE  NetInv' /\ Net!TimedOut \subseteq Fds /\ sessions' = sessions \ Net!TimedOut
<1>1. Net!TimedOut \subseteq sessions /\ \A fd \in Net!TimedOut : interest[fd] # {}
  BY DEF Net!TimedOut, NetInv
<1>2. /\ sessions' = sessions \ Net!TimedOut /\ UNCHANGED ready
      /\ interest' = [fd \in Fds |-> IF fd \in Net!TimedOut THEN {} ELSE interest[fd]]
      /\ \A fd \in Fds : ready[fd] = {}
      /\ phase' = "sleep"
  BY <1>1 DEF Net!ScanTimeouts, Net!SessionDisconnect
<1> QED
  BY <1>1, <1>2 DEF NetInv

-----------------------------------------------------------------------------
(* Both halves together *)

\* Every step keeps the players' sessions registered.
LEMMA IInvStep == IInv /\ [Next]_serverVars => IInv'
<1> SUFFICES ASSUME IInv, [Next]_serverVars PROVE IInv'
  OBVIOUS
<1> USE DEF IInv, OnlineAreRegistered
<1>1. ASSUME NetInv' /\ sessions \subseteq sessions', UNCHANGED worldVars PROVE IInv'
  BY <1>1 DEF worldVars, WorldInv
<1>2. CASE (Net!Client \/ Net!Wait \/ Net!Retry \/ Net!DeviceFails \/ Net!Exited) /\ UNCHANGED worldVars
  BY <1>1, <1>2, OtherNetSteps
<1>3. CASE Accept
  BY <1>1, <1>3, OtherNetSteps DEF Accept
<1>4. CASE Throws
  <2>1. ASSUME NEW fd \in Fds, NEW sends \in SUBSET Fds
        PROVE  [sends |-> sends, disconnect |-> FALSE] \in Net!Effects
    BY DEF Net!Effects
  <2>2. NetInv' /\ sessions \subseteq sessions'
    BY <1>4, <2>1, OtherNetSteps DEF Throws
  <2> QED
    BY <1>1, <1>4, <2>2 DEF Throws
<1>5. ASSUME NEW fd \in Fds, PacketsElsewhere(fd) PROVE IInv'
  <2>1. PICK sends \in SUBSET {fd}, disconnect \in BOOLEAN :
          LET effect == [sends |-> sends, disconnect |-> disconnect]
          IN
          \/ Net!DoReadWrite(fd, effect) /\ LeaveWorld(IF Net!Ends(fd, effect) THEN {fd} ELSE {})
          \/ Net!DoReadWriteHeldUp(fd, effect) /\ UNCHANGED worldVars
    BY <1>5 DEF PacketsElsewhere
  <2> DEFINE effect == [sends |-> sends, disconnect |-> disconnect]
             S == IF Net!Ends(fd, effect) THEN {fd} ELSE {}
  <2>5. CASE Net!DoReadWriteHeldUp(fd, effect) /\ UNCHANGED worldVars
    BY <1>1, <2>5, HeldUpKeepsNet
  <2>6. CASE Net!DoReadWrite(fd, effect) /\ LeaveWorld(S)
    <3>1. NetInv' /\ sessions' = sessions \ S /\ S \in SUBSET Fds
      BY <2>6, CallbackKeepsNet
    <3> HIDE DEF S, effect
    <3>2. /\ WorldInv' /\ \A other \in S : index'[other] = None
          /\ \A other \in Fds \ S : index'[other] = index[other]
      BY <2>6, <3>1, LeaveKeepsWorld
    <3> QED
      BY <3>1, <3>2
  <2> QED
    BY <2>1, <2>5, <2>6
<1>10. ASSUME NEW fd \in Fds, NEW sends, Net!ReadsData(fd), Callback(fd, sends)
       PROVE  NetInv' /\ sessions' = sessions /\ fd \in sessions
  <2> DEFINE effect == [sends |-> sends, disconnect |-> FALSE]
  <2>1. Net!DoReadWrite(fd, effect) \/ Net!DoReadWriteHeldUp(fd, effect)
    BY <1>10 DEF Callback
  <2>2. effect.disconnect = FALSE
    OBVIOUS
  <2> HIDE DEF effect
  <2>3. ~Net!Ends(fd, effect)
    <3>1. unread[fd] > 0 => unread[fd] # 0
      OBVIOUS
    <3> QED
      BY <1>10, <2>2, <3>1 DEF Net!Ends, Net!ReadsEnd, Net!ReadsData
  <2> QED
    BY <2>1, <2>3, CallbackKeepsNet, HeldUpKeepsNet
<1>6. ASSUME NEW fd \in Fds, NEW at \in Tiles, PacketLogin(fd, at) PROVE IInv'
  <2>1. Net!ReadsData(fd) /\ World!Login(fd, at) /\ \E sends : Callback(fd, sends)
    BY <1>6 DEF PacketLogin
  <2>2. NetInv' /\ sessions' = sessions /\ fd \in sessions
    BY <1>10, <2>1
  <2>3. WorldInv' /\ \A other \in Fds : other # fd => index'[other] = index[other]
    BY <2>1, LoginKeepsWorld
  <2> QED
    BY <2>2, <2>3
<1>7. ASSUME NEW fd \in Fds, PacketScreen(fd) PROVE IInv'
  <2>1. Net!ReadsData(fd) /\ World!Screen(fd) /\ Callback(fd, {fd})
    BY <1>7 DEF PacketScreen
  <2>2. NetInv' /\ sessions' = sessions
    BY <1>10, <2>1
  <2>3. UNCHANGED <<players, playerSessions, index>>
    BY <2>1 DEF World!Screen
  <2> QED
    BY <2>2, <2>3 DEF WorldInv
<1>11. ASSUME NEW fd \in Fds, WriteOn(fd) PROVE IInv'
  <2> DEFINE S == IF ending THEN {fd} ELSE {}
  <2>1. NetInv' /\ sessions' = sessions \ S /\ S \in SUBSET Fds
    BY <1>11, WriteOnKeepsNet DEF WriteOn
  <2>2. LeaveWorld(S)
    BY <1>11 DEF WriteOn
  <2> HIDE DEF S
  <2>3. /\ WorldInv' /\ \A other \in S : index'[other] = None
        /\ \A other \in Fds \ S : index'[other] = index[other]
    BY <2>1, <2>2, LeaveKeepsWorld
  <2> QED
    BY <2>1, <2>3
<1>8. CASE Scan
  <2>1. NetInv' /\ Net!TimedOut \subseteq Fds /\ sessions' = sessions \ Net!TimedOut
    BY <1>8, ScanKeepsNet DEF Scan
  <2>2. /\ WorldInv' /\ \A other \in Net!TimedOut : index'[other] = None
        /\ \A other \in Fds \ Net!TimedOut : index'[other] = index[other]
    BY <1>8, <2>1, LeaveKeepsWorld DEF Scan
  <2> QED
    BY <2>1, <2>2
<1>9. CASE UNCHANGED serverVars
  BY <1>9 DEF serverVars, netVars, worldVars, NetInv, WorldInv
<1> QED
  BY <1>2, <1>3, <1>4, <1>5, <1>6, <1>7, <1>8, <1>9, <1>11 DEF Next, Loop

\* The invariant holds in every reachable state.
THEOREM AlwaysIInv == Spec => []IInv
<1>1. Init => IInv
  <2> SUFFICES ASSUME Init PROVE IInv
    OBVIOUS
  <2>1. players = World!EmptyMap /\ playerSessions = World!EmptyMap /\ index = [fd \in Fds |-> None]
    BY DEF Init, World!Init
  <2>2. DOMAIN players = {} /\ IsFiniteSet({})
    BY <2>1, FS_EmptySet DEF World!EmptyMap
  <2>3. WorldInv /\ OnlineAreRegistered
    BY <2>1, <2>2 DEF WorldInv, OnlineAreRegistered
  <2>4. NetInv
    BY DEF Init, Net!Init, NetInv
  <2> QED
    BY <2>3, <2>4 DEF IInv
<1> QED
  BY <1>1, IInvStep, PTL DEF Spec

\* The world never holds a player, or a receiver of updates, whose session the
\* reactor has erased: for any number of clients, whatever ends them.
THEOREM WorldAlwaysRegistered == Spec => []WorldIsRegistered
<1>1. IInv => WorldIsRegistered
  <2> SUFFICES ASSUME IInv PROVE WorldIsRegistered
    OBVIOUS
  <2>1. ASSUME NEW i \in DOMAIN players PROVE players[i] \in sessions
    <3>1. players[i] \in Fds /\ index[players[i]] = i /\ i \in Nat
      BY <2>1 DEF IInv, WorldInv
    <3>2. index[players[i]] # None
      BY <3>1, ServerAssumption DEF ServerAssumption
    <3> QED
      BY <3>1, <3>2 DEF IInv, OnlineAreRegistered
  <2>2. ReceiversRegistered
    BY <2>1 DEF IInv, WorldInv, ReceiversRegistered, World!Receivers
  <2> QED
    BY <2>2 DEF IInv, WorldIsRegistered
<1> QED
  BY <1>1, AlwaysIInv, PTL

\* The server implements the world manager: its packets are logins and screen
\* changes of the world, the ends of its sessions departures, and all else
\* leaves the world as it is.
THEOREM ServerImplementsWorldManager == Spec => ImplementsWorldManager
<1>1. Init => World!Init
  BY DEF Init
<1>2. IInv /\ [Next]_serverVars => [World!Next]_World!vars
  <2> SUFFICES ASSUME IInv, [Next]_serverVars PROVE World!Next \/ UNCHANGED worldVars
    BY DEF worldVars, World!vars
  <2>1. ASSUME NEW S \in SUBSET Fds, LeaveWorld(S) PROVE World!Next \/ UNCHANGED worldVars
    <3>1. {fd \in S : index[fd] # None} \in SUBSET Fds
      OBVIOUS
    <3> QED
      BY <2>1, <3>1 DEF LeaveWorld, World!Next
  <2>2. ASSUME NEW fd \in Fds, PacketsElsewhere(fd) PROVE World!Next \/ UNCHANGED worldVars
    <3>1. UNCHANGED worldVars \/ \E effect : LeaveWorld(IF Net!Ends(fd, effect) THEN {fd} ELSE {})
      BY <2>2 DEF PacketsElsewhere
    <3>2. \A effect : (IF Net!Ends(fd, effect) THEN {fd} ELSE {}) \in SUBSET Fds
      OBVIOUS
    <3> QED
      BY <2>1, <3>1, <3>2
  <2>3. ASSUME NEW fd \in Fds, NEW at \in Tiles, PacketLogin(fd, at)
        PROVE  World!Next \/ UNCHANGED worldVars
    BY <2>3 DEF PacketLogin, World!Next
  <2>4. ASSUME NEW fd \in Fds, PacketScreen(fd) PROVE World!Next \/ UNCHANGED worldVars
    BY <2>4 DEF PacketScreen, World!Next
  <2>5. CASE Scan
    <3>1. Net!TimedOut \in SUBSET Fds
      BY DEF Net!TimedOut, IInv, NetInv
    <3> QED
      BY <2>1, <2>5, <3>1 DEF Scan
  <2>6. CASE Accept \/ Throws
    BY <2>6 DEF Accept, Throws
  <2>8. ASSUME NEW fd \in Fds, WriteOn(fd) PROVE World!Next \/ UNCHANGED worldVars
    <3>1. (IF ending THEN {fd} ELSE {}) \in SUBSET Fds
      OBVIOUS
    <3> QED
      BY <2>1, <2>8, <3>1 DEF WriteOn
  <2>7. CASE UNCHANGED serverVars
    BY <2>7 DEF serverVars, worldVars
  <2> QED
    BY <2>2, <2>3, <2>4, <2>5, <2>6, <2>7, <2>8 DEF Next, Loop
<1> QED
  BY <1>1, <1>2, AlwaysIInv, PTL DEF Spec, ImplementsWorldManager, World!Spec

\* The server is a reactor in all it does: what its packets send and whom they
\* disconnect is an effect module Reactor allows, so every step of the server
\* is one of the reactor or leaves it alone.
THEOREM ServerImplementsReactor == Spec => ImplementsReactor
<1>1. Init => Net!Init
  BY DEF Init
<1>2. IInv /\ [Next]_serverVars => [Net!Next]_Net!reactorVars
  <2> SUFFICES ASSUME IInv, [Next]_serverVars PROVE Net!Next \/ UNCHANGED netVars
    BY DEF netVars, Net!reactorVars, Net!netVars, Net!objVars, Net!loopVars, Net!heldVars
  <2>1. ASSUME NEW fd \in Fds, NEW sends \in SUBSET Fds, NEW disconnect \in BOOLEAN,
               \/ Net!DoReadWrite(fd, [sends |-> sends, disconnect |-> disconnect])
               \/ Net!DoReadWriteHeldUp(fd, [sends |-> sends, disconnect |-> disconnect])
        PROVE  Net!Next
    <3>1. [sends |-> sends, disconnect |-> disconnect] \in Net!Effects
      BY DEF Net!Effects
    <3> QED
      BY <2>1, <3>1 DEF Net!Next, Net!Loop
  <2>2. ASSUME NEW fd \in Fds, PacketsElsewhere(fd) PROVE Net!Next
    <3>1. PICK sends \in SUBSET {fd}, disconnect \in BOOLEAN :
            \/ Net!DoReadWrite(fd, [sends |-> sends, disconnect |-> disconnect])
            \/ Net!DoReadWriteHeldUp(fd, [sends |-> sends, disconnect |-> disconnect])
      BY <2>2 DEF PacketsElsewhere
    <3>2. sends \in SUBSET Fds
      BY <3>1
    <3> QED
      BY <2>1, <3>1, <3>2
  <2>3. ASSUME NEW fd \in Fds, NEW at \in Tiles, PacketLogin(fd, at) PROVE Net!Next
    <3> DEFINE sends == {fd} \cup World!Receivers(players', playerSessions')
    <3>1. World!Login(fd, at) /\ Callback(fd, sends)
      BY <2>3 DEF PacketLogin
    <3>2. WorldInv'
      BY <3>1, LoginKeepsWorld DEF IInv
    <3>3. sends \in SUBSET Fds
      BY <3>2 DEF WorldInv, World!Receivers
    <3> HIDE DEF sends
    <3> QED
      BY <2>1, <3>1, <3>3 DEF Callback
  <2>4. ASSUME NEW fd \in Fds, PacketScreen(fd) PROVE Net!Next
    <3>1. Callback(fd, {fd}) /\ {fd} \in SUBSET Fds
      BY <2>4 DEF PacketScreen
    <3> QED
      BY <2>1, <3>1 DEF Callback
  <2>5. CASE Accept
    BY <2>5 DEF Accept, Net!Next, Net!Loop
  <2>6. CASE Throws
    <3>1. ASSUME NEW fd \in Fds, NEW sends \in SUBSET Fds,
                 Net!DoReadWriteThrows(fd, [sends |-> sends, disconnect |-> FALSE])
          PROVE  Net!Next
      <4>1. [sends |-> sends, disconnect |-> FALSE] \in Net!Effects
        BY DEF Net!Effects
      <4> QED
        BY <3>1, <4>1 DEF Net!Next, Net!Loop
    <3> QED
      BY <2>6, <3>1 DEF Throws, Net!Next, Net!Loop
  <2>7. CASE Scan
    BY <2>7 DEF Scan, Net!Next, Net!Loop
  <2>8. CASE Net!Client \/ Net!Wait \/ Net!Retry \/ Net!DeviceFails \/ Net!Exited
    BY <2>8 DEF Net!Next, Net!Loop
  <2>10. ASSUME NEW fd \in Fds, WriteOn(fd) PROVE Net!Next
    BY <2>10 DEF WriteOn, Net!Next, Net!Loop
  <2>9. CASE UNCHANGED serverVars
    BY <2>9 DEF serverVars
  <2> QED
    BY <2>2, <2>3, <2>4, <2>5, <2>6, <2>7, <2>8, <2>9, <2>10 DEF Next, Loop
<1> QED
  BY <1>1, <1>2, AlwaysIInv, PTL DEF Spec, ImplementsReactor
=============================================================================
