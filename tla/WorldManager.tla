---------------------------- MODULE WorldManager ----------------------------
(***************************************************************************)
(* The world manager (src/openrs/src/manager/worldmanager.cpp): which      *)
(* player object occupies which slot of world 1, which session receives    *)
(* the updates of a slot, and what logging in, changing the screen and     *)
(* disconnecting do to both tables.  Every login makes a new player object *)
(* (loginpackethandler.cpp:246), so a player object is named by the        *)
(* session that logged it in.                                              *)
(***************************************************************************)
EXTENDS World

CONSTANTS
  Sessions,   \* the client sessions
  Tiles,      \* where players stand; two players are near iff on one tile
  None        \* player_index_ or player_world_ before the login: -1

ASSUME SessionsAssumption == IsFiniteSet(Sessions) /\ None \notin Nat

VARIABLES
  players,    \* World::players_        slot -> player object
  sessions,   \* WorldManager::sessions_  slot -> session (a weak pointer)
  index,      \* Session::player_index_ of every session
  tile,       \* the tile of every logged-in player, None for the others
  seen,       \* seen[s]: the players whose display information s was sent
  screen,     \* the session whose screen settings each player object has
  collided    \* history: some login was given a slot that was in use

vars == <<players, sessions, index, tile, seen, screen, collided>>

Online == {s \in Sessions : index[s] # None}

TypeOK ==
  /\ DOMAIN players \subseteq Nat /\ IsFiniteSet(DOMAIN players)
  /\ players \in [DOMAIN players -> Sessions]
  /\ DOMAIN sessions \subseteq Nat /\ IsFiniteSet(DOMAIN sessions)
  /\ sessions \in [DOMAIN sessions -> Sessions]
  /\ index \in [Sessions -> Nat \cup {None}]
  /\ tile \in [Sessions -> Tiles \cup {None}]
  /\ seen \in [Sessions -> SUBSET Sessions]
  /\ screen \in [Sessions -> Sessions \cup {None}]
  /\ collided \in BOOLEAN

Init ==
  /\ players = EmptyMap
  /\ sessions = EmptyMap
  /\ index = [s \in Sessions |-> None]
  /\ tile = [s \in Sessions |-> None]
  /\ seen = [s \in Sessions |-> {}]
  /\ screen = [s \in Sessions |-> None]
  /\ collided = FALSE

\* HandleEvent(EventEntityMove) walks the world's slots and sends an update
\* to the session of each slot that has one.
Receivers(slots, sess) == {sess[i] : i \in DOMAIN slots \cap DOMAIN sess}

\* What session t is sent when the entity now stands on tile at: as the
\* entity comes from (0, 0, 0), near nobody, it comes into view of the
\* player of t's slot if that player is near it, and the update carries the
\* appearance of that very player (worldmanager.cpp:77-150).
DisplaySent(slots, sess, tiles, at, t) ==
  {slots[i] : i \in {j \in DOMAIN slots \cap DOMAIN sess :
                       sess[j] = t /\ tiles[slots[j]] = at}}

\* Seeded defect: sessions_ takes the new session over the old one.
LoginOverwrites(s, at) ==
  LET slot == SlotFor(DOMAIN players)
  IN /\ index[s] = None
     /\ index' = [index EXCEPT ![s] = slot]
     /\ players' = add_player(players, s)
     /\ sessions' = [k \in DOMAIN sessions \cup {slot} |-> IF k = slot THEN s ELSE sessions[k]]
     /\ UNCHANGED <<tile, seen, screen, collided>>

\* A login that passed every check (loginpackethandler.cpp:310-314) and the
\* login event it emits.
Login(s, at) ==
  LET slot == SlotFor(DOMAIN players)
  IN /\ index[s] = None
     /\ index' = [index EXCEPT ![s] = slot]
     /\ tile' = [tile EXCEPT ![s] = at]
     /\ players' = add_player(players, s)
     /\ sessions' = Insert(sessions, slot, s)
     /\ seen' = [t \in Sessions |->
                   seen[t] \cup DisplaySent(players', sessions', tile', at, t)]
     /\ screen' = [screen EXCEPT ![s] = s]
     /\ collided' = (collided \/ slot \in DOMAIN players)

\* Seeded defect: the settings go to any player.
ScreenOfAnybody(s) ==
  /\ index[s] # None
  /\ \E i \in DOMAIN players : screen' = [screen EXCEPT ![players[i]] = s]
  /\ UNCHANGED <<players, sessions, index, tile, seen, collided>>

\* HandleEvent(EventPacketScreen): the settings go to the player object in the
\* session's slot, if there is one.
Screen(s) ==
  /\ index[s] # None
  /\ index[s] \in DOMAIN players
  /\ screen' = [screen EXCEPT ![players[index[s]]] = s]
  /\ UNCHANGED <<players, sessions, index, tile, seen, collided>>

\* Seeded defect: the player objects stay in the world.
DisconnectSessionsOnly(S) ==
  /\ S # {} /\ S \subseteq Online
  /\ sessions' = Erase(sessions, {index[s] : s \in S})
  /\ index' = [s \in Sessions |-> IF s \in S THEN None ELSE index[s]]
  /\ UNCHANGED <<players, tile, seen, screen, collided>>

\* The sessions in S disconnect: WorldManager::remove_player for each of them
\* that has an index. Their session objects, and what they held, are gone.
Disconnect(S) ==
  LET slots == {index[s] : s \in S}
  IN /\ S # {} /\ S \subseteq Online
     /\ players' = remove_player(players, slots)
     /\ sessions' = Erase(sessions, slots)
     /\ index' = [s \in Sessions |-> IF s \in S THEN None ELSE index[s]]
     /\ tile' = [s \in Sessions |-> IF s \in S THEN None ELSE tile[s]]
     /\ seen' = [s \in Sessions |-> IF s \in S THEN {} ELSE seen[s] \ S]
     /\ screen' = [s \in Sessions |-> IF s \in S THEN None ELSE screen[s]]
     /\ UNCHANGED collided

Next ==
  \/ \E s \in Sessions, at \in Tiles : Login(s, at)
  \/ \E s \in Sessions : Screen(s)
  \/ \E S \in SUBSET Sessions : Disconnect(S)

Spec == Init /\ [][Next]_vars

-----------------------------------------------------------------------------
(* Properties *)

\* Every slot in use is smaller than the number of sessions there can be, so
\* the 2046 entries GetLocalPlayerUpdate reserves (worldmanager.cpp:248) are
\* enough for 2046 sessions however logins and disconnects interleave.
SlotsBounded == \A i \in DOMAIN players : i < Cardinality(Sessions)

\* No player object outlives its session: a player in the table belongs to a
\* session that is online under the very slot the player occupies.
NoGhostPlayers == \A i \in DOMAIN players : index[players[i]] = i

\* The two tables always agree: the updates for a slot go to the session whose
\* player stands in it.
TablesAgree == sessions = players

\* A slot handed out twice is the only way two players ever mix: as long as no
\* login was given a slot in use, every session that is online owns the player
\* and the updates of its slot, and its player has the screen it asked for.
OwnPlayerUnlessCollided ==
  ~collided => \A s \in Online : /\ index[s] \in DOMAIN players
                                /\ players[index[s]] = s
                                /\ screen[s] = s

\* world.h:73 "Find an empty slot to insert the new player.": the slot a login
\* is given was empty.
SlotWasEmpty ==
  [][\A s \in Sessions : index[s] = None /\ index'[s] # None
        => index'[s] \notin DOMAIN players]_vars

\* worldmanager.h:99 "we need to make sure that every player in the vicinity
\* receives the display information for the entity": when a player logs in,
\* every other player of the table standing near gets its display information.
VicinityInformed ==
  [][\A s \in Sessions : index[s] = None /\ index'[s] # None
        => \A t \in Receivers(players, sessions) :
             tile[t] = tile'[s] => s \in seen'[t]]_vars
=============================================================================
