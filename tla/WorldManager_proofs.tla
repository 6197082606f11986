------------------------ MODULE WorldManager_proofs ------------------------
(* The safety of the world manager for any finite set of sessions, of the update
   of a player for any graphics and names, of its bits for any slots, and of the
   regions of a map for any tile. *)
EXTENDS WorldManager, PlayerUpdate, BitBuffer, Regions, World_proofs, SequenceTheorems

USE SessionsAssumption

\* A login inserts one entry into each table, under a slot that is a natural.
LEMMA InsertType ==
  ASSUME NEW T, NEW map, NEW key \in Nat, NEW value \in T,
         DOMAIN map \subseteq Nat, IsFiniteSet(DOMAIN map),
         map \in [DOMAIN map -> T]
  PROVE  /\ DOMAIN Insert(map, key, value) = DOMAIN map \cup {key}
         /\ DOMAIN Insert(map, key, value) \subseteq Nat
         /\ IsFiniteSet(DOMAIN Insert(map, key, value))
         /\ Insert(map, key, value) \in [DOMAIN Insert(map, key, value) -> T]
<1>1. IsFiniteSet(DOMAIN map \cup {key})
  BY FS_AddElement
<1> QED
  BY <1>1 DEF Insert

LEMMA EraseType ==
  ASSUME NEW T, NEW map, NEW keys,
         DOMAIN map \subseteq Nat, IsFiniteSet(DOMAIN map),
         map \in [DOMAIN map -> T]
  PROVE  /\ DOMAIN Erase(map, keys) = DOMAIN map \ keys
         /\ DOMAIN Erase(map, keys) \subseteq Nat
         /\ IsFiniteSet(DOMAIN Erase(map, keys))
         /\ Erase(map, keys) \in [DOMAIN Erase(map, keys) -> T]
<1>1. IsFiniteSet(DOMAIN map \ keys)
  BY FS_Difference
<1> QED
  BY <1>1 DEF Erase

\* Type correctness: both tables stay finite maps from naturals to sessions.
THEOREM TypeCorrect == Spec => []TypeOK
<1>1. Init => TypeOK
  BY FS_EmptySet DEF Init, TypeOK, EmptyMap
<1>2. TypeOK /\ [Next]_vars => TypeOK'
  <2> SUFFICES ASSUME TypeOK, [Next]_vars PROVE TypeOK'
    OBVIOUS
  <2> USE DEF TypeOK
  <2>1. ASSUME NEW s \in Sessions, NEW at \in Tiles, Login(s, at)
        PROVE  TypeOK'
    <3> DEFINE slot == SlotFor(DOMAIN players)
    <3>1. slot \in Nat
      BY SlotForBound
    <3>2. /\ DOMAIN players' \subseteq Nat /\ IsFiniteSet(DOMAIN players')
          /\ players' \in [DOMAIN players' -> Sessions]
      <4> HIDE DEF slot
      <4>1. players' = Insert(players, slot, s)
        BY <2>1 DEF Login, add_player, slot
      <4> QED
        BY <3>1, <4>1, InsertType
    <3>3. /\ DOMAIN sessions' \subseteq Nat /\ IsFiniteSet(DOMAIN sessions')
          /\ sessions' \in [DOMAIN sessions' -> Sessions]
      <4> HIDE DEF slot
      <4>1. sessions' = Insert(sessions, slot, s)
        BY <2>1 DEF Login, slot
      <4> QED
        BY <3>1, <4>1, InsertType
    <3>4. /\ index' \in [Sessions -> Nat \cup {None}]
          /\ tile' \in [Sessions -> Tiles \cup {None}]
          /\ screen' \in [Sessions -> Sessions \cup {None}]
          /\ collided' \in BOOLEAN
      BY <2>1, <3>1 DEF Login
    <3>5. seen' \in [Sessions -> SUBSET Sessions]
      <4>1. ASSUME NEW t \in Sessions
            PROVE  DisplaySent(players', sessions', tile', at, t) \subseteq Sessions
        BY <3>2 DEF DisplaySent
      <4> QED
        BY <2>1, <4>1 DEF Login
    <3> QED
      BY <3>2, <3>3, <3>4, <3>5
  <2>2. ASSUME NEW s \in Sessions, Screen(s)
        PROVE  TypeOK'
    BY <2>2 DEF Screen
  <2>3. ASSUME NEW S \in SUBSET Sessions, Disconnect(S)
        PROVE  TypeOK'
    <3> DEFINE slots == {index[s] : s \in S}
    <3>1. /\ DOMAIN players' \subseteq Nat /\ IsFiniteSet(DOMAIN players')
          /\ players' \in [DOMAIN players' -> Sessions]
      <4>1. players' = Erase(players, slots)
        BY <2>3 DEF Disconnect, remove_player
      <4> HIDE DEF slots
      <4> QED
        BY <4>1, EraseType
    <3>2. /\ DOMAIN sessions' \subseteq Nat /\ IsFiniteSet(DOMAIN sessions')
          /\ sessions' \in [DOMAIN sessions' -> Sessions]
      <4>1. sessions' = Erase(sessions, slots)
        BY <2>3 DEF Disconnect
      <4> HIDE DEF slots
      <4> QED
        BY <4>1, EraseType
    <3>3. /\ index' \in [Sessions -> Nat \cup {None}]
          /\ tile' \in [Sessions -> Tiles \cup {None}]
          /\ seen' \in [Sessions -> SUBSET Sessions]
          /\ screen' \in [Sessions -> Sessions \cup {None}]
          /\ collided' \in BOOLEAN
      BY <2>3 DEF Disconnect
    <3> QED
      BY <3>1, <3>2, <3>3
  <2>4. CASE UNCHANGED vars
    BY <2>4 DEF vars
  <2> QED
    BY <2>1, <2>2, <2>3, <2>4 DEF Next
<1> QED
  BY <1>1, <1>2, PTL DEF Spec

\* Both tables change together, entry by entry, so they never disagree.
THEOREM TablesAlwaysAgree == Spec => []TablesAgree
<1>1. Init => TablesAgree
  BY DEF Init, TablesAgree
<1>2. TablesAgree /\ [Next]_vars => TablesAgree'
  <2> SUFFICES ASSUME TablesAgree, [Next]_vars PROVE sessions' = players'
    BY DEF TablesAgree
  <2>1. sessions = players
    BY DEF TablesAgree
  <2>2. ASSUME NEW s \in Sessions, NEW at \in Tiles, Login(s, at)
        PROVE  sessions' = players'
    BY <2>1, <2>2 DEF Login, add_player
  <2>3. ASSUME NEW S \in SUBSET Sessions, Disconnect(S)
        PROVE  sessions' = players'
    BY <2>1, <2>3 DEF Disconnect, remove_player
  <2>4. CASE UNCHANGED <<players, sessions>>
    BY <2>1, <2>4
  <2> QED
    BY <2>2, <2>3, <2>4 DEF Next, Screen, vars
<1> QED
  BY <1>1, <1>2, PTL DEF Spec

\* A table entry that survives or is made by a step is owned by its session.
LEMMA NoGhostsStep == TypeOK /\ NoGhostPlayers /\ [Next]_vars => NoGhostPlayers'
<1> SUFFICES ASSUME TypeOK, NoGhostPlayers, [Next]_vars,
                    NEW i \in DOMAIN players'
             PROVE  index'[players'[i]] = i
  BY DEF NoGhostPlayers
<1> USE DEF TypeOK
<1>1. ASSUME NEW s \in Sessions, NEW at \in Tiles, Login(s, at)
      PROVE  index'[players'[i]] = i
  <2> DEFINE slot == SlotFor(DOMAIN players)
  <2>1. slot \in Nat
    BY SlotForBound
  <2>2. /\ index' = [index EXCEPT ![s] = slot]
        /\ index[s] = None
        /\ players' = [k \in DOMAIN players \cup {slot} |->
                        IF k \in DOMAIN players THEN players[k] ELSE s]
    BY <1>1 DEF Login, add_player, Insert
  <2> HIDE DEF slot
  <2>3. CASE i \in DOMAIN players
    <3>1. index[players[i]] = i /\ players[i] \in Sessions /\ i \in Nat
      BY <2>3 DEF NoGhostPlayers
    <3>2. players[i] # s
      BY <2>2, <3>1
    <3> QED
      BY <2>2, <2>3, <3>1, <3>2
  <2>4. CASE i \notin DOMAIN players
    BY <2>2, <2>4
  <2> QED
    BY <2>3, <2>4
<1>2. ASSUME NEW s \in Sessions, Screen(s)
      PROVE  index'[players'[i]] = i
  BY <1>2 DEF Screen, NoGhostPlayers
<1>3. ASSUME NEW S \in SUBSET Sessions, Disconnect(S)
      PROVE  index'[players'[i]] = i
  <2>1. i \in DOMAIN players /\ i \notin {index[s] : s \in S} /\ players'[i] = players[i]
    BY <1>3 DEF Disconnect, remove_player, Erase
  <2>2. index[players[i]] = i /\ players[i] \in Sessions
    BY <2>1 DEF NoGhostPlayers
  <2>3. players[i] \notin S
    BY <2>1, <2>2
  <2> QED
    BY <1>3, <2>1, <2>2, <2>3 DEF Disconnect
<1>4. CASE UNCHANGED vars
  BY <1>4 DEF vars, NoGhostPlayers
<1> QED
  BY <1>1, <1>2, <1>3, <1>4 DEF Next

\* No player of the table belongs to a session that is not online there.
THEOREM NeverGhostPlayers == Spec => []NoGhostPlayers
<1>1. Init => NoGhostPlayers
  BY DEF Init, NoGhostPlayers, EmptyMap
<1> QED
  BY <1>1, NoGhostsStep, TypeCorrect, PTL DEF Spec

\* While a session is not online, the table has fewer players than there are
\* sessions: its entries are owned by distinct sessions that are online.
LEMMA RoomForOneMore ==
  ASSUME TypeOK, NoGhostPlayers, NEW s \in Sessions, index[s] = None
  PROVE  Cardinality(DOMAIN players) < Cardinality(Sessions)
<1> DEFINE rest == Sessions \ {s}
<1>1. IsFiniteSet(rest) /\ Cardinality(rest) = Cardinality(Sessions) - 1
  BY FS_RemoveElement
<1>2. players \in Injection(DOMAIN players, rest)
  <2>1. ASSUME NEW i \in DOMAIN players
        PROVE  index[players[i]] = i /\ i \in Nat /\ players[i] \in rest
    BY DEF TypeOK, NoGhostPlayers
  <2>2. players \in [DOMAIN players -> rest]
    BY <2>1 DEF TypeOK
  <2> QED
    BY <2>1, <2>2 DEF Injection, IsInjective
<1>3. Cardinality(DOMAIN players) <= Cardinality(rest)
  <2> HIDE DEF rest
  <2> QED
    BY <1>1, <1>2, FS_Injection
<1>4. Cardinality(DOMAIN players) \in Nat /\ Cardinality(Sessions) \in Nat
  BY FS_CardinalityType DEF TypeOK
<1> QED
  BY <1>1, <1>3, <1>4

\* However logins and disconnects interleave, every slot in use is below the
\* number of sessions: the local player block of a login never overflows.
THEOREM SlotsAlwaysBounded == Spec => []SlotsBounded
<1>1. Init => SlotsBounded
  BY DEF Init, SlotsBounded, EmptyMap
<1>2. TypeOK /\ NoGhostPlayers /\ SlotsBounded /\ [Next]_vars => SlotsBounded'
  <2> SUFFICES ASSUME TypeOK, NoGhostPlayers, SlotsBounded, [Next]_vars,
                      NEW i \in DOMAIN players'
               PROVE  i < Cardinality(Sessions)
    BY DEF SlotsBounded
  <2>1. CASE i \in DOMAIN players
    BY <2>1 DEF SlotsBounded
  <2>2. CASE i \notin DOMAIN players
    <3>1. PICK s \in Sessions, at \in Tiles : Login(s, at)
      BY <2>2 DEF Next, Screen, Disconnect, remove_player, Erase, vars
    <3>2. i = SlotFor(DOMAIN players) /\ index[s] = None
      BY <2>2, <3>1 DEF Login, add_player, Insert
    <3>3. i \in Nat /\ i <= Cardinality(DOMAIN players)
      BY <3>2, SlotForBound DEF TypeOK
    <3>4. Cardinality(DOMAIN players) < Cardinality(Sessions)
      BY <3>2, RoomForOneMore
    <3>5. Cardinality(DOMAIN players) \in Nat /\ Cardinality(Sessions) \in Nat
      BY FS_CardinalityType DEF TypeOK
    <3> QED
      BY <3>3, <3>4, <3>5
  <2> QED
    BY <2>1, <2>2
<1> QED
  BY <1>1, <1>2, TypeCorrect, NeverGhostPlayers, PTL DEF Spec

\* A slot handed out twice is the only cause of mixed-up players.
THEOREM OwnPlayerAlways == Spec => []OwnPlayerUnlessCollided
<1>1. Init => OwnPlayerUnlessCollided
  BY DEF Init, OwnPlayerUnlessCollided, Online
<1>2. /\ TypeOK /\ OwnPlayerUnlessCollided /\ [Next]_vars
      => OwnPlayerUnlessCollided'
  <2> SUFFICES ASSUME TypeOK, OwnPlayerUnlessCollided, [Next]_vars, ~collided',
                      NEW t \in Sessions, index'[t] # None
               PROVE  /\ index'[t] \in DOMAIN players'
                      /\ players'[index'[t]] = t
                      /\ screen'[t] = t
    BY DEF OwnPlayerUnlessCollided, Online
  <2> USE DEF TypeOK
  <2>1. ~collided
    BY DEF Next, Login, Screen, Disconnect, vars
  <2>2. \A u \in Sessions : index[u] # None =>
           index[u] \in DOMAIN players /\ players[index[u]] = u /\ screen[u] = u
    BY <2>1 DEF OwnPlayerUnlessCollided, Online
  <2>3. ASSUME NEW s \in Sessions, NEW at \in Tiles, Login(s, at)
        PROVE  /\ index'[t] \in DOMAIN players'
               /\ players'[index'[t]] = t
               /\ screen'[t] = t
    <3> DEFINE slot == SlotFor(DOMAIN players)
    <3>1. /\ slot \notin DOMAIN players
          /\ index' = [index EXCEPT ![s] = slot]
          /\ screen' = [screen EXCEPT ![s] = s]
          /\ players' = [k \in DOMAIN players \cup {slot} |->
                          IF k \in DOMAIN players THEN players[k] ELSE s]
      BY <2>3 DEF Login, add_player, Insert
    <3> HIDE DEF slot
    <3> QED
      BY <2>2, <3>1
  <2>4. ASSUME NEW s \in Sessions, Screen(s)
        PROVE  /\ index'[t] \in DOMAIN players'
               /\ players'[index'[t]] = t
               /\ screen'[t] = t
    BY <2>2, <2>4 DEF Screen
  <2>5. ASSUME NEW S \in SUBSET Sessions, Disconnect(S)
        PROVE  /\ index'[t] \in DOMAIN players'
               /\ players'[index'[t]] = t
               /\ screen'[t] = t
    <3>1. t \notin S /\ index'[t] = index[t] /\ screen'[t] = screen[t]
      BY <2>5 DEF Disconnect
    <3>2. index[t] \notin {index[s] : s \in S}
      BY <2>2, <2>5, <3>1 DEF Disconnect, Online
    <3> QED
      BY <2>2, <2>5, <3>1, <3>2 DEF Disconnect, remove_player, Erase
  <2>6. CASE UNCHANGED vars
    BY <2>2, <2>6 DEF vars
  <2> QED
    BY <2>3, <2>4, <2>5, <2>6 DEF Next
<1> QED
  BY <1>1, <1>2, TypeCorrect, PTL DEF Spec

-----------------------------------------------------------------------------
(* The update of a player *)

\* How many blocks of a sequence are announced by a flag.
CountOf(s, bit) == Cardinality({i \in 1 .. Len(s) : s[i].bit = bit})

\* Two sequences have their blocks together.
LEMMA CountConcat ==
  ASSUME NEW S, NEW s \in Seq(S), NEW t \in Seq(S), NEW bit
  PROVE  s \o t \in Seq(S) /\ CountOf(s \o t, bit) = CountOf(s, bit) + CountOf(t, bit)
<1> DEFINE m == Len(s)
           n == Len(t)
           A == {i \in 1 .. m : s[i].bit = bit}
           B == {j \in 1 .. n : t[j].bit = bit}
           C == {m + j : j \in B}
           U == {i \in 1 .. Len(s \o t) : (s \o t)[i].bit = bit}
<1>1. m \in Nat /\ n \in Nat
  OBVIOUS
<1>2. /\ s \o t \in Seq(S) /\ Len(s \o t) = m + n
      /\ \A i \in 1 .. m + n : (s \o t)[i] = IF i <= m THEN s[i] ELSE t[i - m]
  BY ConcatProperties
<1>3. IsFiniteSet(A) /\ IsFiniteSet(B)
  <2>1. IsFiniteSet(1 .. m) /\ IsFiniteSet(1 .. n)
    BY <1>1, FS_Interval
  <2>2. A \in SUBSET (1 .. m) /\ B \in SUBSET (1 .. n)
    OBVIOUS
  <2> HIDE DEF A, B
  <2> QED
    BY <2>1, <2>2, FS_Subset
<1>4. IsFiniteSet(C) /\ Cardinality(C) = Cardinality(B)
  <2> DEFINE f == [j \in B |-> m + j]
  <2>1. \A i, j \in B : f[i] = f[j] => i = j
    BY <1>1
  <2>2. f \in [B -> C] /\ \A c \in C : \E j \in B : f[j] = c
    OBVIOUS
  <2> HIDE DEF f, B, C
  <2>3. f \in Bijection(B, C)
    BY <2>1, <2>2 DEF Bijection, Injection, Surjection, IsInjective
  <2> QED
    BY <1>3, <2>3, FS_Bijection DEF ExistsBijection
<1>5. A \cap C = {}
  BY <1>1
<1>6. U = A \cup C
  <2>1. U \subseteq A \cup C
    <3> SUFFICES ASSUME NEW i \in U PROVE i \in A \cup C
      OBVIOUS
    <3>1. i \in 1 .. m + n /\ (s \o t)[i].bit = bit
      BY <1>2
    <3>2. CASE i <= m
      BY <1>1, <1>2, <3>1, <3>2
    <3>3. CASE ~(i <= m)
      <4>1. i - m \in 1 .. n /\ t[i - m].bit = bit /\ m + (i - m) = i
        BY <1>1, <1>2, <3>1, <3>3
      <4>2. i - m \in B
        BY <4>1
      <4> QED
        BY <4>1, <4>2
    <3> QED
      BY <3>2, <3>3
  <2>2. A \subseteq U
    <3> SUFFICES ASSUME NEW i \in A PROVE i \in U
      OBVIOUS
    <3>1. i \in 1 .. m + n /\ i <= m
      BY <1>1
    <3> QED
      BY <1>2, <3>1
  <2>3. C \subseteq U
    <3> SUFFICES ASSUME NEW j \in B PROVE m + j \in U
      OBVIOUS
    <3>1. m + j \in 1 .. m + n /\ ~(m + j <= m) /\ (m + j) - m = j
      BY <1>1
    <3>2. (s \o t)[m + j] = t[j]
      BY <1>2, <3>1
    <3> QED
      BY <1>2, <3>1, <3>2
  <2> QED
    BY <2>1, <2>2, <2>3
<1>7. Cardinality(A) \in Nat /\ Cardinality(B) \in Nat
  BY <1>3, FS_CardinalityType
<1> HIDE DEF A, B, C, U
<1>8. Cardinality(U) = Cardinality(A) + Cardinality(B)
  <2>1. Cardinality(A \cup C) = Cardinality(A) + Cardinality(C) - Cardinality(A \cap C)
    BY <1>3, <1>4, FS_Union
  <2>2. Cardinality({}) = 0
    BY FS_EmptySet
  <2>3. Cardinality(U) = Cardinality(A) + Cardinality(C) - 0
    BY <1>5, <1>6, <2>1, <2>2
  <2> QED
    BY <1>4, <1>7, <2>3
<1> QED
  BY <1>2, <1>8 DEF CountOf, A, B, U

One(condition) == IF condition THEN 1 ELSE 0

\* No block.
LEMMA CountNone ==
  ASSUME NEW S, NEW bit
  PROVE  <<>> \in Seq(S) /\ CountOf(<<>>, bit) = 0
<1>1. {i \in 1 .. Len(<<>>) : <<>>[i].bit = bit} = {}
  OBVIOUS
<1>2. CountOf(<<>>, bit) = 0
  BY <1>1, FS_EmptySet DEF CountOf
<1> QED
  BY <1>2

\* A block alone.
LEMMA CountOne ==
  ASSUME NEW S, NEW b \in S, NEW bit
  PROVE  <<b>> \in Seq(S) /\ CountOf(<<b>>, bit) = One(b.bit = bit)
<1>1. <<b>> \in Seq(S)
  OBVIOUS
<1> DEFINE A == {i \in 1 .. Len(<<b>>) : <<b>>[i].bit = bit}
<1>3. CASE b.bit = bit
  <2>1. A = {1}
    BY <1>3
  <2>2. Cardinality({1}) = 1
    BY FS_Singleton
  <2> QED
    BY <1>1, <1>3, <2>1, <2>2 DEF CountOf, One
<1>4. CASE b.bit # bit
  <2>1. A = {}
    BY <1>4
  <2> QED
    BY <1>1, <1>4, <2>1, FS_EmptySet DEF CountOf, One
<1> QED
  BY <1>3, <1>4

\* What an update may carry: an appearance only as it is made.
SentBlocks ==
  {b \in [bit : Nat, size : Nat, length : Nat] : b.bit = AppearanceBit => b = GetPlayerAppearance}

UpdateTypes ==
  /\ graphics \in [0 .. 3 -> Nat] /\ username \in Nat
  /\ faces \in BOOLEAN /\ moving \in BOOLEAN
  /\ blocks \in Seq(SentBlocks)

UpdateInv == UpdateTypes /\ GraphicsPacked

\* How often each flag is sent.
LEMMA BlocksCounted ==
  ASSUME UpdateTypes, NEW bit
  PROVE  /\ Blocks \in Seq(SentBlocks)
         /\ CountOf(Blocks, bit) =
              One(graphics[0] # 0 /\ GraphicBit[1] = bit) + One(graphics[1] # 0 /\ GraphicBit[2] = bit)
              + One(graphics[2] # 0 /\ GraphicBit[3] = bit) + One(graphics[3] # 0 /\ GraphicBit[4] = bit)
              + One(AppearanceBit = bit) + One(faces /\ FaceBit = bit) + One(ClanBit = bit)
              + One(moving /\ MovementBit = bit)
<1> DEFINE S == SentBlocks
           g0 == GraphicBlocks[0]
           g1 == GraphicBlocks[1]
           g2 == GraphicBlocks[2]
           g3 == GraphicBlocks[3]
           ap == <<GetPlayerAppearance>>
           fa == IF faces THEN <<Block(FaceBit, 4)>> ELSE <<>>
           cl == <<Block(ClanBit, 1)>>
           mo == IF moving THEN <<Block(MovementBit, 4)>> ELSE <<>>
<1>1. \A b \in {GraphicBit[1], GraphicBit[2], GraphicBit[3], GraphicBit[4], FaceBit, ClanBit, MovementBit}, n \in Nat :
        Block(b, n) \in S /\ Block(b, n).bit = b
  BY SMT DEF Block, SentBlocks, FaceBit, ClanBit, MovementBit, AppearanceBit, GraphicBit
<1>2. GetPlayerAppearance \in S /\ GetPlayerAppearance.bit = AppearanceBit
  <2>1. AppearanceFields \in Nat /\ AppearanceFields % 256 \in Nat
    BY DEF AppearanceFields, UpdateTypes
  <2> QED
    BY <2>1 DEF GetPlayerAppearance, SentBlocks, AppearanceBit
<1>3. /\ g0 = IF graphics[0] # 0 THEN <<Block(GraphicBit[1], 7)>> ELSE <<>>
      /\ g1 = IF graphics[1] # 0 THEN <<Block(GraphicBit[2], 7)>> ELSE <<>>
      /\ g2 = IF graphics[2] # 0 THEN <<Block(GraphicBit[3], 7)>> ELSE <<>>
      /\ g3 = IF graphics[3] # 0 THEN <<Block(GraphicBit[4], 7)>> ELSE <<>>
  BY DEF GraphicBlocks
<1>4. (graphics[0] # 0) \in BOOLEAN /\ (graphics[1] # 0) \in BOOLEAN /\ (graphics[2] # 0) \in BOOLEAN /\ (graphics[3] # 0) \in BOOLEAN
  OBVIOUS
<1>5. faces \in BOOLEAN /\ moving \in BOOLEAN
  BY DEF UpdateTypes
<1> HIDE DEF S
<1>6. g0 \in Seq(S) /\ CountOf(g0, bit) = One(graphics[0] # 0 /\ GraphicBit[1] = bit)
  <2>1. CASE graphics[0] # 0
    <3>1. g0 = <<Block(GraphicBit[1], 7)>>
      BY <1>3, <2>1
    <3>2. Block(GraphicBit[1], 7) \in S /\ Block(GraphicBit[1], 7).bit = GraphicBit[1]
      BY <1>1
    <3> HIDE DEF g0
    <3>3. <<Block(GraphicBit[1], 7)>> \in Seq(S) /\ CountOf(<<Block(GraphicBit[1], 7)>>, bit) = One(Block(GraphicBit[1], 7).bit = bit)
      BY <3>2, CountOne
    <3> QED
      BY <2>1, <3>1, <3>2, <3>3 DEF One
  <2>2. CASE ~(graphics[0] # 0)
    <3>1. g0 = <<>>
      BY <1>3, <2>2
    <3> HIDE DEF g0
    <3> QED
      BY <2>2, <3>1, CountNone DEF One
  <2> QED
    BY <2>1, <2>2
<1>7. g1 \in Seq(S) /\ CountOf(g1, bit) = One(graphics[1] # 0 /\ GraphicBit[2] = bit)
  <2>1. CASE graphics[1] # 0
    <3>1. g1 = <<Block(GraphicBit[2], 7)>>
      BY <1>3, <2>1
    <3>2. Block(GraphicBit[2], 7) \in S /\ Block(GraphicBit[2], 7).bit = GraphicBit[2]
      BY <1>1
    <3> HIDE DEF g1
    <3>3. <<Block(GraphicBit[2], 7)>> \in Seq(S) /\ CountOf(<<Block(GraphicBit[2], 7)>>, bit) = One(Block(GraphicBit[2], 7).bit = bit)
      BY <3>2, CountOne
    <3> QED
      BY <2>1, <3>1, <3>2, <3>3 DEF One
  <2>2. CASE ~(graphics[1] # 0)
    <3>1. g1 = <<>>
      BY <1>3, <2>2
    <3> HIDE DEF g1
    <3> QED
      BY <2>2, <3>1, CountNone DEF One
  <2> QED
    BY <2>1, <2>2
<1>8. g2 \in Seq(S) /\ CountOf(g2, bit) = One(graphics[2] # 0 /\ GraphicBit[3] = bit)
  <2>1. CASE graphics[2] # 0
    <3>1. g2 = <<Block(GraphicBit[3], 7)>>
      BY <1>3, <2>1
    <3>2. Block(GraphicBit[3], 7) \in S /\ Block(GraphicBit[3], 7).bit = GraphicBit[3]
      BY <1>1
    <3> HIDE DEF g2
    <3>3. <<Block(GraphicBit[3], 7)>> \in Seq(S) /\ CountOf(<<Block(GraphicBit[3], 7)>>, bit) = One(Block(GraphicBit[3], 7).bit = bit)
      BY <3>2, CountOne
    <3> QED
      BY <2>1, <3>1, <3>2, <3>3 DEF One
  <2>2. CASE ~(graphics[2] # 0)
    <3>1. g2 = <<>>
      BY <1>3, <2>2
    <3> HIDE DEF g2
    <3> QED
      BY <2>2, <3>1, CountNone DEF One
  <2> QED
    BY <2>1, <2>2
<1>9. g3 \in Seq(S) /\ CountOf(g3, bit) = One(graphics[3] # 0 /\ GraphicBit[4] = bit)
  <2>1. CASE graphics[3] # 0
    <3>1. g3 = <<Block(GraphicBit[4], 7)>>
      BY <1>3, <2>1
    <3>2. Block(GraphicBit[4], 7) \in S /\ Block(GraphicBit[4], 7).bit = GraphicBit[4]
      BY <1>1
    <3> HIDE DEF g3
    <3>3. <<Block(GraphicBit[4], 7)>> \in Seq(S) /\ CountOf(<<Block(GraphicBit[4], 7)>>, bit) = One(Block(GraphicBit[4], 7).bit = bit)
      BY <3>2, CountOne
    <3> QED
      BY <2>1, <3>1, <3>2, <3>3 DEF One
  <2>2. CASE ~(graphics[3] # 0)
    <3>1. g3 = <<>>
      BY <1>3, <2>2
    <3> HIDE DEF g3
    <3> QED
      BY <2>2, <3>1, CountNone DEF One
  <2> QED
    BY <2>1, <2>2
<1>10. ap \in Seq(S) /\ CountOf(ap, bit) = One(AppearanceBit = bit)
  BY <1>2, CountOne DEF One
<1>11. fa \in Seq(S) /\ CountOf(fa, bit) = One(faces /\ FaceBit = bit)
  <2>1. CASE faces
    <3>1. fa = <<Block(FaceBit, 4)>>
      BY <1>3, <2>1
    <3>2. Block(FaceBit, 4) \in S /\ Block(FaceBit, 4).bit = FaceBit
      BY <1>1
    <3> HIDE DEF fa
    <3>3. <<Block(FaceBit, 4)>> \in Seq(S) /\ CountOf(<<Block(FaceBit, 4)>>, bit) = One(Block(FaceBit, 4).bit = bit)
      BY <3>2, CountOne
    <3> QED
      BY <2>1, <3>1, <3>2, <3>3 DEF One
  <2>2. CASE ~(faces)
    <3>1. fa = <<>>
      BY <1>3, <2>2
    <3> HIDE DEF fa
    <3> QED
      BY <2>2, <3>1, CountNone DEF One
  <2> QED
    BY <2>1, <2>2
<1>12. cl \in Seq(S) /\ CountOf(cl, bit) = One(ClanBit = bit)
  BY <1>1, CountOne DEF One
<1>13. mo \in Seq(S) /\ CountOf(mo, bit) = One(moving /\ MovementBit = bit)
  <2>1. CASE moving
    <3>1. mo = <<Block(MovementBit, 4)>>
      BY <1>3, <2>1
    <3>2. Block(MovementBit, 4) \in S /\ Block(MovementBit, 4).bit = MovementBit
      BY <1>1
    <3> HIDE DEF mo
    <3>3. <<Block(MovementBit, 4)>> \in Seq(S) /\ CountOf(<<Block(MovementBit, 4)>>, bit) = One(Block(MovementBit, 4).bit = bit)
      BY <3>2, CountOne
    <3> QED
      BY <2>1, <3>1, <3>2, <3>3 DEF One
  <2>2. CASE ~(moving)
    <3>1. mo = <<>>
      BY <1>3, <2>2
    <3> HIDE DEF mo
    <3> QED
      BY <2>2, <3>1, CountNone DEF One
  <2> QED
    BY <2>1, <2>2
<1>14. Blocks = g0 \o g1 \o g2 \o g3 \o ap \o fa \o cl \o mo
  BY DEF Blocks
<1> HIDE DEF g0, g1, g2, g3, ap, fa, cl, mo
<1> DEFINE s2 == g0 \o g1
           s3 == s2 \o g2
           s4 == s3 \o g3
           s5 == s4 \o ap
           s6 == s5 \o fa
           s7 == s6 \o cl
           s8 == s7 \o mo
<1>15. s2 \in Seq(S) /\ CountOf(s2, bit) = CountOf(g0, bit) + CountOf(g1, bit)
  BY <1>6, <1>7, CountConcat
<1> HIDE DEF s2
<1>16. s3 \in Seq(S) /\ CountOf(s3, bit) = CountOf(s2, bit) + CountOf(g2, bit)
  BY <1>8, <1>15, CountConcat
<1> HIDE DEF s3
<1>17. s4 \in Seq(S) /\ CountOf(s4, bit) = CountOf(s3, bit) + CountOf(g3, bit)
  BY <1>9, <1>16, CountConcat
<1> HIDE DEF s4
<1>18. s5 \in Seq(S) /\ CountOf(s5, bit) = CountOf(s4, bit) + CountOf(ap, bit)
  BY <1>10, <1>17, CountConcat
<1> HIDE DEF s5
<1>19. s6 \in Seq(S) /\ CountOf(s6, bit) = CountOf(s5, bit) + CountOf(fa, bit)
  BY <1>11, <1>18, CountConcat
<1> HIDE DEF s6
<1>20. s7 \in Seq(S) /\ CountOf(s7, bit) = CountOf(s6, bit) + CountOf(cl, bit)
  BY <1>12, <1>19, CountConcat
<1> HIDE DEF s7
<1>21. s8 \in Seq(S) /\ CountOf(s8, bit) = CountOf(s7, bit) + CountOf(mo, bit)
  BY <1>13, <1>20, CountConcat
<1> HIDE DEF s8
<1>22. Blocks = s8
  BY <1>14 DEF s2, s3, s4, s5, s6, s7, s8
<1>23. \A c \in BOOLEAN : One(c) \in Nat
  BY DEF One
<1> QED
  BY <1>6, <1>7, <1>8, <1>9, <1>10, <1>11, <1>12, <1>13, <1>15, <1>16, <1>17, <1>18, <1>19, <1>20, <1>21, <1>22, <1>23 DEF S

\* An update is announced by a mask of three bytes, flag by flag.
LEMMA AnnouncedAsSent == UpdateTypes => AnnouncedIsSent
<1> SUFFICES ASSUME UpdateTypes PROVE AnnouncedIsSent
  OBVIOUS
<1> DEFINE a == One(graphics[0] # 0)
           b == One(graphics[1] # 0)
           c == One(graphics[2] # 0)
           d == One(graphics[3] # 0)
           f == One(faces)
           m == One(moving)
           mask == 262160 + f + 4 * a + 32768 * b + 4194304 * c + 8388608 * d + 128 * m
<1>1. a \in 0 .. 1 /\ b \in 0 .. 1 /\ c \in 0 .. 1 /\ d \in 0 .. 1 /\ f \in 0 .. 1 /\ m \in 0 .. 1
  BY DEF One
<1>2. /\ Flag(faces, FaceBit) = f
      /\ Flag(graphics[0] # 0, GraphicBit[1]) = 4 * a
      /\ Flag(graphics[1] # 0, GraphicBit[2]) = 32768 * b
      /\ Flag(graphics[2] # 0, GraphicBit[3]) = 4194304 * c
      /\ Flag(graphics[3] # 0, GraphicBit[4]) = 8388608 * d
      /\ Flag(moving, MovementBit) = 128 * m
  BY DEF Flag, One, FaceBit, GraphicBit, MovementBit
<1> HIDE DEF a, b, c, d, f, m
<1>3. Mask = mask + 1026
  <2>1. /\ ClanBit + AppearanceBit + Flag(faces, FaceBit)
             + Flag(graphics[0] # 0, GraphicBit[1]) + Flag(graphics[1] # 0, GraphicBit[2])
             + Flag(graphics[2] # 0, GraphicBit[3]) + Flag(graphics[3] # 0, GraphicBit[4])
             + Flag(moving, MovementBit) = mask
        /\ mask >= 255 /\ mask + 2 >= 65535
    BY <1>1, <1>2 DEF ClanBit, AppearanceBit
  <2>2. mask \in Nat
    BY <1>1
  <2> HIDE DEF mask
  <2>3. Flag(mask >= 255, 2) = 2 /\ Flag(mask + 2 >= 65535, 1024) = 1024
    BY <2>1 DEF Flag
  <2> QED
    BY <2>1, <2>2, <2>3 DEF Mask
<1>4. /\ (Mask \div 1) % 2 = f /\ (Mask \div 4) % 2 = a /\ (Mask \div 16) % 2 = 1
      /\ (Mask \div 128) % 2 = m /\ (Mask \div 32768) % 2 = b
      /\ (Mask \div 262144) % 2 = 1 /\ (Mask \div 4194304) % 2 = c /\ (Mask \div 8388608) % 2 = d
      /\ (Mask \div 2) % 2 = 1 /\ (Mask \div 1024) % 2 = 1 /\ Mask > 65535
  BY <1>1, <1>3
<1>5. MaskBytes = 3
  BY <1>1, <1>3 DEF MaskBytes
<1>6. (MaskHas(2) <=> MaskBytes >= 2) /\ (MaskHas(1024) <=> MaskBytes = 3)
  BY <1>4, <1>5 DEF MaskHas
<1>7. AllBits = {4, 32768, 4194304, 8388608, 16, 262144, 1, 128}
  <2>1. ToSet(GraphicBit) = {4, 32768, 4194304, 8388608}
    BY DEF ToSet, GraphicBit
  <2> QED
    BY <2>1 DEF AllBits, AppearanceBit, ClanBit, FaceBit, MovementBit
<1>8. ASSUME NEW bit \in AllBits PROVE CountOf(Blocks, bit) = One(MaskHas(bit))
  <2>1. CountOf(Blocks, bit) =
              One(graphics[0] # 0 /\ 4 = bit) + One(graphics[1] # 0 /\ 32768 = bit)
              + One(graphics[2] # 0 /\ 4194304 = bit) + One(graphics[3] # 0 /\ 8388608 = bit)
              + One(16 = bit) + One(faces /\ 1 = bit) + One(262144 = bit)
              + One(moving /\ 128 = bit)
    BY SMT, BlocksCounted DEF AppearanceBit, ClanBit, FaceBit, MovementBit, GraphicBit
  <2>2. bit \in {4, 32768, 4194304, 8388608, 16, 262144, 1, 128}
    BY <1>7
  <2>3. CASE bit = 4
    BY <1>4, <2>1, <2>3 DEF One, MaskHas, a
  <2>4. CASE bit = 32768
    BY <1>4, <2>1, <2>4 DEF One, MaskHas, b
  <2>5. CASE bit = 4194304
    BY <1>4, <2>1, <2>5 DEF One, MaskHas, c
  <2>6. CASE bit = 8388608
    BY <1>4, <2>1, <2>6 DEF One, MaskHas, d
  <2>7. CASE bit = 16
    BY <1>4, <2>1, <2>7 DEF One, MaskHas
  <2>8. CASE bit = 262144
    BY <1>4, <2>1, <2>8 DEF One, MaskHas
  <2>9. CASE bit = 1
    BY <1>4, <2>1, <2>9 DEF One, MaskHas, f
  <2>10. CASE bit = 128
    BY <1>4, <2>1, <2>10 DEF One, MaskHas, m
  <2> QED
    BY <2>2, <2>3, <2>4, <2>5, <2>6, <2>7, <2>8, <2>9, <2>10
<1> QED
  BY <1>6, <1>8 DEF AnnouncedIsSent, CountOf, One

\* Setting and clearing graphics leaves no slot empty below one in use.
LEMMA GraphicsStayPacked ==
  ASSUME graphics \in [0 .. 3 -> Nat], GraphicsPacked, NEW id \in Nat, SetNextGraphics(id)
  PROVE  graphics' \in [0 .. 3 -> Nat] /\ GraphicsPacked'
<1> DEFINE g == graphics
<1>1. /\ \A i, j \in 0 .. 3 : i < j /\ g[j] # 0 => g[i] # 0
      /\ \A i, j \in 0 .. 3 : i # j /\ g[i] # 0 => g[i] # g[j]
  BY DEF GraphicsPacked
<1>2. CASE id = 0
  <2> DEFINE l == LastInUse(g)
             P(i) == (i # 0 => g[i] # 0) /\ \A j \in i + 1 .. 3 : g[j] = 0
  <2>1. \E i \in 0 .. 3 : P(i)
    <3>1. CASE g[3] # 0
      BY <3>1
    <3>2. CASE g[3] = 0 /\ g[2] # 0
      BY <3>2
    <3>3. CASE g[3] = 0 /\ g[2] = 0 /\ g[1] # 0
      BY <3>3
    <3>4. CASE g[3] = 0 /\ g[2] = 0 /\ g[1] = 0
      BY <3>4
    <3> QED
      BY <3>1, <3>2, <3>3, <3>4
  <2>2. l \in 0 .. 3 /\ \A j \in l + 1 .. 3 : g[j] = 0
    BY <2>1 DEF LastInUse
  <2>3. graphics' = [g EXCEPT ![l] = 0]
    BY <1>2 DEF SetNextGraphics
  <2> HIDE DEF l
  <2>4. \A i \in 0 .. 3 : graphics'[i] = IF i = l THEN 0 ELSE g[i]
    BY <2>2, <2>3
  <2>5. \A i, j \in 0 .. 3 : i < j /\ graphics'[j] # 0 => graphics'[i] # 0
    <3> TAKE i, j \in 0 .. 3
    <3> SUFFICES ASSUME i < j, graphics'[j] # 0 PROVE graphics'[i] # 0
      OBVIOUS
    <3>1. j # l /\ g[j] # 0
      BY <2>4
    <3>2. j < l
      BY <2>2, <3>1
    <3> QED
      BY <1>1, <2>4, <3>1, <3>2
  <2>6. \A i, j \in 0 .. 3 : i # j /\ graphics'[i] # 0 => graphics'[i] # graphics'[j]
    BY <1>1, <2>4
  <2> QED
    BY <2>3, <2>5, <2>6 DEF GraphicsPacked
<1>3. CASE id # 0 /\ \E i \in 0 .. 3 : g[i] = id
  <2>1. graphics' = g
    BY <1>3 DEF SetNextGraphics
  <2> QED
    BY <1>1, <2>1 DEF GraphicsPacked
<1>4. CASE id # 0 /\ ~\E i \in 0 .. 3 : g[i] = id
  <2> DEFINE S == {i \in 0 .. 2 : g[i] = 0} \cup {3}
             f == FirstFree(g)
  <2>1. Min(S) \in S /\ \A i \in S : Min(S) <= i
    <3>1. S \in SUBSET Nat /\ S # {}
      OBVIOUS
    <3> HIDE DEF S
    <3> QED
      BY <3>1, MinOfNaturals
  <2>2. f \in 0 .. 3 /\ \A i \in 0 .. 2 : i < f => g[i] # 0
    <3>1. f = Min(S)
      BY DEF FirstFree
    <3> HIDE DEF f
    <3>2. f \in S /\ \A i \in S : f <= i
      BY <2>1, <3>1
    <3> QED
      BY <3>2
  <2>3. graphics' = [g EXCEPT ![f] = id]
    BY <1>4 DEF SetNextGraphics
  <2> HIDE DEF f
  <2>4. \A i \in 0 .. 3 : graphics'[i] = IF i = f THEN id ELSE g[i]
    BY <2>2, <2>3
  <2>5. \A i, j \in 0 .. 3 : i < j /\ graphics'[j] # 0 => graphics'[i] # 0
    BY <1>1, <1>4, <2>2, <2>4
  <2>6. \A i, j \in 0 .. 3 : i # j /\ graphics'[i] # 0 => graphics'[i] # graphics'[j]
    BY <1>1, <1>4, <2>4
  <2> QED
    BY <2>3, <2>5, <2>6 DEF GraphicsPacked
<1> QED
  BY <1>2, <1>3, <1>4

\* A client finds its way through every update: for any graphics and names, in
\* whatever order the graphics were set and cleared.
THEOREM UpdatesCanBeRead == UpdateInit /\ [][UpdateNext]_updateVars => []UpdateCanBeRead
<1>0. GraphicIds \subseteq Nat /\ NameLengths \subseteq Nat
  BY GraphicAssumption, SMT DEF GraphicAssumption
<1>1. UpdateInit => UpdateInv
  <2> SUFFICES ASSUME UpdateInit PROVE UpdateInv
    OBVIOUS
  <2>1. /\ graphics = [i \in 0 .. 3 |-> IF i = 0 THEN 188 ELSE 0]
        /\ username \in Nat /\ faces = TRUE /\ moving = TRUE /\ blocks = <<>>
    BY <1>0 DEF UpdateInit
  <2>2. UpdateTypes
    BY <2>1 DEF UpdateTypes
  <2>3. GraphicsPacked
    BY <2>1 DEF GraphicsPacked
  <2> QED
    BY <2>2, <2>3 DEF UpdateInv
<1>2. UpdateInv /\ [UpdateNext]_updateVars => UpdateInv'
  <2> SUFFICES ASSUME UpdateInv, [UpdateNext]_updateVars PROVE UpdateInv'
    OBVIOUS
  <2>1. ASSUME username' = username PROVE SentBlocks' = SentBlocks
    BY <2>1 DEF SentBlocks, GetPlayerAppearance, AppearanceFields
  <2>2. ASSUME NEW id \in GraphicIds \cup {0}, SetNextGraphics(id) PROVE UpdateInv'
    <3>1. id \in Nat
      BY <1>0
    <3>2. UNCHANGED <<username, faces, moving, blocks>>
      BY <2>2 DEF SetNextGraphics
    <3>3. graphics' \in [0 .. 3 -> Nat] /\ GraphicsPacked'
      BY <2>2, <3>1, GraphicsStayPacked DEF UpdateInv, UpdateTypes
    <3> QED
      BY <2>1, <3>2, <3>3 DEF UpdateInv, UpdateTypes
  <2>3. ASSUME NEW value \in BOOLEAN, set_update_movement_type(value) PROVE UpdateInv'
    <3>1. moving' \in BOOLEAN /\ UNCHANGED <<graphics, username, faces, blocks>>
      BY <2>3 DEF set_update_movement_type
    <3> QED
      BY <2>1, <3>1 DEF UpdateInv, UpdateTypes, GraphicsPacked
  <2>4. CASE MovedIntoView
    <3>1. blocks' = Blocks /\ UNCHANGED <<graphics, username, faces, moving>>
      BY <2>4 DEF MovedIntoView
    <3>2. Blocks \in Seq(SentBlocks)
      BY BlocksCounted DEF UpdateInv
    <3> QED
      BY <2>1, <3>1, <3>2 DEF UpdateInv, UpdateTypes, GraphicsPacked
  <2>5. CASE UNCHANGED updateVars
    <3>1. UNCHANGED <<graphics, username, faces, moving, blocks>>
      BY <2>5 DEF updateVars
    <3> QED
      BY <2>1, <3>1 DEF UpdateInv, UpdateTypes, GraphicsPacked
  <2> QED
    BY <2>2, <2>3, <2>4, <2>5 DEF UpdateNext
<1>3. UpdateInv => UpdateCanBeRead
  <2> SUFFICES ASSUME UpdateInv PROVE UpdateCanBeRead
    OBVIOUS
  <2>1. AnnouncedIsSent
    BY AnnouncedAsSent DEF UpdateInv
  <2>2. LengthLeadsToNextBlock
    <3> SUFFICES ASSUME username <= kLongestMeasured, NEW i \in 1 .. Len(blocks), blocks[i].bit = AppearanceBit
                 PROVE  1 + blocks[i].length = blocks[i].size
      BY DEF LengthLeadsToNextBlock
    <3>1. blocks[i] \in SentBlocks
      BY DEF UpdateInv, UpdateTypes
    <3>2. blocks[i] = GetPlayerAppearance
      BY <3>1 DEF SentBlocks
    <3>3. AppearanceFields \in 0 .. 255
      BY DEF AppearanceFields, kLongestMeasured, UpdateInv, UpdateTypes
    <3>4. AppearanceFields % 256 = AppearanceFields
      BY <3>3
    <3> QED
      BY <3>2, <3>4 DEF GetPlayerAppearance
  <2> QED
    BY <2>1, <2>2 DEF UpdateCanBeRead, UpdateInv
<1> QED
  BY <1>1, <1>2, <1>3, PTL

-----------------------------------------------------------------------------
(* The bits of an update *)

\* How many bits of a write are stored.
Done(i) == IF i = Len(written) THEN written[i].width - left ELSE written[i].width

BitTypes ==
  /\ others \subseteq 0 .. MaxPlayerSlot /\ unplaced \subseteq others
  /\ bits \in Seq(Nat \X Nat) /\ written \in Seq([at : Nat, width : Nat])
  /\ bitPosition \in Nat /\ left \in Nat /\ byte \in Nat /\ offset \in 0 .. 8

\* The loop of a write is where the bits it has stored end.
LoopIsAtRest ==
  left > 0 =>
    /\ Len(written) > 0 /\ offset \in 1 .. 8
    /\ left <= written[Len(written)].width
    /\ 8 * byte + 8 - offset = written[Len(written)].at + written[Len(written)].width - left

WritesAscend ==
  /\ \A i \in 1 .. Len(written) : written[i].at + written[i].width <= bitPosition
  /\ \A i, j \in 1 .. Len(written) : i < j => written[i].at + written[i].width <= written[j].at

DoneIsStored ==
  \A i \in 1 .. Len(written) : \A b \in 1 .. Done(i) :
    written[i].at + b <= Len(bits) /\ bits[written[i].at + b] = <<i, written[i].width + 1 - b>>

StoredIsDone ==
  \A p \in 1 .. Len(bits) :
    bits[p] # Zero => \E i \in 1 .. Len(written) : p - written[i].at \in 1 .. Done(i)

\* The two kinds of program: an update of the players, or the message of a move.
WritesAnUpdate ==
  /\ Len(bits) = 8 * UpdateBytes
  /\ \A i \in 1 .. Len(written) :
       written[i] = Write(0, TileBits) \/ \E s \in others \ unplaced : written[i] = Place(s, others)
  /\ \A s \in others \ unplaced : \E i \in 1 .. Len(written) : written[i] = Place(s, others)
  /\ \/ program = LocalUpdate /\ bitPosition = 0 /\ unplaced = others /\ written = <<>>
     \/ program = <<>> /\ \A s \in unplaced : bitPosition <= TileBits + RegionBits * s

WritesAMove ==
  /\ others = {} /\ Len(bits) \in {0, 8}
  /\ program \in Seq([at : {Here}, width : 1 .. 2])
  /\ bitPosition + 2 * Len(program) <= 8

BitInv ==
  /\ BitTypes /\ LoopIsAtRest /\ WritesAscend /\ DoneIsStored /\ StoredIsDone
  /\ WritesAnUpdate \/ WritesAMove
  /\ OverrunNeedsManyPlayers

\* One write more.
LEMMA AppendedWrite ==
  ASSUME NEW S, NEW s \in Seq(S), NEW e \in S
  PROVE  /\ Append(s, e) \in Seq(S) /\ Len(Append(s, e)) = Len(s) + 1
         /\ \A i \in 1 .. Len(s) : Append(s, e)[i] = s[i]
         /\ Append(s, e)[Len(s) + 1] = e
  OBVIOUS

\* The writes so far begin and end at naturals.
LEMMA WritesAreTyped ==
  ASSUME BitTypes
  PROVE  /\ Len(written) \in Nat
         /\ \A i \in 1 .. Len(written) :
              /\ written[i] \in [at : Nat, width : Nat]
              /\ written[i].at \in Nat /\ written[i].width \in Nat
<1>1. written \in Seq([at : Nat, width : Nat])
  BY DEF BitTypes
<1>2. \A i \in 1 .. Len(written) : written[i] \in [at : Nat, width : Nat]
  BY <1>1, ElementOfSeq
<1>3. Len(written) \in Nat
  BY <1>1
<1> QED
  BY <1>2, <1>3

\* Whatever is stored next, the bits stored before stay and the new ones follow
\* them in their write.
LEMMA StoringKeepsContents ==
  ASSUME BitTypes, LoopIsAtRest, WritesAscend, DoneIsStored, StoredIsDone,
         NEW n \in Nat, 0 < n, n <= left, n <= offset, 8 * byte + 8 <= Len(bits),
         bits' = Stored(n), left' = left - n, UNCHANGED written
  PROVE  /\ bits' \in Seq(Nat \X Nat) /\ Len(bits') = Len(bits)
         /\ DoneIsStored' /\ StoredIsDone'
<1> DEFINE N == Len(written)
           q == 8 * byte + 8 - offset
<1>1. /\ N \in Nat /\ N > 0 /\ left \in Nat /\ byte \in Nat /\ offset \in 1 .. 8
      /\ \A i \in 1 .. N : written[i].at \in Nat /\ written[i].width \in Nat
      /\ left <= written[N].width /\ q = written[N].at + written[N].width - left
      /\ q \in Nat /\ q + n <= Len(bits) /\ Len(bits) \in Nat
  <2>1. \A i \in 1 .. N : written[i].at \in Nat /\ written[i].width \in Nat
    BY WritesAreTyped
  <2>5. N \in Nat /\ left \in Nat /\ byte \in Nat /\ Len(bits) \in Nat
    BY DEF BitTypes
  <2>6. left > 0
    BY <2>5
  <2>7. N > 0 /\ offset \in 1 .. 8
    BY <2>6 DEF LoopIsAtRest
  <2>2. N \in Nat /\ N > 0 /\ left \in Nat /\ byte \in Nat /\ offset \in 1 .. 8 /\ Len(bits) \in Nat
    BY <2>5, <2>7
  <2>3. left <= written[N].width /\ q = written[N].at + written[N].width - left
    BY DEF BitTypes, LoopIsAtRest
  <2>4. q \in Nat /\ q + n <= Len(bits)
    BY <2>2
  <2> HIDE DEF q
  <2> QED
    BY <2>1, <2>2, <2>3, <2>4
<1>2. /\ bits' = [p \in 1 .. Len(bits) |->
                   IF p - 1 - q \in 0 .. n - 1 THEN <<N, left - (p - 1 - q)>> ELSE bits[p]]
  BY DEF Stored
<1> HIDE DEF q
<1>3. bits' \in Seq(Nat \X Nat) /\ Len(bits') = Len(bits)
  <2>1. \A p \in 1 .. Len(bits) : bits[p] \in Nat \X Nat
    BY DEF BitTypes
  <2>2. \A p \in 1 .. Len(bits) : p - 1 - q \in 0 .. n - 1 => left - (p - 1 - q) \in Nat
    BY <1>1
  <2> DEFINE F(p) == IF p - 1 - q \in 0 .. n - 1 THEN <<N, left - (p - 1 - q)>> ELSE bits[p]
  <2>3. \A p \in 1 .. Len(bits) : F(p) \in Nat \X Nat
    BY <1>1, <2>1, <2>2
  <2>4. bits' = [p \in 1 .. Len(bits) |-> F(p)]
    BY <1>2
  <2> HIDE DEF F
  <2> QED
    BY <1>1, <2>3, <2>4
<1>4. /\ written' = written /\ Len(written') = N
      /\ \A i \in 1 .. N : i # N => Done(i)' = written[i].width /\ Done(i) = written[i].width
      /\ Done(N) = q - written[N].at /\ Done(N)' = q + n - written[N].at
  <2>1. written' = written /\ Len(written') = N
    OBVIOUS
  <2>2. ASSUME NEW i \in 1 .. N, i # N PROVE Done(i)' = written[i].width /\ Done(i) = written[i].width
    BY <2>1, <2>2 DEF Done
  <2>3. Done(N) = written[N].width - left /\ Done(N)' = written[N].width - (left - n)
    BY <2>1 DEF Done
  <2>4. written[N].at \in Nat /\ written[N].width \in Nat
    BY <1>1
  <2>5. Done(N) = q - written[N].at /\ Done(N)' = q + n - written[N].at
    <3> DEFINE at == written[N].at
               width == written[N].width
    <3>1. at \in Nat /\ width \in Nat /\ left \in Nat /\ q = at + width - left
      BY <1>1, <2>4
    <3> HIDE DEF at, width
    <3>2. width - left = q - at /\ width - (left - n) = q + n - at
      BY <3>1
    <3> QED
      BY <2>3, <3>2 DEF at, width
  <2> QED
    BY <2>1, <2>2, <2>5
<1>5. \A i \in 1 .. N : i # N => written[i].at + written[i].width <= written[N].at
  <2>1. \A i, j \in 1 .. N : i < j => written[i].at + written[i].width <= written[j].at
    BY DEF WritesAscend
  <2>2. N \in 1 .. N /\ \A i \in 1 .. N : i # N => i < N
    BY <1>1
  <2> HIDE DEF N
  <2> QED
    BY <2>1, <2>2
<1>6. written[N].at <= q
  <2> DEFINE at == written[N].at
             width == written[N].width
  <2>1. at \in Nat /\ width \in Nat /\ left \in Nat /\ left <= width /\ q = at + width - left
    BY <1>1
  <2> HIDE DEF at, width
  <2>2. at <= q
    BY <2>1
  <2> QED
    BY <2>2 DEF at
<1>7. DoneIsStored'
  <2> SUFFICES ASSUME NEW i \in 1 .. N, NEW b \in 1 .. Done(i)'
               PROVE  written[i].at + b <= Len(bits)
                      /\ bits'[written[i].at + b] = <<i, written[i].width + 1 - b>>
    BY <1>3, <1>4 DEF DoneIsStored
  <2> DEFINE p == written[i].at + b
  <2>1. CASE b \in 1 .. Done(i)
    <3>1. p <= Len(bits) /\ bits[p] = <<i, written[i].width + 1 - b>>
      BY <2>1 DEF DoneIsStored
    <3>2. b \in Int /\ p <= q /\ p \in Nat /\ p >= 1
      <4> DEFINE d == Done(i)
                 at == written[i].at
                 width == written[i].width
      <4>1. at \in Nat /\ width \in Nat /\ written[N].at \in Nat /\ q \in Nat
        BY <1>1
      <4>2. at + d <= q /\ d \in Int
        <5>1. CASE i = N
          BY <1>4, <4>1, <5>1
        <5>2. CASE i # N
          <6>1. d = width /\ at + width <= written[N].at
            BY <1>4, <1>5, <5>2
          <6> QED
            BY <1>6, <4>1, <6>1
        <5> QED
          BY <5>1, <5>2
      <4> HIDE DEF d, at
      <4>3. b \in 1 .. d
        BY <2>1 DEF d
      <4>4. b \in Int /\ at + b <= q /\ at + b \in Nat /\ at + b >= 1
        BY <4>1, <4>2, <4>3
      <4> QED
        BY <4>4 DEF at
    <3>5. q \in Nat /\ Len(bits) \in Nat
      BY <1>1
    <3> HIDE DEF p
    <3>3. p \in 1 .. Len(bits) /\ ~(p - 1 - q \in 0 .. n - 1)
      BY <3>1, <3>2, <3>5
    <3>4. bits'[p] = bits[p]
      BY <1>2, <3>3
    <3> QED
      BY <3>1, <3>4 DEF p
  <2>2. CASE ~(b \in 1 .. Done(i))
    <3>1. i = N
      BY <1>4, <2>2
    <3>2. b \in Int /\ b > q - written[N].at /\ b <= q + n - written[N].at
      BY <1>1, <1>4, <2>2, <3>1
    <3> DEFINE at == written[N].at
               width == written[N].width
    <3>7. /\ at \in Nat /\ width \in Nat /\ left \in Nat /\ q \in Nat /\ Len(bits) \in Nat
          /\ q = at + width - left /\ q + n <= Len(bits)
      BY <1>1
    <3>8. p = at + b /\ b > q - at /\ b <= q + n - at
      BY <3>1, <3>2
    <3> HIDE DEF p, at, width
    <3>3. p \in 1 .. Len(bits) /\ p - 1 - q \in 0 .. n - 1
      BY <3>2, <3>7, <3>8
    <3>9. left - (p - 1 - q) = width + 1 - b
      BY <3>2, <3>7, <3>8
    <3>4. left - (p - 1 - q) = written[i].width + 1 - b
      BY <3>1, <3>9 DEF width
    <3>5. bits'[p] = <<N, left - (p - 1 - q)>>
      BY <1>2, <3>3
    <3>6. p <= Len(bits)
      BY <1>1, <3>3
    <3> QED
      BY <3>1, <3>4, <3>5, <3>6 DEF p
  <2> QED
    BY <2>1, <2>2
<1>8. StoredIsDone'
  <2> SUFFICES ASSUME NEW p \in 1 .. Len(bits), bits'[p] # Zero
               PROVE  \E i \in 1 .. N : p - written[i].at \in 1 .. Done(i)'
    BY <1>3, <1>4 DEF StoredIsDone, Zero
  <2>1. CASE p - 1 - q \in 0 .. n - 1
    <3> DEFINE at == written[N].at
    <3>2. at \in Nat /\ at <= q /\ q \in Nat /\ N \in 1 .. N
      BY <1>1, <1>6
    <3>3. Done(N)' = q + n - at
      BY <1>4
    <3> HIDE DEF at
    <3>4. p - at \in 1 .. q + n - at
      BY <2>1, <3>2
    <3>1. p - written[N].at \in 1 .. Done(N)' /\ N \in 1 .. N
      BY <3>2, <3>3, <3>4 DEF at
    <3> QED
      BY <3>1
  <2>2. CASE ~(p - 1 - q \in 0 .. n - 1)
    <3>1. bits[p] # Zero
      BY <1>2, <2>2
    <3>2. PICK i \in 1 .. N : p - written[i].at \in 1 .. Done(i)
      BY <3>1 DEF StoredIsDone
    <3>3. p - written[i].at \in 1 .. Done(i)'
      <4>1. CASE i = N
        BY <1>1, <1>4, <3>2, <4>1
      <4>2. CASE i # N
        BY <1>1, <1>4, <3>2, <4>2
      <4> QED
        BY <4>1, <4>2
    <3> QED
      BY <3>3
  <2> QED
    BY <2>1, <2>2
<1> QED
  BY <1>3, <1>7, <1>8

\* A write begins past all others.
LEMMA BeginningKeepsContents ==
  ASSUME BitTypes, WritesAscend, DoneIsStored, StoredIsDone,
         NEW start \in Nat, NEW width \in Nat, bitPosition <= start, left = 0,
         written' = Append(written, Write(start, width)), bitPosition' = start + width,
         left' = width, byte' = start \div 8, offset' = 8 - (start % 8),
         UNCHANGED bits
  PROVE  /\ written' \in Seq([at : Nat, width : Nat])
         /\ bitPosition' \in Nat /\ left' \in Nat /\ byte' \in Nat /\ offset' \in 0 .. 8
         /\ LoopIsAtRest' /\ WritesAscend' /\ DoneIsStored' /\ StoredIsDone'
         /\ Len(written') = Len(written) + 1
         /\ written'[Len(written) + 1] = Write(start, width)
         /\ \A i \in 1 .. Len(written) : written'[i] = written[i]
<1> DEFINE w == Write(start, width)
<1>0. PICK N \in Nat : N = Len(written)
  BY WritesAreTyped
<1>1. w \in [at : Nat, width : Nat] /\ w.at = start /\ w.width = width
  BY DEF Write
<1>2. /\ written' \in Seq([at : Nat, width : Nat]) /\ Len(written') = N + 1
      /\ written'[N + 1] = w /\ \A i \in 1 .. N : written'[i] = written[i]
  <2>1. written \in Seq([at : Nat, width : Nat])
    BY DEF BitTypes
  <2> HIDE DEF w
  <2> QED
    BY <1>0, <1>1, <2>1, AppendedWrite DEF w
<1>3. N \in Nat
  OBVIOUS
<1>4. /\ start \div 8 \in Nat /\ 8 - (start % 8) \in 1 .. 8 /\ 8 * (start \div 8) + 8 - (8 - (start % 8)) = start
  OBVIOUS
<1>5. bitPosition' \in Nat /\ left' \in Nat /\ byte' \in Nat /\ offset' \in 0 .. 8
  BY <1>4
<1>6. LoopIsAtRest'
  <2>1. Len(written') > 0 /\ written'[Len(written')] = w
    BY <1>2, <1>3
  <2>2. written'[Len(written')].at = start /\ written'[Len(written')].width = width
    BY <1>1, <2>1
  <2>3. offset' \in 1 .. 8 /\ 8 * byte' + 8 - offset' = start
    BY <1>4
  <2> HIDE DEF w
  <2>4. start = start + width - width /\ width <= width
    OBVIOUS
  <2> QED
    BY <2>1, <2>2, <2>3, <2>4 DEF LoopIsAtRest
<1>7. \A i \in 1 .. N : /\ written[i].at \in Nat /\ written[i].width \in Nat
                        /\ written[i].at + written[i].width <= bitPosition
  <2>1. \A i \in 1 .. N : written[i].at \in Nat /\ written[i].width \in Nat
    BY <1>0, WritesAreTyped
  <2> QED
    BY <1>0, <2>1 DEF WritesAscend
<1> HIDE DEF w
<1>8. WritesAscend'
  <2>1. ASSUME NEW i \in 1 .. N + 1 PROVE written'[i].at + written'[i].width <= bitPosition'
    <3>1. CASE i = N + 1
      BY <1>1, <1>2, <3>1
    <3>2. CASE i # N + 1
      <4>1. i \in 1 .. N
        BY <1>3, <3>2
      <4>2. written'[i] = written[i]
        BY <1>2, <4>1
      <4>3. written[i].at \in Nat /\ written[i].width \in Nat /\ written[i].at + written[i].width <= bitPosition
        BY <1>7, <4>1
      <4>4. bitPosition \in Nat
        BY DEF BitTypes
      <4> QED
        BY <4>2, <4>3, <4>4
    <3> QED
      BY <3>1, <3>2
  <2>2. ASSUME NEW i \in 1 .. N + 1, NEW j \in 1 .. N + 1, i < j
        PROVE  written'[i].at + written'[i].width <= written'[j].at
    <3>1. i \in 1 .. N /\ written'[i] = written[i]
      BY <1>2, <1>3, <2>2
    <3>2. CASE j = N + 1
      <4>1. written'[j].at = start
        BY <1>1, <1>2, <3>2
      <4>2. written[i].at \in Nat /\ written[i].width \in Nat /\ written[i].at + written[i].width <= bitPosition
        BY <1>7, <3>1
      <4>3. bitPosition \in Nat
        BY DEF BitTypes
      <4> QED
        BY <3>1, <4>1, <4>2, <4>3
    <3>3. CASE j # N + 1
      <4>1. j \in 1 .. N /\ written'[j] = written[j]
        BY <1>2, <1>3, <3>3
      <4> QED
        BY <1>0, <2>2, <3>1, <4>1 DEF WritesAscend
    <3> QED
      BY <3>2, <3>3
  <2> QED
    BY <1>2, <2>1, <2>2 DEF WritesAscend
<1>9. /\ \A i \in 1 .. N : Done(i)' = written[i].width /\ Done(i) = written[i].width
      /\ Done(N + 1)' = 0
  <2>1. \A i \in 1 .. N : i # N + 1
    BY <1>3
  <2>2. \A i \in 1 .. N : Done(i)' = written[i].width
    BY <1>2, <2>1 DEF Done
  <2>3. \A i \in 1 .. N : Done(i) = written[i].width
    BY <1>0, <1>7 DEF Done
  <2>4. Done(N + 1)' = 0
    <3>1. Done(N + 1)' = written'[N + 1].width - left'
      BY <1>2 DEF Done
    <3>2. written'[N + 1].width = width
      BY <1>1, <1>2
    <3> QED
      BY <3>1, <3>2
  <2> QED
    BY <2>2, <2>3, <2>4
<1>10. DoneIsStored'
  <2> SUFFICES ASSUME NEW i \in 1 .. N + 1, NEW b \in 1 .. Done(i)'
               PROVE  /\ written'[i].at + b <= Len(bits)
                      /\ bits[written'[i].at + b] = <<i, written'[i].width + 1 - b>>
    BY <1>2 DEF DoneIsStored
  <2>1. i # N + 1
    <3>1. Done(N + 1)' = 0
      BY <1>9
    <3>2. ~(b \in 1 .. 0)
      OBVIOUS
    <3> QED
      BY <3>1, <3>2
  <2>2. i \in 1 .. N
    BY <1>3, <2>1
  <2>3. written'[i] = written[i] /\ b \in 1 .. Done(i)
    BY <1>2, <1>9, <2>2
  <2> QED
    BY <1>0, <2>2, <2>3 DEF DoneIsStored
<1>11. StoredIsDone'
  <2> SUFFICES ASSUME NEW p \in 1 .. Len(bits), bits[p] # Zero
               PROVE  \E i \in 1 .. N + 1 : p - written'[i].at \in 1 .. Done(i)'
    BY <1>2 DEF StoredIsDone, Zero
  <2>1. PICK i \in 1 .. N : p - written[i].at \in 1 .. Done(i)
    BY <1>0 DEF StoredIsDone
  <2>3. written'[i] = written[i] /\ Done(i)' = Done(i)
    BY <1>2, <1>9
  <2>2. i \in 1 .. N + 1 /\ p - written'[i].at \in 1 .. Done(i)'
    BY <1>3, <2>1, <2>3
  <2> QED
    BY <2>2
<1> QED
  BY <1>0, <1>2, <1>5, <1>6, <1>8, <1>10, <1>11 DEF w

\* How many bytes an update has.
LEMMA UpdateHasRoom ==
  /\ UpdateBytes \in Nat /\ UpdateBytes > 3
  /\ \A s \in Nat : s < kSlots => TileBits + RegionBits * s + RegionBits <= 8 * UpdateBytes
<1>1. kSlots \in Nat
  BY BitBufferAssumption
<1>2. UpdateBytes = (37 + kSlots * 18) \div 8
  BY <1>1 DEF UpdateBytes, TileBits, RegionBits
<1> DEFINE u == UpdateBytes
<1>3. u \in Nat /\ 8 * u <= 37 + kSlots * 18 /\ 37 + kSlots * 18 <= 8 * u + 7
  BY <1>1, <1>2
<1> HIDE DEF u
<1>4. u > 3
  BY <1>1, <1>3
<1>5. ASSUME NEW s \in Nat, s < kSlots PROVE 30 + 18 * s + 18 <= 8 * u
  BY <1>1, <1>3, <1>5
<1> QED
  BY <1>3, <1>4, <1>5 DEF u, TileBits, RegionBits

\* A store past the end, as the strengthening of the invariant tells it.
LEMMA OverrunsAreExplained ==
  ASSUME BitInv, Overrun
  PROVE  OverrunNeedsManyPlayers'
<1> DEFINE N == Len(written)
           at == written[N].at
           width == written[N].width
           m == Len(bits) \div 8
<1>1. N \in Nat /\ left \in Nat /\ byte \in Nat /\ offset \in 0 .. 8 /\ bitPosition \in Nat
  BY WritesAreTyped DEF BitInv, BitTypes
<1>2. left > 0
  BY <1>1 DEF Overrun
<1>3. /\ N \in 1 .. N /\ N > 0 /\ offset \in 1 .. 8 /\ left <= width
      /\ 8 * byte + 8 - offset = at + width - left
  BY <1>1, <1>2 DEF BitInv, LoopIsAtRest
<1>4. at \in Nat /\ width \in Nat /\ at + width <= bitPosition
  <2>1. at \in Nat /\ width \in Nat
    BY <1>3, WritesAreTyped DEF BitInv
  <2> QED
    BY <1>3, <2>1 DEF BitInv, WritesAscend
<1>5. m <= byte /\ (left > offset \/ byte # 0)
  BY <1>1 DEF Overrun, Missing, NoRoomForLast, Size8
<1>6. CASE WritesAMove
  <2>1. bitPosition <= 8
    <3>1. program \in Seq([at : {Here}, width : 1 .. 2]) /\ bitPosition + 2 * Len(program) <= 8
      BY <1>6 DEF WritesAMove
    <3>2. Len(program) \in Nat
      BY <3>1
    <3> QED
      BY <1>1, <3>1, <3>2
  <2> HIDE DEF at, width, m
  <2> QED
    BY <1>1, <1>2, <1>3, <1>4, <1>5, <2>1
<1>7. CASE WritesAnUpdate
  <2>1. Len(bits) = 8 * UpdateBytes
    BY <1>7 DEF WritesAnUpdate
  <2>2. m = UpdateBytes
    BY <2>1, UpdateHasRoom
  <2>3. 8 * UpdateBytes < at + width
    <3> DEFINE u == UpdateBytes
    <3>1. u \in Nat /\ u <= byte
      BY <1>5, <2>2, UpdateHasRoom
    <3> HIDE DEF u, at, width, m
    <3>2. 8 * u < at + width
      BY <1>1, <1>2, <1>3, <1>4, <3>1
    <3> QED
      BY <3>2 DEF u
  <2>4. written[N] = Write(0, TileBits) \/ \E s \in others \ unplaced : written[N] = Place(s, others)
    BY <1>3, <1>7 DEF WritesAnUpdate
  <2>5. written[N] # Write(0, TileBits)
    <3> SUFFICES ASSUME written[N] = Write(0, TileBits) PROVE FALSE
      OBVIOUS
    <3>1. at = 0 /\ width = 30
      BY DEF Write, TileBits
    <3> HIDE DEF at, width
    <3> QED
      BY <2>3, <3>1, UpdateHasRoom
  <2>6. PICK s \in others \ unplaced : written[N] = Place(s, others)
    BY <2>4, <2>5
  <2>7. at = TileBits + RegionBits * s /\ width = RegionBits
    BY <2>6 DEF Place, Write
  <2>8. s \in others /\ s \in Nat
    BY DEF BitInv, BitTypes
  <2> HIDE DEF at, width
  <2>9. ~(s < kSlots)
    BY <2>3, <2>7, <2>8, UpdateHasRoom DEF TileBits, RegionBits
  <2>10. s >= kSlots
    BY <2>8, <2>9, BitBufferAssumption
  <2>11. others' = others
    BY DEF Overrun
  <2> QED
    BY <2>8, <2>10, <2>11 DEF OverrunNeedsManyPlayers
<1> QED
  BY <1>6, <1>7 DEF BitInv

\* Between two writes the strengthening says where every bit is.
LEMMA ContentsAreInPlace == BitInv => WrittenInPlace
<1> SUFFICES ASSUME BitInv, left = 0 PROVE
      /\ \A i \in 1 .. Len(written) : \A b \in 1 .. written[i].width :
           bits[written[i].at + b] = <<i, written[i].width + 1 - b>>
      /\ \A p \in 1 .. Len(bits) :
           bits[p] # Zero => \E i \in 1 .. Len(written) : p - written[i].at \in 1 .. written[i].width
      /\ program = <<>> /\ unplaced = {} /\ others # {} =>
           \A slot \in 0 .. MaxPlayerSlot :
             8 * Size8 >= TileBits + RegionBits * (slot + 1) =>
               (slot \in others <=> bits[TileBits + RegionBits * slot + 1] # Zero)
  BY DEF WrittenInPlace
<1>1. \A i \in 1 .. Len(written) :
        written[i].at \in Nat /\ written[i].width \in Nat /\ Done(i) = written[i].width
  <2>1. \A i \in 1 .. Len(written) : written[i].at \in Nat /\ written[i].width \in Nat
    BY WritesAreTyped DEF BitInv
  <2> QED
    BY <2>1 DEF Done
<1>2. \A i \in 1 .. Len(written) : \A b \in 1 .. written[i].width :
        bits[written[i].at + b] = <<i, written[i].width + 1 - b>>
  BY <1>1 DEF BitInv, DoneIsStored
<1>3. \A p \in 1 .. Len(bits) :
        bits[p] # Zero => \E i \in 1 .. Len(written) : p - written[i].at \in 1 .. written[i].width
  BY <1>1 DEF BitInv, StoredIsDone
<1>4. ASSUME program = <<>>, unplaced = {}, others # {}, NEW slot \in 0 .. MaxPlayerSlot,
             8 * Size8 >= TileBits + RegionBits * (slot + 1)
      PROVE  slot \in others <=> bits[TileBits + RegionBits * slot + 1] # Zero
  <2>1. WritesAnUpdate
    BY <1>4 DEF BitInv, WritesAMove
  <2>2. slot \in Nat
    BY BitBufferAssumption
  <2> DEFINE p == TileBits + RegionBits * slot + 1
  <2>3. p \in 1 .. Len(bits) /\ p = 31 + 18 * slot
    <3>1. Len(bits) = 8 * UpdateBytes /\ UpdateBytes \in Nat
      BY <2>1, UpdateHasRoom DEF WritesAnUpdate
    <3>2. Size8 = UpdateBytes
      BY <3>1 DEF Size8
    <3> HIDE DEF p
    <3>3. 8 * UpdateBytes >= 30 + 18 * (slot + 1)
      BY <1>4, <3>2 DEF TileBits, RegionBits
    <3>4. 31 + 18 * slot \in 1 .. 8 * UpdateBytes
      BY <2>2, <3>1, <3>3
    <3> QED
      BY <2>2, <3>1, <3>4 DEF p, TileBits, RegionBits
  <2>4. ASSUME slot \in others PROVE bits[p] # Zero
    <3>1. PICK i \in 1 .. Len(written) : written[i] = Place(slot, others)
      BY <1>4, <2>1, <2>4 DEF WritesAnUpdate
    <3>2. written[i].at = TileBits + RegionBits * slot /\ written[i].width = 18
      BY <3>1 DEF Place, Write, RegionBits
    <3>3. 1 \in 1 .. written[i].width
      BY <3>2
    <3>4. bits[written[i].at + 1] = <<i, written[i].width + 1 - 1>>
      BY <1>2, <3>3
    <3>5. i # 0
      OBVIOUS
    <3> QED
      BY <3>2, <3>4, <3>5 DEF Zero
  <2>5. ASSUME bits[p] # Zero PROVE slot \in others
    <3> HIDE DEF p
    <3>1. PICK i \in 1 .. Len(written) : p - written[i].at \in 1 .. written[i].width
      BY <1>3, <2>3, <2>5
    <3>2. written[i] # Write(0, TileBits)
      <4> SUFFICES ASSUME written[i] = Write(0, TileBits) PROVE FALSE
        OBVIOUS
      <4>1. written[i].at = 0 /\ written[i].width = 30
        BY DEF Write, TileBits
      <4>2. p - 0 \in 1 .. 30
        BY <3>1, <4>1
      <4> QED
        BY <2>2, <2>3, <4>2
    <3>3. PICK s \in others : written[i] = Place(s, others)
      BY <2>1, <3>2 DEF WritesAnUpdate
    <3>4. written[i].at = 30 + 18 * s /\ written[i].width = 18
      BY <3>3 DEF Place, Write, TileBits, RegionBits
    <3>5. s \in Nat
      BY DEF BitInv, BitTypes
    <3>6. p - (30 + 18 * s) \in 1 .. 18
      BY <3>1, <3>4
    <3>7. slot = s
      BY <2>2, <2>3, <3>5, <3>6
    <3> QED
      BY <3>7
  <2> QED
    BY <2>4, <2>5
<1> QED
  BY <1>2, <1>3, <1>4

\* An update begins empty, and so does a message.
LEMMA BitsBegin == BitInit => BitInv
<1> SUFFICES ASSUME BitInit PROVE BitInv
  OBVIOUS
<1>1. /\ others \in SUBSET (0 .. MaxPlayerSlot) /\ unplaced = others
      /\ bitPosition = 0 /\ written = <<>> /\ overrun = FALSE
      /\ left = 0 /\ byte = 0 /\ offset = 0
  BY DEF BitInit
<1>2. Len(written) = 0 /\ written \in Seq([at : Nat, width : Nat])
  BY <1>1
<1>3. /\ bits \in Seq(Nat \X Nat) /\ \A p \in 1 .. Len(bits) : bits[p] = Zero
      /\ WritesAnUpdate \/ WritesAMove
  <2>1. CASE program = LocalUpdate /\ bits = Zeros(UpdateBytes)
    <3>1. 8 * UpdateBytes \in Nat
      BY UpdateHasRoom
    <3>2. bits = [i \in 1 .. 8 * UpdateBytes |-> Zero]
      BY <2>1 DEF Zeros
    <3>3. Zero \in Nat \X Nat
      BY DEF Zero
    <3> DEFINE m == 8 * UpdateBytes
    <3> HIDE DEF m
    <3>4. m \in Nat /\ bits = [i \in 1 .. m |-> Zero]
      BY <3>1, <3>2 DEF m
    <3>5. bits \in Seq(Nat \X Nat) /\ Len(bits) = m /\ \A p \in 1 .. Len(bits) : bits[p] = Zero
      BY <3>3, <3>4
    <3>6. WritesAnUpdate
      BY <1>1, <1>2, <2>1, <3>5 DEF WritesAnUpdate, m
    <3> QED
      BY <3>5, <3>6
  <2>2. CASE program \in {MovedOut, MovedIn} /\ others = {} /\ bits = <<>>
    <3> DEFINE S == [at : {Here}, width : 1 .. 2]
    <3>1. Write(Here, 1) \in S /\ Write(Here, 2) \in S
      BY DEF Write
    <3> HIDE DEF S
    <3>2. program \in Seq(S) /\ Len(program) <= 4 /\ Len(program) \in Nat
      <4>1. CASE program = MovedOut
        BY <3>1, <4>1 DEF MovedOut
      <4>2. CASE program = MovedIn
        BY <3>1, <4>2 DEF MovedIn
      <4> QED
        BY <2>2, <4>1, <4>2
    <3>3. bits \in Seq(Nat \X Nat) /\ Len(bits) = 0
      BY <2>2
    <3>4. bitPosition + 2 * Len(program) <= 8
      BY <1>1, <3>2
    <3>5. WritesAMove
      BY <2>2, <3>2, <3>3, <3>4 DEF WritesAMove, S
    <3> QED
      BY <3>3, <3>5
  <2> QED
    BY <2>1, <2>2 DEF BitInit
<1>4. BitTypes
  BY <1>1, <1>2, <1>3 DEF BitTypes
<1>5. LoopIsAtRest /\ WritesAscend /\ DoneIsStored /\ StoredIsDone
  BY <1>1, <1>2, <1>3 DEF LoopIsAtRest, WritesAscend, DoneIsStored, StoredIsDone
<1>6. OverrunNeedsManyPlayers
  BY <1>1 DEF OverrunNeedsManyPlayers
<1> QED
  BY <1>3, <1>4, <1>5, <1>6 DEF BitInv

\* A store leaves the program, its players and its writes alone.
LEMMA StoresAreFaithful ==
  ASSUME BitInv, NEW n \in Nat, 0 < n, n <= left, n <= offset, ~Missing,
         bits' = Stored(n), left' = left - n,
         byte' \in Nat, offset' \in 0 .. 8, LoopIsAtRest',
         UNCHANGED <<others, bitPosition, program, unplaced, written, overrun>>
  PROVE  BitInv'
<1>1. 8 * byte + 8 <= Len(bits)
  <2>1. \E m \in Nat : Len(bits) = 8 * m
    <3>1. CASE WritesAnUpdate
      BY <3>1, UpdateHasRoom DEF WritesAnUpdate
    <3>2. CASE WritesAMove
      <4>1. Len(bits) = 8 * 0 \/ Len(bits) = 8 * 1
        BY <3>2 DEF WritesAMove
      <4> QED
        BY <4>1
    <3> QED
      BY <3>1, <3>2 DEF BitInv
  <2>2. PICK m \in Nat : Len(bits) = 8 * m
    BY <2>1
  <2>3. ~(m <= byte)
    BY <2>2 DEF Missing, Size8
  <2>4. byte \in Nat
    BY DEF BitInv, BitTypes
  <2> QED
    BY <2>2, <2>3, <2>4
<1>2. bits' \in Seq(Nat \X Nat) /\ Len(bits') = Len(bits) /\ DoneIsStored' /\ StoredIsDone'
  BY <1>1, StoringKeepsContents DEF BitInv
<1>3. BitTypes'
  BY <1>2 DEF BitInv, BitTypes
<1>4. WritesAscend' /\ OverrunNeedsManyPlayers'
  BY DEF BitInv, WritesAscend, OverrunNeedsManyPlayers
<1>5. (WritesAnUpdate \/ WritesAMove)'
  BY <1>2 DEF BitInv, WritesAnUpdate, WritesAMove, Place
<1> QED
  BY <1>2, <1>3, <1>4, <1>5 DEF BitInv

\* What a write leaves alone when it begins.
LEMMA BeginningIsFaithful ==
  ASSUME BitInv, NEW w, NEW start \in Nat, w.width \in Nat, bitPosition <= start,
         start = IF w.at = Here THEN bitPosition ELSE w.at, Begin(w),
         unplaced' \subseteq unplaced
  PROVE  /\ BitTypes' /\ LoopIsAtRest' /\ WritesAscend' /\ DoneIsStored' /\ StoredIsDone'
         /\ OverrunNeedsManyPlayers' /\ UNCHANGED <<others, bits>>
         /\ bitPosition' = start + w.width
         /\ Len(written') = Len(written) + 1
         /\ written'[Len(written) + 1] = Write(start, w.width)
         /\ \A i \in 1 .. Len(written) : written'[i] = written[i]
<1>1. /\ left = 0 /\ written' = Append(written, Write(start, w.width)) /\ bitPosition' = start + w.width
      /\ left' = w.width /\ byte' = start \div 8 /\ offset' = 8 - (start % 8)
      /\ UNCHANGED <<others, bits, overrun>>
  BY DEF Begin
<1>2. /\ written' \in Seq([at : Nat, width : Nat])
      /\ bitPosition' \in Nat /\ left' \in Nat /\ byte' \in Nat /\ offset' \in 0 .. 8
      /\ LoopIsAtRest' /\ WritesAscend' /\ DoneIsStored' /\ StoredIsDone'
      /\ Len(written') = Len(written) + 1
      /\ written'[Len(written) + 1] = Write(start, w.width)
      /\ \A i \in 1 .. Len(written) : written'[i] = written[i]
  BY <1>1, BeginningKeepsContents DEF BitInv
<1>3. BitTypes'
  BY <1>1, <1>2 DEF BitInv, BitTypes
<1>4. OverrunNeedsManyPlayers'
  BY <1>1 DEF BitInv, OverrunNeedsManyPlayers
<1> QED
  BY <1>1, <1>2, <1>3, <1>4

\* A move's bits are always in place; an update's are for any number of slots,
\* and nothing is stored past its end unless a player's slot is beyond them.
THEOREM BitsAreInPlace == BitInit /\ [][BitNext]_bitVars => []BitsStayInPlace
<1>1. BitInv /\ [BitNext]_bitVars => BitInv'
  <2> SUFFICES ASSUME BitInv, [BitNext]_bitVars PROVE BitInv'
    OBVIOUS
  <2>1. /\ BitTypes /\ LoopIsAtRest
        /\ left \in Nat /\ byte \in Nat /\ offset \in 0 .. 8 /\ bitPosition \in Nat
        /\ Len(written) \in Nat
    BY WritesAreTyped DEF BitInv, BitTypes
  <2>2. CASE BeginPut
    <3> DEFINE w == Head(program)
    <3>1. program # <<>> /\ Begin(w) /\ program' = Tail(program) /\ unplaced' = unplaced
      BY <2>2 DEF BeginPut
    <3>2. CASE WritesAnUpdate
      <4>1. program = LocalUpdate /\ bitPosition = 0 /\ unplaced = others /\ written = <<>>
        BY <3>1, <3>2 DEF WritesAnUpdate
      <4>2. w = Write(Here, 30) /\ Tail(program) = <<>>
        BY <4>1 DEF LocalUpdate, TileBits
      <4>3. w.at = Here /\ w.width = 30
        BY <4>2 DEF Write
      <4> HIDE DEF w
      <4>4. /\ BitTypes' /\ LoopIsAtRest' /\ WritesAscend' /\ DoneIsStored' /\ StoredIsDone'
            /\ OverrunNeedsManyPlayers' /\ UNCHANGED <<others, bits>>
            /\ bitPosition' = 0 + w.width
            /\ Len(written') = Len(written) + 1
            /\ written'[Len(written) + 1] = Write(0, w.width)
        <5>1. 0 = IF w.at = Here THEN bitPosition ELSE w.at
          BY <4>1, <4>3
        <5> QED
          BY <3>1, <4>1, <4>3, <5>1, BeginningIsFaithful
      <4>5. Len(written') = 1 /\ written'[1] = Write(0, TileBits) /\ bitPosition' = 30
        <5>1. Len(written) = 0
          BY <4>1
        <5> QED
          BY <4>3, <4>4, <5>1 DEF TileBits
      <4>6. WritesAnUpdate'
        <5>1. Len(bits') = 8 * UpdateBytes
          BY <3>2, <4>4 DEF WritesAnUpdate
        <5>2. \A i \in 1 .. Len(written') : written'[i] = Write(0, TileBits)
          BY <4>5
        <5>3. others' \ unplaced' = {}
          BY <3>1, <4>1, <4>4
        <5>4. \A s \in unplaced' : bitPosition' <= TileBits + RegionBits * s
          <6>1. \A s \in unplaced' : s \in Nat
            BY <3>1, <2>1 DEF BitTypes
          <6> QED
            BY <4>5, <6>1 DEF TileBits, RegionBits
        <5> QED
          BY <3>1, <4>2, <5>1, <5>2, <5>3, <5>4 DEF WritesAnUpdate
      <4> QED
        BY <4>4, <4>6 DEF BitInv
    <3>3. CASE WritesAMove
      <4> DEFINE S == [at : {Here}, width : 1 .. 2]
      <4>1. program \in Seq(S) /\ bitPosition + 2 * Len(program) <= 8
        BY <3>3 DEF WritesAMove
      <4> HIDE DEF S
      <4>2. w \in S /\ program' \in Seq(S) /\ Len(program') = Len(program) - 1 /\ Len(program) \in Nat
        BY <3>1, <4>1
      <4>3. w.at = Here /\ w.width \in 1 .. 2 /\ w.width \in Nat
        BY <4>2 DEF S
      <4> HIDE DEF w
      <4>4. /\ BitTypes' /\ LoopIsAtRest' /\ WritesAscend' /\ DoneIsStored' /\ StoredIsDone'
            /\ OverrunNeedsManyPlayers' /\ UNCHANGED <<others, bits>>
            /\ bitPosition' = bitPosition + w.width
        <5>1. bitPosition = IF w.at = Here THEN bitPosition ELSE w.at
          BY <4>3
        <5>2. bitPosition <= bitPosition
          BY <2>1
        <5> QED
          BY <2>1, <3>1, <4>3, <5>1, <5>2, BeginningIsFaithful
      <4>5. bitPosition' + 2 * Len(program') <= 8
        BY <2>1, <4>1, <4>2, <4>3, <4>4
      <4>6. WritesAMove'
        BY <3>3, <4>2, <4>4, <4>5 DEF WritesAMove, S
      <4> QED
        BY <4>4, <4>6 DEF BitInv
    <3> QED
      BY <3>2, <3>3 DEF BitInv
  <2>3. CASE BeginPlayer
    <3> DEFINE s == Min(unplaced)
               w == Place(s, others)
    <3>1. /\ program = <<>> /\ unplaced # {} /\ Begin(w)
          /\ unplaced' = unplaced \ {s} /\ program' = program
      BY <2>3 DEF BeginPlayer
    <3>2. WritesAnUpdate
      BY <2>1, <3>1 DEF BitInv, WritesAMove, BitTypes
    <3>3. unplaced \in SUBSET Nat
      BY <2>1 DEF BitTypes
    <3>4. s \in unplaced /\ s \in Nat /\ \A t \in unplaced : s <= t
      BY <3>1, <3>3, MinOfNaturals
    <3> HIDE DEF s
    <3>5. w = Write(TileBits + RegionBits * s, RegionBits) /\ w.at = 30 + 18 * s /\ w.width = 18
      BY DEF Place, Write, TileBits, RegionBits
    <3>6. bitPosition <= 30 + 18 * s
      BY <3>1, <3>2, <3>4 DEF WritesAnUpdate, TileBits, RegionBits
    <3>7. 30 + 18 * s \in Nat /\ 30 + 18 * s # Here
      BY <3>4 DEF Here
    <3> HIDE DEF w
    <3>8. /\ BitTypes' /\ LoopIsAtRest' /\ WritesAscend' /\ DoneIsStored' /\ StoredIsDone'
          /\ OverrunNeedsManyPlayers' /\ UNCHANGED <<others, bits>>
          /\ bitPosition' = 30 + 18 * s + w.width
          /\ Len(written') = Len(written) + 1
          /\ written'[Len(written) + 1] = Write(30 + 18 * s, w.width)
          /\ \A i \in 1 .. Len(written) : written'[i] = written[i]
      <4>1. 30 + 18 * s = IF w.at = Here THEN bitPosition ELSE w.at
        BY <3>5, <3>7
      <4>2. w.width \in Nat
        BY <3>5
      <4>3. unplaced' \subseteq unplaced
        BY <3>1
      <4> QED
        BY <3>1, <3>6, <3>7, <4>1, <4>2, <4>3, BeginningIsFaithful
    <3>9. PICK N \in Nat : N = Len(written)
      BY <2>1
    <3>10. written'[N + 1] = Place(s, others)
      BY <3>5, <3>8, <3>9 DEF Place, TileBits, RegionBits
    <3>11. others' \ unplaced' = (others \ unplaced) \cup {s}
      BY <2>1, <3>1, <3>4, <3>8 DEF BitTypes
    <3>12. WritesAnUpdate'
      <4>1. Len(bits') = 8 * UpdateBytes
        BY <3>2, <3>8 DEF WritesAnUpdate
      <4>2. ASSUME NEW i \in 1 .. N + 1
            PROVE  written'[i] = Write(0, TileBits) \/ \E t \in others' \ unplaced' : written'[i] = Place(t, others)
        <5>1. CASE i = N + 1
          BY <3>10, <3>11, <5>1
        <5>2. CASE i # N + 1
          <6>1. i \in 1 .. Len(written) /\ written'[i] = written[i]
            BY <3>8, <3>9, <5>2
          <6>2. written[i] = Write(0, TileBits) \/ \E t \in others \ unplaced : written[i] = Place(t, others)
            BY <3>2, <6>1 DEF WritesAnUpdate
          <6> QED
            BY <3>11, <6>1, <6>2
        <5> QED
          BY <5>1, <5>2
      <4>3. ASSUME NEW t \in others' \ unplaced' PROVE \E i \in 1 .. N + 1 : written'[i] = Place(t, others)
        <5>1. CASE t = s
          BY <3>10, <5>1
        <5>2. CASE t # s
          <6>1. PICK i \in 1 .. Len(written) : written[i] = Place(t, others)
            BY <3>2, <3>11, <5>2 DEF WritesAnUpdate
          <6>2. i \in 1 .. N + 1 /\ written'[i] = written[i]
            BY <3>8, <3>9
          <6> QED
            BY <6>1, <6>2
        <5> QED
          BY <5>1, <5>2
      <4>4. \A t \in unplaced' : bitPosition' <= TileBits + RegionBits * t
        <5>1. ASSUME NEW t \in unplaced' PROVE t \in Nat /\ s < t
          <6>1. t \in unplaced /\ t # s
            BY <3>1
          <6>2. t \in Nat
            BY <3>3, <6>1
          <6>3. s \in Nat /\ s <= t
            BY <3>4, <6>1
          <6> QED
            BY <6>1, <6>2, <6>3
        <5>2. bitPosition' = 48 + 18 * s
          BY <3>4, <3>5, <3>8
        <5> QED
          BY <3>4, <5>1, <5>2 DEF TileBits, RegionBits
      <4>5. Len(written') = N + 1 /\ others' = others /\ program' = <<>>
        BY <3>1, <3>8, <3>9
      <4> QED
        BY <4>1, <4>2, <4>3, <4>4, <4>5 DEF WritesAnUpdate, Place
    <3> QED
      BY <3>8, <3>12 DEF BitInv
  <2>4. CASE PutFullByte
    <3>1. /\ left > offset /\ ~Missing /\ bits' = Stored(offset)
          /\ left' = left - offset /\ byte' = byte + 1 /\ offset' = 8
          /\ UNCHANGED <<others, bitPosition, program, unplaced, written, overrun>>
      BY <2>4 DEF PutFullByte
    <3> DEFINE at == written[Len(written)].at
               width == written[Len(written)].width
    <3>2. /\ Len(written) > 0 /\ offset \in 1 .. 8 /\ left <= width
          /\ 8 * byte + 8 - offset = at + width - left
      BY <2>1, <3>1 DEF LoopIsAtRest
    <3>3. at \in Nat /\ width \in Nat
      BY <2>1, <3>2, WritesAreTyped
    <3>4. LoopIsAtRest'
      <4> HIDE DEF at, width
      <4>1. left' <= width /\ 8 * byte' + 8 - offset' = at + width - left'
        BY <2>1, <3>1, <3>2, <3>3
      <4>2. Len(written') > 0 /\ offset' \in 1 .. 8
        BY <3>1, <3>2
      <4> QED
        BY <3>1, <4>1, <4>2 DEF LoopIsAtRest, at, width
    <3>5. byte' \in Nat /\ offset' \in 0 .. 8 /\ offset \in Nat /\ 0 < offset /\ offset <= left /\ offset <= offset
      BY <2>1, <3>1, <3>2
    <3> QED
      BY <3>1, <3>4, <3>5, StoresAreFaithful
  <2>5. CASE MakeFirstByte
    <3>1. /\ Missing /\ ~NoRoomForLast /\ bits' = Zeros(1)
          /\ UNCHANGED <<others, bitPosition, program, unplaced, written, left, byte, offset, overrun>>
      BY <2>5 DEF MakeFirstByte, callVars
    <3>2. byte = 0 /\ Len(bits) \div 8 <= 0
      BY <3>1 DEF NoRoomForLast, Missing, Size8
    <3>3. ~WritesAnUpdate
      <4> SUFFICES ASSUME Len(bits) = 8 * UpdateBytes PROVE FALSE
        BY DEF WritesAnUpdate
      <4> QED
        BY <3>2, UpdateHasRoom
    <3>4. WritesAMove
      BY <3>3 DEF BitInv
    <3>5. Len(bits) = 0
      <4>1. Len(bits) \in {0, 8}
        BY <3>4 DEF WritesAMove
      <4>2. PICK n \in {0, 8} : n = Len(bits)
        BY <4>1
      <4>3. n \div 8 <= 0
        BY <3>2, <4>2
      <4>4. n = 0
        BY <4>3
      <4> QED
        BY <4>2, <4>4
    <3>6. bits' \in Seq(Nat \X Nat) /\ Len(bits') = 8 /\ \A p \in 1 .. Len(bits') : bits'[p] = Zero
      <4>1. bits' = [i \in 1 .. 8 |-> <<0, 0>>]
        BY <3>1 DEF Zeros, Zero
      <4> QED
        BY <4>1 DEF Zero
    <3>7. BitTypes' /\ LoopIsAtRest' /\ WritesAscend' /\ OverrunNeedsManyPlayers'
      BY <3>1, <3>6 DEF BitInv, BitTypes, LoopIsAtRest, WritesAscend, OverrunNeedsManyPlayers
    <3>8. StoredIsDone'
      BY <3>6 DEF StoredIsDone, Zero
    <3>9. DoneIsStored'
      <4> SUFFICES ASSUME NEW i \in 1 .. Len(written), NEW b \in 1 .. Done(i) PROVE FALSE
        BY <3>1 DEF DoneIsStored, Done
      <4>1. written[i].at + b <= 0
        BY <3>5 DEF BitInv, DoneIsStored
      <4>2. written[i].at \in Nat
        BY <2>1, WritesAreTyped
      <4>3. b >= 1 /\ b \in Int
        <5>1. Done(i) \in Int
          BY <2>1, WritesAreTyped DEF Done
        <5> QED
          BY <5>1
      <4> QED
        BY <4>1, <4>2, <4>3
    <3>10. WritesAMove'
      BY <3>1, <3>4, <3>6 DEF WritesAMove
    <3> QED
      BY <3>7, <3>8, <3>9, <3>10 DEF BitInv
  <2>6. CASE PutLastByte
    <3>1. /\ left \in 1 .. offset /\ ~Missing /\ bits' = Stored(left) /\ left' = 0
          /\ UNCHANGED <<others, bitPosition, program, unplaced, written, byte, offset, overrun>>
      BY <2>6 DEF PutLastByte
    <3>2. LoopIsAtRest'
      BY <3>1 DEF LoopIsAtRest
    <3>3. left' = left - left /\ 0 < left /\ left <= left /\ left <= offset /\ byte' \in Nat /\ offset' \in 0 .. 8
      BY <2>1, <3>1
    <3> QED
      BY <2>1, <3>1, <3>2, <3>3, StoresAreFaithful
  <2>7. CASE Overrun
    <3>1. UNCHANGED <<others, bits, bitPosition, program, unplaced, written, left, byte, offset>>
      BY <2>7 DEF Overrun, callVars
    <3>2. OverrunNeedsManyPlayers'
      BY <2>7, OverrunsAreExplained
    <3>3. BitTypes' /\ LoopIsAtRest' /\ WritesAscend' /\ DoneIsStored' /\ StoredIsDone'
      BY <3>1 DEF BitInv, BitTypes, LoopIsAtRest, WritesAscend, DoneIsStored, StoredIsDone, Done
    <3>4. (WritesAnUpdate \/ WritesAMove)'
      BY <3>1 DEF BitInv, WritesAnUpdate, WritesAMove, Place
    <3> QED
      BY <3>2, <3>3, <3>4 DEF BitInv
  <2>8. CASE UNCHANGED bitVars
    <3>1. UNCHANGED <<others, bits, bitPosition, program, unplaced, written, left, byte, offset, overrun>>
      BY <2>8 DEF bitVars, callVars
    <3>3. BitTypes' /\ LoopIsAtRest' /\ WritesAscend' /\ DoneIsStored' /\ StoredIsDone' /\ OverrunNeedsManyPlayers'
      BY <3>1 DEF BitInv, BitTypes, LoopIsAtRest, WritesAscend, DoneIsStored, StoredIsDone, Done, OverrunNeedsManyPlayers
    <3>4. (WritesAnUpdate \/ WritesAMove)'
      BY <3>1 DEF BitInv, WritesAnUpdate, WritesAMove, Place
    <3> QED
      BY <3>3, <3>4 DEF BitInv
  <2> QED
    BY <2>2, <2>3, <2>4, <2>5, <2>6, <2>7, <2>8 DEF BitNext
<1>2. BitInv => BitsStayInPlace
  BY ContentsAreInPlace DEF BitInv, BitsStayInPlace
<1> QED
  BY <1>1, <1>2, BitsBegin, PTL

-----------------------------------------------------------------------------
(* The regions of a map *)

\* The first and the last column (or row) of a list.
Low(c) == Lowest(c, mapSize, Step8)
High(c) == Highest(c, mapSize, Step8)

\* The region a client finds in an entry of a dynamic map.
Key(h) == RegionId(((h \div 16384) % 1024) \div 8, ((h \div 8) % 2048) \div 8)

RegionsTypes ==
  /\ chunkX \in Nat /\ chunkY \in Nat /\ mapSize \in Nat
  /\ chunkX + mapSize < 1024 /\ chunkY + mapSize < 1024
  /\ dynamic \in BOOLEAN /\ plane \in 0 .. 4 /\ x \in Nat
  /\ output \in Seq(Nat)
  /\ Low(chunkX) <= x /\ x <= High(chunkX) + 1
  /\ ~dynamic => plane = 0

\* A fixed list has the columns before the current one, and nothing twice.
ColumnsListed ==
  /\ \A k \in 1 .. Len(output) : \E rx \in Low(chunkX) .. x - 1, ry \in Low(chunkY) .. High(chunkY) :
       output[k] = RegionId(rx, ry)
  /\ \A rx \in Low(chunkX) .. x - 1, ry \in Low(chunkY) .. High(chunkY) :
       \E k \in 1 .. Len(output) : output[k] = RegionId(rx, ry)
  /\ \A k, l \in 1 .. Len(output) : output[k] = output[l] => k = l

\* A dynamic one has an entry for every chunk passed, and a key for every
\* entry.
ChunksListed ==
  /\ x <= High(chunkX) /\ (plane = 4 => x = Low(chunkX))
  /\ Len(output) = (plane * (High(chunkX) - Low(chunkX) + 1) + (x - Low(chunkX))) * (High(chunkY) - Low(chunkY) + 1)
  /\ \A k \in 1 .. Len(output) : output[k] # 0 => Key(output[k]) \in real
  /\ \A r \in real : \E k \in 1 .. Len(output) : output[k] # 0 /\ Key(output[k]) = r

RegionsInv == RegionsTypes /\ (~dynamic => ColumnsListed) /\ (dynamic => ChunksListed)

\* Two sequences one after the other, entry by entry.
LEMMA Appended ==
  ASSUME NEW s \in Seq(Nat), NEW u \in Seq(Nat)
  PROVE  /\ s \o u \in Seq(Nat) /\ Len(s \o u) = Len(s) + Len(u)
         /\ \A k \in 1 .. Len(s) : (s \o u)[k] = s[k]
         /\ \A i \in 1 .. Len(u) : (s \o u)[Len(s) + i] = u[i]
         /\ \A k \in 1 .. Len(s \o u) : k \in 1 .. Len(s) \/ \E i \in 1 .. Len(u) : k = Len(s) + i
<1> DEFINE n == Len(u)
           t == s \o u
<1>1. n \in Nat
  OBVIOUS
<1>3. /\ t \in Seq(Nat) /\ Len(t) = Len(s) + n
      /\ \A k \in 1 .. Len(s) + n : t[k] = IF k <= Len(s) THEN s[k] ELSE u[k - Len(s)]
  BY ConcatProperties
<1> HIDE DEF n, t
<1>4. Len(s) \in Nat
  OBVIOUS
<1>5. \A k \in 1 .. Len(s) : t[k] = s[k]
  BY <1>1, <1>3, <1>4
<1>6. ASSUME NEW i \in 1 .. n PROVE t[Len(s) + i] = u[i]
  <2>1. Len(s) + i \in 1 .. Len(s) + n /\ ~(Len(s) + i <= Len(s)) /\ Len(s) + i - Len(s) = i
    BY <1>1, <1>4
  <2> QED
    BY <1>3, <2>1
<1>7. ASSUME NEW k \in 1 .. Len(t), ~(k \in 1 .. Len(s)) PROVE \E i \in 1 .. n : k = Len(s) + i
  <2>1. k - Len(s) \in 1 .. n /\ k = Len(s) + (k - Len(s))
    BY <1>1, <1>3, <1>4, <1>7
  <2> QED
    BY <2>1
<1> QED
  BY <1>3, <1>5, <1>6, <1>7 DEF n, t

\* Where a list begins and ends.
LEMMA Bounds ==
  ASSUME NEW c \in Nat, RegionsTypes, c + mapSize < 1024
  PROVE  Low(c) \in Nat /\ High(c) \in Nat /\ Low(c) <= High(c) /\ High(c) < 1024
         /\ (~dynamic => High(c) < 128)
<1>1. mapSize \in Nat
  BY DEF RegionsTypes
<1>2. CASE dynamic
  BY <1>1, <1>2 DEF Low, High, Lowest, Highest, Step8
<1>3. CASE ~dynamic
  BY <1>1, <1>3 DEF Low, High, Lowest, Highest, Step8
<1> QED
  BY <1>2, <1>3

\* The inner loop, from its first row.
LEMMA ColumnIs ==
  ASSUME RegionsTypes
  PROVE  /\ High(chunkY) - Low(chunkY) + 1 \in Nat
         /\ DOMAIN Column = 1 .. High(chunkY) - Low(chunkY) + 1
         /\ \A i \in 1 .. High(chunkY) - Low(chunkY) + 1 :
              Column[i] = Low(chunkY) + i - 1 /\ Column[i] \in Low(chunkY) .. High(chunkY)
         /\ \A y \in Low(chunkY) .. High(chunkY) :
              \E i \in 1 .. High(chunkY) - Low(chunkY) + 1 : Column[i] = y
         /\ ToSet(Column) = Low(chunkY) .. High(chunkY)
<1> DEFINE low == Low(chunkY)
           high == High(chunkY)
<1>1. low \in Nat /\ high \in Nat /\ low <= high
  BY Bounds DEF RegionsTypes
<1>2. Column = [i \in 1 .. high - low + 1 |-> low + i - 1]
  BY DEF Column, Low, High
<1> HIDE DEF low, high
<1>3. high - low + 1 \in Nat /\ DOMAIN Column = 1 .. high - low + 1
  BY <1>1, <1>2
<1>4. \A i \in 1 .. high - low + 1 : Column[i] = low + i - 1 /\ Column[i] \in low .. high
  BY <1>1, <1>2
<1>5. ASSUME NEW y \in low .. high PROVE \E i \in 1 .. high - low + 1 : Column[i] = y
  <2>1. y - low + 1 \in 1 .. high - low + 1 /\ low + (y - low + 1) - 1 = y
    BY <1>1
  <2> QED
    BY <1>4, <2>1
<1>6. ToSet(Column) = low .. high
  <2>1. ToSet(Column) = {Column[i] : i \in 1 .. high - low + 1}
    BY <1>3 DEF ToSet
  <2> QED
    BY <1>4, <1>5, <2>1
<1> QED
  BY <1>3, <1>4, <1>5, <1>6 DEF low, high

\* A region has one number, and a number one region.
LEMMA RegionIdsDiffer ==
  ASSUME NEW a \in Nat, NEW b \in Nat, NEW c \in Nat, NEW d \in Nat,
         b < 256, d < 256, RegionId(a, b) = RegionId(c, d)
  PROVE  a = c /\ b = d
  BY DEF RegionId

\* An entry for a chunk leads to the region of the chunk.
LEMMA KeyOfChunk ==
  ASSUME NEW cx \in Nat, NEW cy \in Nat, cx < 1024, cy < 1024, plane \in 0 .. 3
  PROVE  /\ ClientRegion(cx, cy) \in Nat
         /\ Invalid(cx, cy) => ClientRegion(cx, cy) = 0
         /\ ~Invalid(cx, cy) => ClientRegion(cx, cy) # 0 /\ Key(ClientRegion(cx, cy)) = RealRegion(cx, cy)
<1>1. CASE Invalid(cx, cy)
  BY <1>1 DEF ClientRegion
<1>2. CASE ~Invalid(cx, cy)
  <2>1. cx > 0
    BY <1>2 DEF Invalid
  <2> DEFINE h == plane * 16777216 + cx * 16384 + cy * 8
             a == plane * 1024 + cx
             b == plane * 2097152 + cx * 2048 + cy
  <2>2. h \in Nat /\ h > 0 /\ a \in Nat /\ b \in Nat
    BY <2>1
  <2>3. h = 16384 * a + 8 * cy /\ 8 * cy < 16384 /\ h = 8 * b
    OBVIOUS
  <2>4. a % 1024 = cx /\ b % 2048 = cy
    <3>1. b = 2048 * (plane * 1024 + cx) + cy
      OBVIOUS
    <3>2. plane * 1024 + cx \in Nat
      OBVIOUS
    <3> DEFINE e == plane * 1024 + cx
    <3> HIDE DEF e, b
    <3>3. b % 2048 = cy
      BY <3>1, <3>2 DEF e
    <3>4. a % 1024 = cx
      OBVIOUS
    <3> QED
      BY <3>3, <3>4
  <2> HIDE DEF h, a, b
  <2>5. h \div 16384 = a /\ h \div 8 = b
    BY <2>2, <2>3
  <2>6. ClientRegion(cx, cy) = h
    BY <1>2 DEF ClientRegion, h
  <2>7. Key(h) = RealRegion(cx, cy)
    BY <2>4, <2>5 DEF Key, RealRegion
  <2> QED
    BY <1>2, <2>2, <2>6, <2>7
<1> QED
  BY <1>1, <1>2

\* The chunks around a tile are those from the first to the last.
LEMMA AroundIs ==
  ASSUME NEW c \in Nat, mapSize \in Nat
  PROVE  /\ dynamic => Around(c) = Low(c) .. High(c)
         /\ ~dynamic => {d \div 8 : d \in Around(c)} = Low(c) .. High(c)
<1>1. \A d : d \in Around(c) <=> d \in Nat /\ c - mapSize <= d /\ d <= c + mapSize
  BY DEF Around, Reaches
<1>2. CASE dynamic
  <2> DEFINE low == IF c < mapSize THEN 0 ELSE c - mapSize
             high == c + mapSize
  <2>1. Low(c) = low /\ High(c) = high
    BY <1>2 DEF Low, High, Lowest, Highest, Step8
  <2>2. \A d : d \in Around(c) <=> d \in low .. high
    BY <1>1
  <2> HIDE DEF low, high
  <2> QED
    BY <1>2, <2>1, <2>2
<1>3. CASE ~dynamic
  <2> DEFINE low == IF c < mapSize THEN 0 ELSE (c - mapSize) \div 8
             high == (c + mapSize) \div 8
  <2>1. Low(c) = low /\ High(c) = high
    BY <1>3 DEF Low, High, Lowest, Highest, Step8
  <2>2. ASSUME NEW d \in Around(c) PROVE d \div 8 \in low .. high
    BY <1>1
  <2>3. ASSUME NEW r \in low .. high PROVE \E d \in Around(c) : r = d \div 8
    <3>1. r \in Nat /\ low <= r /\ r <= high
      OBVIOUS
    <3>2. CASE 8 * r >= c - mapSize
      <4>1. 8 * r \in Around(c) /\ (8 * r) \div 8 = r
        BY <1>1, <3>1, <3>2
      <4> QED
        BY <4>1
    <3>3. CASE ~(8 * r >= c - mapSize)
      <4>1. c - mapSize \in Around(c) /\ (c - mapSize) \div 8 = r
        BY <1>1, <3>1, <3>3
      <4> QED
        BY <4>1
    <3> QED
      BY <3>2, <3>3
  <2> HIDE DEF low, high
  <2> QED
    BY <1>3, <2>1, <2>2, <2>3
<1> QED
  BY <1>2, <1>3

\* A column of regions is listed after the columns before it.
LEMMA ColumnsStayListed ==
  ASSUME RegionsTypes, ColumnsListed, Fixed
  PROVE  RegionsTypes' /\ ColumnsListed'
<1> DEFINE lowX == Low(chunkX)
           lowY == Low(chunkY)
           highX == High(chunkX)
           highY == High(chunkY)
           n == highY - lowY + 1
           f == [i \in 1 .. n |-> RegionId(x, Column[i])]
           m == Len(output)
<1>1. /\ ~dynamic /\ x <= highX /\ x' = x + 1
      /\ output' = output \o [i \in DOMAIN Column |-> RegionId(x, Column[i])]
      /\ UNCHANGED <<chunkX, chunkY, mapSize, dynamic, plane, real>>
  BY DEF Fixed, High, Step8
<1>2. /\ lowX \in Nat /\ highX \in Nat /\ lowY \in Nat /\ highY \in Nat /\ lowX <= highX /\ lowY <= highY
      /\ highY < 128 /\ x \in Nat /\ lowX <= x /\ m \in Nat /\ output \in Seq(Nat)
  <2>1. chunkX \in Nat /\ chunkY \in Nat /\ chunkX + mapSize < 1024 /\ chunkY + mapSize < 1024
    BY DEF RegionsTypes
  <2> HIDE DEF lowX, lowY, highX, highY
  <2>2. lowX \in Nat /\ highX \in Nat /\ lowX <= highX
    BY <2>1, Bounds DEF lowX, highX
  <2>3. lowY \in Nat /\ highY \in Nat /\ lowY <= highY /\ highY < 128
    BY <1>1, <2>1, Bounds DEF lowY, highY
  <2>4. x \in Nat /\ lowX <= x /\ m \in Nat /\ output \in Seq(Nat)
    BY DEF RegionsTypes, lowX
  <2> QED
    BY <2>2, <2>3, <2>4
<1>3. lowX' = lowX /\ lowY' = lowY /\ highX' = highX /\ highY' = highY
  BY <1>1 DEF Low, High, Step8
<1>4. /\ n \in Nat /\ DOMAIN Column = 1 .. n
      /\ \A i \in 1 .. n : Column[i] = lowY + i - 1 /\ Column[i] \in lowY .. highY
      /\ \A y \in lowY .. highY : \E i \in 1 .. n : Column[i] = y
  BY ColumnIs
<1> HIDE DEF lowX, lowY, highX, highY, n
<1>5. \A i \in 1 .. n : f[i] = RegionId(x, Column[i]) /\ f[i] \in Nat /\ Column[i] \in Nat /\ Column[i] < 128
  <2>1. \A i \in 1 .. n : f[i] = RegionId(x, Column[i])
    OBVIOUS
  <2>2. \A i \in 1 .. n : Column[i] \in lowY .. highY
    BY <1>4
  <2>3. \A y \in lowY .. highY : y \in Nat /\ y < 128 /\ RegionId(x, y) \in Nat
    BY <1>2 DEF RegionId
  <2> HIDE DEF f
  <2> QED
    BY <2>1, <2>2, <2>3
<1>6. output' = output \o f
  BY <1>1, <1>4
<1>19. f \in Seq(Nat) /\ n = Len(f)
  <2>1. f = [i \in 1 .. n |-> f[i]]
    OBVIOUS
  <2> HIDE DEF f
  <2> QED
    BY <1>4, <1>5, <2>1
<1> HIDE DEF f
<1>7. /\ output' \in Seq(Nat) /\ Len(output') = m + n
      /\ \A k \in 1 .. m : output'[k] = output[k]
      /\ \A i \in 1 .. n : output'[m + i] = f[i]
      /\ \A k \in 1 .. Len(output') : k \in 1 .. m \/ \E i \in 1 .. n : k = m + i
  <2>1. output \in Seq(Nat)
    BY <1>2
  <2>2. /\ output \o f \in Seq(Nat) /\ Len(output \o f) = Len(output) + Len(f)
        /\ \A k \in 1 .. Len(output) : (output \o f)[k] = output[k]
        /\ \A i \in 1 .. Len(f) : (output \o f)[Len(output) + i] = f[i]
        /\ \A k \in 1 .. Len(output \o f) : k \in 1 .. Len(output) \/ \E i \in 1 .. Len(f) : k = Len(output) + i
    BY <1>19, <2>1, Appended
  <2> QED
    BY <1>6, <1>19, <2>2
<1>17. \A i \in 1 .. n : m + i \in 1 .. Len(output')
  <2>1. m \in Nat /\ n \in Nat /\ Len(output') = m + n
    BY <1>2, <1>4, <1>7
  <2> HIDE DEF m
  <2> QED
    BY <2>1
<1>18. \A k \in 1 .. m : k \in 1 .. Len(output')
  <2>1. m \in Nat /\ n \in Nat /\ Len(output') = m + n
    BY <1>2, <1>4, <1>7
  <2> HIDE DEF m
  <2> QED
    BY <2>1
<1>8. RegionsTypes'
  <2>1. Low(chunkX)' = lowX /\ High(chunkX)' = highX
    BY <1>3 DEF lowX, highX
  <2>2. lowX <= x' /\ x' <= highX + 1 /\ x' \in Nat
    BY <1>1, <1>2
  <2> QED
    BY <1>1, <1>7, <2>1, <2>2 DEF RegionsTypes
<1>9. ASSUME NEW k \in 1 .. Len(output') PROVE
        \E rx \in lowX .. x, ry \in lowY .. highY : output'[k] = RegionId(rx, ry)
  <2>1. CASE k \in 1 .. m
    <3>1. PICK rx \in lowX .. x - 1, ry \in lowY .. highY : output[k] = RegionId(rx, ry)
      BY <2>1 DEF ColumnsListed, lowX, lowY, highY
    <3>2. rx \in lowX .. x
      BY <1>2
    <3> QED
      BY <1>7, <2>1, <3>1, <3>2
  <2>2. CASE \E i \in 1 .. n : k = m + i
    <3>1. PICK i \in 1 .. n : k = m + i
      BY <2>2
    <3>3. output'[k] = f[i]
      BY <1>7, <3>1
    <3>4. f[i] = RegionId(x, Column[i]) /\ Column[i] \in lowY .. highY
      BY <1>4, <1>5
    <3>5. x \in lowX .. x
      BY <1>2
    <3>2. output'[k] = RegionId(x, Column[i]) /\ Column[i] \in lowY .. highY /\ x \in lowX .. x
      BY <3>3, <3>4, <3>5
    <3> QED
      BY <3>2
  <2> QED
    BY <1>7, <2>1, <2>2
<1>10. ASSUME NEW rx \in lowX .. x, NEW ry \in lowY .. highY PROVE
         \E k \in 1 .. Len(output') : output'[k] = RegionId(rx, ry)
  <2>1. CASE rx = x
    <3>1. PICK i \in 1 .. n : Column[i] = ry
      BY <1>4
    <3>2. m + i \in 1 .. Len(output') /\ output'[m + i] = RegionId(rx, ry)
      <4>1. output'[m + i] = f[i] /\ f[i] = RegionId(x, Column[i])
        BY <1>5, <1>7
      <4>2. m + i \in 1 .. Len(output')
        BY <1>17
      <4> QED
        BY <2>1, <3>1, <4>1, <4>2
    <3> QED
      BY <3>2
  <2>2. CASE rx # x
    <3>1. rx \in lowX .. x - 1
      BY <1>2, <2>2
    <3>2. PICK k \in 1 .. m : output[k] = RegionId(rx, ry)
      BY <3>1 DEF ColumnsListed, lowX, lowY, highY
    <3>3. k \in 1 .. Len(output') /\ output'[k] = RegionId(rx, ry)
      BY <1>7, <1>18, <3>2
    <3> QED
      BY <3>3
  <2> QED
    BY <2>1, <2>2
<1>11. ASSUME NEW k \in 1 .. m, NEW i \in 1 .. n PROVE output'[k] # output'[m + i]
  <2>1. PICK rx \in lowX .. x - 1, ry \in lowY .. highY : output[k] = RegionId(rx, ry)
    BY DEF ColumnsListed, lowX, lowY, highY
  <2>2. rx \in Nat /\ ry \in Nat /\ ry < 256 /\ rx # x
    BY <1>2
  <2>3. Column[i] \in Nat /\ Column[i] < 256
    BY <1>5
  <2>4. RegionId(rx, ry) # RegionId(x, Column[i])
    BY <1>2, <2>2, <2>3, RegionIdsDiffer
  <2> QED
    BY <1>5, <1>7, <2>1, <2>4
<1>12. ASSUME NEW i \in 1 .. n, NEW j \in 1 .. n, output'[m + i] = output'[m + j] PROVE i = j
  <2>1. RegionId(x, Column[i]) = RegionId(x, Column[j])
    BY <1>5, <1>7, <1>12
  <2>2. Column[i] \in Nat /\ Column[i] < 256 /\ Column[j] \in Nat /\ Column[j] < 256
    BY <1>5
  <2>3. Column[i] = Column[j]
    BY <1>2, <2>1, <2>2, RegionIdsDiffer
  <2> QED
    BY <1>2, <1>4, <2>3
<1>13. ASSUME NEW k \in 1 .. Len(output'), NEW l \in 1 .. Len(output'), output'[k] = output'[l] PROVE k = l
  <2>1. CASE k \in 1 .. m /\ l \in 1 .. m
    BY <1>7, <1>13, <2>1 DEF ColumnsListed
  <2>2. CASE k \in 1 .. m /\ ~(l \in 1 .. m)
    BY <1>7, <1>11, <1>13, <2>2
  <2>3. CASE ~(k \in 1 .. m) /\ l \in 1 .. m
    BY <1>7, <1>11, <1>13, <2>3
  <2>4. CASE ~(k \in 1 .. m) /\ ~(l \in 1 .. m)
    <3>1. PICK i \in 1 .. n : k = m + i
      BY <1>7, <2>4
    <3>2. PICK j \in 1 .. n : l = m + j
      BY <1>7, <2>4
    <3> QED
      BY <1>12, <1>13, <3>1, <3>2
  <2> QED
    BY <2>1, <2>2, <2>3, <2>4
<1>14. x' - 1 = x
  BY <1>1, <1>2
<1>15. ColumnsListed'
  <2>1. Low(chunkX)' = lowX /\ Low(chunkY)' = lowY /\ High(chunkY)' = highY
    BY <1>3 DEF lowX, lowY, highY
  <2> QED
    BY <1>9, <1>10, <1>13, <1>14, <2>1 DEF ColumnsListed
<1> QED
  BY <1>8, <1>15

\* One more: the entries of some columns and those of the next.
LEMMA NextColumn ==
  ASSUME NEW a \in Nat, NEW n \in Nat
  PROVE  (a + 1) * n = a * n + n
  OBVIOUS

\* A column of chunks is listed with the keys of its regions.
LEMMA ChunksStayListed ==
  ASSUME RegionsTypes, ChunksListed, Dynamic
  PROVE  RegionsTypes' /\ ChunksListed'
<1> DEFINE lowX == Low(chunkX)
           lowY == Low(chunkY)
           highX == High(chunkX)
           highY == High(chunkY)
           n == highY - lowY + 1
           w == highX - lowX + 1
           f == [i \in 1 .. n |-> ClientRegion(x, Column[i])]
           m == Len(output)
<1>1. /\ dynamic /\ plane < 4 /\ x <= highX
      /\ output' = output \o [i \in DOMAIN Column |-> ClientRegion(x, Column[i])]
      /\ real' = real \cup {RealRegion(x, y) : y \in {c \in ToSet(Column) : ~Invalid(x, c)}}
      /\ x' = (IF x = highX THEN lowX ELSE x + 1)
      /\ plane' = (IF x = highX THEN plane + 1 ELSE plane)
      /\ UNCHANGED <<chunkX, chunkY, mapSize, dynamic>>
  BY DEF Dynamic, High, Low, Step8
<1>2. /\ lowX \in Nat /\ highX \in Nat /\ lowY \in Nat /\ highY \in Nat /\ lowX <= highX /\ lowY <= highY
      /\ highX < 1024 /\ highY < 1024 /\ x \in Nat /\ lowX <= x /\ m \in Nat /\ output \in Seq(Nat)
      /\ plane \in 0 .. 3
  <2>1. chunkX \in Nat /\ chunkY \in Nat /\ chunkX + mapSize < 1024 /\ chunkY + mapSize < 1024
    BY DEF RegionsTypes
  <2> HIDE DEF lowX, lowY, highX, highY
  <2>2. lowX \in Nat /\ highX \in Nat /\ lowX <= highX /\ highX < 1024
    BY <2>1, Bounds DEF lowX, highX
  <2>3. lowY \in Nat /\ highY \in Nat /\ lowY <= highY /\ highY < 1024
    BY <2>1, Bounds DEF lowY, highY
  <2>4. x \in Nat /\ lowX <= x /\ m \in Nat /\ output \in Seq(Nat) /\ plane \in 0 .. 4
    BY DEF RegionsTypes, lowX
  <2> QED
    BY <1>1, <2>2, <2>3, <2>4
<1>3. lowX' = lowX /\ lowY' = lowY /\ highX' = highX /\ highY' = highY
  BY <1>1 DEF Low, High, Step8
<1>4. /\ n \in Nat /\ DOMAIN Column = 1 .. n
      /\ \A i \in 1 .. n : Column[i] \in lowY .. highY
      /\ \A y \in lowY .. highY : \E i \in 1 .. n : Column[i] = y
      /\ ToSet(Column) = lowY .. highY
  BY ColumnIs
<1>5. /\ plane = 4 => x = lowX
      /\ m = (plane * w + (x - lowX)) * n
      /\ \A k \in 1 .. m : output[k] # 0 => Key(output[k]) \in real
      /\ \A r \in real : \E k \in 1 .. m : output[k] # 0 /\ Key(output[k]) = r
  BY DEF ChunksListed
<1> HIDE DEF lowX, lowY, highX, highY, n
<1>6. \A i \in 1 .. n : Column[i] \in Nat /\ Column[i] < 1024
  BY <1>2, <1>4
<1>7. x \in Nat /\ x < 1024
  BY <1>1, <1>2
<1>8. \A i \in 1 .. n :
        /\ f[i] \in Nat
        /\ Invalid(x, Column[i]) => f[i] = 0
        /\ ~Invalid(x, Column[i]) => f[i] # 0 /\ Key(f[i]) = RealRegion(x, Column[i])
  <2>1. \A i \in 1 .. n : f[i] = ClientRegion(x, Column[i])
    OBVIOUS
  <2>2. ASSUME NEW y \in Nat, y < 1024
        PROVE  /\ ClientRegion(x, y) \in Nat
               /\ Invalid(x, y) => ClientRegion(x, y) = 0
               /\ ~Invalid(x, y) => ClientRegion(x, y) # 0 /\ Key(ClientRegion(x, y)) = RealRegion(x, y)
    BY <1>2, <1>7, <2>2, KeyOfChunk
  <2> HIDE DEF f
  <2> SUFFICES ASSUME NEW i \in 1 .. n
               PROVE  /\ f[i] \in Nat
                      /\ Invalid(x, Column[i]) => f[i] = 0
                      /\ ~Invalid(x, Column[i]) => f[i] # 0 /\ Key(f[i]) = RealRegion(x, Column[i])
    OBVIOUS
  <2>3. f[i] = ClientRegion(x, Column[i]) /\ Column[i] \in Nat /\ Column[i] < 1024
    BY <1>6, <2>1
  <2> QED
    BY <2>2, <2>3
<1>9. output' = output \o f
  BY <1>1, <1>4
<1>19. f \in Seq(Nat) /\ n = Len(f)
  <2>1. f = [i \in 1 .. n |-> f[i]]
    OBVIOUS
  <2> HIDE DEF f
  <2> QED
    BY <1>4, <1>8, <2>1
<1> HIDE DEF f
<1>10. /\ output' \in Seq(Nat) /\ Len(output') = m + n
       /\ \A k \in 1 .. m : output'[k] = output[k]
       /\ \A i \in 1 .. n : output'[m + i] = f[i]
       /\ \A k \in 1 .. Len(output') : k \in 1 .. m \/ \E i \in 1 .. n : k = m + i
  <2>1. output \in Seq(Nat)
    BY <1>2
  <2>2. /\ output \o f \in Seq(Nat) /\ Len(output \o f) = Len(output) + Len(f)
        /\ \A k \in 1 .. Len(output) : (output \o f)[k] = output[k]
        /\ \A i \in 1 .. Len(f) : (output \o f)[Len(output) + i] = f[i]
        /\ \A k \in 1 .. Len(output \o f) : k \in 1 .. Len(output) \/ \E i \in 1 .. Len(f) : k = Len(output) + i
    BY <1>19, <2>1, Appended
  <2> QED
    BY <1>9, <1>19, <2>2
<1>17. \A i \in 1 .. n : m + i \in 1 .. Len(output')
  <2>1. m \in Nat /\ n \in Nat /\ Len(output') = m + n
    BY <1>2, <1>4, <1>10
  <2> HIDE DEF m
  <2> QED
    BY <2>1
<1>11. lowX <= x' /\ x' <= highX /\ x' \in Nat /\ plane' \in 0 .. 4 /\ (plane' = 4 => x' = lowX)
  BY <1>1, <1>2
<1>12. RegionsTypes'
  <2>1. Low(chunkX)' = lowX /\ High(chunkX)' = highX
    BY <1>3 DEF lowX, highX
  <2>2. x' <= highX + 1
    BY <1>2, <1>11
  <2> QED
    BY <1>1, <1>10, <1>11, <2>1, <2>2 DEF RegionsTypes
<1>13. m + n = (plane' * w + (x' - lowX)) * n
  <2>1. w \in Nat /\ plane \in Nat
    BY <1>2
  <2>2. plane * w \in Nat
    BY <2>1
  <2> DEFINE a == plane * w + (x - lowX)
  <2>3. a \in Nat
    BY <1>2, <2>2
  <2>4. plane' * w + (x' - lowX) = a + 1
    <3>1. CASE x = highX
      <4>1. plane' = plane + 1 /\ x' = lowX
        BY <1>1, <3>1
      <4>2. (plane + 1) * w = plane * w + w
        BY <2>1, NextColumn
      <4> DEFINE b == plane * w
      <4>3. b \in Nat /\ plane' * w = b + w /\ a = b + (x - lowX)
        BY <2>2, <4>1, <4>2
      <4> HIDE DEF a, b
      <4>4. w = x - lowX + 1
        BY <3>1
      <4> QED
        BY <1>2, <4>1, <4>3, <4>4
    <3>2. CASE x # highX
      <4>1. plane' = plane /\ x' = x + 1
        BY <1>1, <3>2
      <4> DEFINE b == plane * w
      <4>2. b \in Nat /\ plane' * w = b /\ a = b + (x - lowX)
        BY <2>2, <4>1
      <4> HIDE DEF a, b
      <4> QED
        BY <1>2, <4>1, <4>2
    <3> QED
      BY <3>1, <3>2
  <2>5. m = a * n
    BY <1>5
  <2> HIDE DEF a
  <2>6. (a + 1) * n = a * n + n
    BY <1>4, <2>3, NextColumn
  <2> QED
    BY <2>4, <2>5, <2>6
<1>14. ASSUME NEW k \in 1 .. Len(output'), output'[k] # 0 PROVE Key(output'[k]) \in real'
  <2>1. CASE k \in 1 .. m
    BY <1>1, <1>5, <1>10, <1>14, <2>1
  <2>2. CASE \E i \in 1 .. n : k = m + i
    <3>1. PICK i \in 1 .. n : k = m + i
      BY <2>2
    <3>2. output'[k] = f[i]
      BY <1>10, <3>1
    <3>3. ~Invalid(x, Column[i]) /\ Key(output'[k]) = RealRegion(x, Column[i])
      BY <1>8, <1>14, <3>2
    <3>4. Column[i] \in ToSet(Column)
      BY <1>4
    <3> QED
      BY <1>1, <3>3, <3>4
  <2> QED
    BY <1>10, <2>1, <2>2
<1>15. ASSUME NEW r \in real' PROVE \E k \in 1 .. Len(output') : output'[k] # 0 /\ Key(output'[k]) = r
  <2>1. CASE r \in real
    <3>1. PICK k \in 1 .. m : output[k] # 0 /\ Key(output[k]) = r
      BY <1>5, <2>1
    <3>2. k \in 1 .. Len(output') /\ output'[k] = output[k]
      BY <1>2, <1>4, <1>10
    <3> QED
      BY <3>1, <3>2
  <2>2. CASE ~(r \in real)
    <3>1. PICK y \in ToSet(Column) : ~Invalid(x, y) /\ r = RealRegion(x, y)
      BY <1>1, <2>2
    <3>2. PICK i \in 1 .. n : Column[i] = y
      BY <1>4
    <3>3. f[i] # 0 /\ Key(f[i]) = r
      BY <1>8, <3>1, <3>2
    <3>4. m + i \in 1 .. Len(output') /\ output'[m + i] = f[i]
      BY <1>10, <1>17
    <3> QED
      BY <3>3, <3>4
  <2> QED
    BY <2>1, <2>2
<1>16. ChunksListed'
  <2>1. /\ Low(chunkX)' = lowX /\ High(chunkX)' = highX
        /\ High(chunkX)' - Low(chunkX)' + 1 = w /\ High(chunkY)' - Low(chunkY)' + 1 = n
    BY <1>3 DEF lowX, lowY, highX, highY, n
  <2> HIDE DEF w
  <2>2. Len(output') = (plane' * w + (x' - lowX)) * n
    BY <1>10, <1>13
  <2> QED
    BY <1>11, <1>14, <1>15, <2>1, <2>2 DEF ChunksListed
<1> QED
  BY <1>12, <1>16

\* A complete list of either form is what the client needs.
LEMMA ListsAreComplete == RegionsInv => ListsTheMap
<1> SUFFICES ASSUME RegionsInv PROVE ListsTheMap
  OBVIOUS
<1> DEFINE lowX == Low(chunkX)
           lowY == Low(chunkY)
           highX == High(chunkX)
           highY == High(chunkY)
<1>1. /\ chunkX \in Nat /\ chunkY \in Nat /\ mapSize \in Nat
      /\ chunkX + mapSize < 1024 /\ chunkY + mapSize < 1024 /\ output \in Seq(Nat)
  BY DEF RegionsInv, RegionsTypes
<1>2. /\ lowX \in Nat /\ highX \in Nat /\ lowY \in Nat /\ highY \in Nat /\ lowX <= highX /\ lowY <= highY
  BY <1>1, Bounds DEF RegionsInv
<1>3. ToSet(output) = {output[k] : k \in 1 .. Len(output)}
  BY <1>1 DEF ToSet
<1>4. ListsRegions
  <2> SUFFICES ASSUME ~dynamic, x > Highest(chunkX, mapSize, 8)
               PROVE  /\ ToSet(output) = {RegionId(cx \div 8, cy \div 8) : cx \in Around(chunkX), cy \in Around(chunkY)}
                      /\ Len(output) = Cardinality(ToSet(output))
    BY DEF ListsRegions
  <2>1. ColumnsListed
    BY DEF RegionsInv
  <2>2. Low(chunkX) <= x /\ x <= High(chunkX) + 1 /\ x \in Nat
    BY DEF RegionsInv, RegionsTypes
  <2>3. x - 1 = highX
    BY <1>2, <2>2 DEF High, Step8
  <2>4. /\ {d \div 8 : d \in Around(chunkX)} = lowX .. highX
        /\ {d \div 8 : d \in Around(chunkY)} = lowY .. highY
    BY <1>1, AroundIs
  <2> HIDE DEF lowX, lowY, highX, highY
  <2>5. /\ \A k \in 1 .. Len(output) : \E rx \in lowX .. highX, ry \in lowY .. highY : output[k] = RegionId(rx, ry)
        /\ \A rx \in lowX .. highX, ry \in lowY .. highY : \E k \in 1 .. Len(output) : output[k] = RegionId(rx, ry)
        /\ \A k, l \in 1 .. Len(output) : output[k] = output[l] => k = l
    BY <2>1, <2>3 DEF ColumnsListed, lowX, lowY, highY
  <2> DEFINE R == {RegionId(cx \div 8, cy \div 8) : cx \in Around(chunkX), cy \in Around(chunkY)}
             B == {RegionId(rx, ry) : rx \in lowX .. highX, ry \in lowY .. highY}
  <2>6. R = B
    <3>1. \A cx \in Around(chunkX) : cx \div 8 \in lowX .. highX
      BY <2>4
    <3>2. \A cy \in Around(chunkY) : cy \div 8 \in lowY .. highY
      BY <2>4
    <3>3. \A rx \in lowX .. highX : \E cx \in Around(chunkX) : rx = cx \div 8
      BY <2>4
    <3>4. \A ry \in lowY .. highY : \E cy \in Around(chunkY) : ry = cy \div 8
      BY <2>4
    <3> QED
      BY <3>1, <3>2, <3>3, <3>4
  <2>7. ToSet(output) = B
    <3>1. ASSUME NEW r \in ToSet(output) PROVE r \in B
      <4>1. PICK k \in 1 .. Len(output) : r = output[k]
        BY <1>3
      <4>2. PICK rx \in lowX .. highX, ry \in lowY .. highY : output[k] = RegionId(rx, ry)
        BY <2>5
      <4> QED
        BY <4>1, <4>2
    <3>2. ASSUME NEW rx \in lowX .. highX, NEW ry \in lowY .. highY PROVE RegionId(rx, ry) \in ToSet(output)
      <4>1. PICK k \in 1 .. Len(output) : output[k] = RegionId(rx, ry)
        BY <2>5
      <4> QED
        BY <1>3, <4>1
    <3> QED
      BY <3>1, <3>2
  <2>8. Len(output) = Cardinality(ToSet(output))
    <3> DEFINE A == 1 .. Len(output)
               C == ToSet(output)
               g == [k \in A |-> output[k]]
    <3>1. IsFiniteSet(A) /\ Cardinality(A) = Len(output)
      <4>1. PICK m \in Nat : m = Len(output)
        BY <1>1
      <4>2. IsFiniteSet(1 .. m) /\ Cardinality(1 .. m) = IF 1 > m THEN 0 ELSE m - 1 + 1
        BY FS_Interval
      <4>3. (IF 1 > m THEN 0 ELSE m - 1 + 1) = m
        OBVIOUS
      <4> QED
        BY <4>1, <4>2, <4>3
    <3>2. g \in [A -> C] /\ (\A b \in C : \E a \in A : g[a] = b) /\ (\A a, b \in A : g[a] = g[b] => a = b)
      BY <1>3, <2>5
    <3> HIDE DEF A, C, g
    <3>3. g \in Bijection(A, C)
      BY <3>2 DEF Bijection, Injection, Surjection, IsInjective
    <3>4. Cardinality(C) = Cardinality(A)
      BY <3>1, <3>3, FS_Bijection DEF ExistsBijection
    <3> QED
      BY <3>1, <3>4 DEF C
  <2>9. ToSet(output) = R
    <3> HIDE DEF R, B
    <3> QED
      BY <2>6, <2>7
  <2> QED
    BY <2>8, <2>9
<1>5. KeysOfTheMap
  <2> SUFFICES ASSUME plane = 4
               PROVE  /\ Len(output) = 4 * Cardinality(Around(chunkX)) * Cardinality(Around(chunkY))
                      /\ real = {Key(h) : h \in ToSet(output) \ {0}}
    BY DEF KeysOfTheMap, Key
  <2>1. dynamic /\ ChunksListed
    BY DEF RegionsInv, RegionsTypes
  <2>2. Around(chunkX) = lowX .. highX /\ Around(chunkY) = lowY .. highY
    <3> HIDE DEF lowX, lowY, highX, highY
    <3>1. Around(chunkX) = Low(chunkX) .. High(chunkX) /\ Around(chunkY) = Low(chunkY) .. High(chunkY)
      BY <1>1, <2>1, AroundIs
    <3> QED
      BY <3>1 DEF lowX, lowY, highX, highY
  <2> DEFINE w == highX - lowX + 1
             n == highY - lowY + 1
  <2>3. Len(output) = (4 * w + (x - lowX)) * n /\ x = lowX
    BY <2>1 DEF ChunksListed
  <2> HIDE DEF lowX, lowY, highX, highY
  <2>4. Cardinality(Around(chunkX)) = w
    <3>1. Cardinality(lowX .. highX) = IF lowX > highX THEN 0 ELSE highX - lowX + 1
      BY <1>2, FS_Interval
    <3> QED
      BY <1>2, <2>2, <3>1
  <2>5. Cardinality(Around(chunkY)) = n
    <3>1. Cardinality(lowY .. highY) = IF lowY > highY THEN 0 ELSE highY - lowY + 1
      BY <1>2, FS_Interval
    <3> QED
      BY <1>2, <2>2, <3>1
  <2>6. Len(output) = 4 * w * n
    <3>1. w \in Nat /\ n \in Nat
      BY <1>2
    <3> HIDE DEF w, n
    <3>2. 4 * w + (x - lowX) = 4 * w
      BY <1>2, <2>3, <3>1
    <3> QED
      BY <2>3, <3>2
  <2>7. real = {Key(h) : h \in ToSet(output) \ {0}}
    <3>1. /\ \A k \in 1 .. Len(output) : output[k] # 0 => Key(output[k]) \in real
          /\ \A r \in real : \E k \in 1 .. Len(output) : output[k] # 0 /\ Key(output[k]) = r
      BY <2>1 DEF ChunksListed
    <3> QED
      <4>1. ASSUME NEW r \in real PROVE \E h \in ToSet(output) \ {0} : r = Key(h)
        BY <1>3, <3>1
      <4>2. ASSUME NEW h \in ToSet(output) \ {0} PROVE Key(h) \in real
        BY <1>3, <3>1
      <4> QED
        BY <4>1, <4>2
  <2> QED
    BY <2>4, <2>5, <2>6, <2>7
<1> QED
  BY <1>4, <1>5 DEF ListsTheMap

\* A fixed map's list has every region in reach once, a dynamic one an entry for
\* every chunk and the key of every region they lie in: for any tile whose map
\* stays within the coordinates the packets can carry.
THEOREM MapsAreListed == RegionsInit /\ [][RegionsNext]_regionVars => []ListsTheMap
<1>1. RegionsInit => RegionsInv
  <2> SUFFICES ASSUME RegionsInit PROVE RegionsInv
    OBVIOUS
  <2>1. /\ chunkX \in Chunks /\ chunkY \in Chunks /\ mapSize \in MapSizes /\ dynamic \in BOOLEAN
        /\ plane = 0 /\ x = Low(chunkX) /\ output = <<>> /\ real = {}
    BY DEF RegionsInit, Low
  <2>2. /\ chunkX \in Nat /\ chunkY \in Nat /\ mapSize \in Nat
        /\ chunkX + mapSize < 1024 /\ chunkY + mapSize < 1024
    BY <2>1, RegionsAssumption DEF RegionsAssumption
  <2>3. Low(chunkX) \in Nat /\ High(chunkX) \in Nat /\ Low(chunkX) <= High(chunkX)
    <3>1. CASE dynamic
      BY <2>2, <3>1 DEF Low, High, Lowest, Highest, Step8
    <3>2. CASE ~dynamic
      BY <2>2, <3>2 DEF Low, High, Lowest, Highest, Step8
    <3> QED
      BY <3>1, <3>2
  <2>4. x <= High(chunkX) + 1 /\ x <= High(chunkX) /\ Low(chunkX) <= x /\ x \in Nat
    BY <2>1, <2>3
  <2>5. output \in Seq(Nat) /\ Len(output) = 0
    BY <2>1
  <2>6. RegionsTypes
    BY <2>1, <2>2, <2>4, <2>5 DEF RegionsTypes
  <2>7. ColumnsListed
    <3>1. Low(chunkX) .. x - 1 = {}
      BY <2>1, <2>3
    <3> QED
      BY <2>5, <3>1 DEF ColumnsListed
  <2>8. ChunksListed
    <3> DEFINE w == High(chunkX) - Low(chunkX) + 1
               n == High(chunkY) - Low(chunkY) + 1
    <3>1. 0 = (plane * w + (x - Low(chunkX))) * n
      <4>1. w \in Nat
        BY <2>3
      <4>2. n \in Nat
        BY <2>2, <2>6, Bounds
      <4>3. x - Low(chunkX) = 0
        BY <2>1, <2>3
      <4> HIDE DEF w, n
      <4>4. plane * w + (x - Low(chunkX)) = 0
        BY <2>1, <4>1, <4>3
      <4> QED
        BY <4>2, <4>4
    <3> QED
      BY <2>1, <2>4, <2>5, <3>1 DEF ChunksListed
  <2> QED
    BY <2>6, <2>7, <2>8 DEF RegionsInv
<1>2. RegionsInv /\ [RegionsNext]_regionVars => RegionsInv'
  <2> SUFFICES ASSUME RegionsInv, [RegionsNext]_regionVars PROVE RegionsInv'
    OBVIOUS
  <2>1. CASE Fixed
    <3>1. ~dynamic /\ dynamic' = dynamic
      BY <2>1 DEF Fixed
    <3> QED
      BY <2>1, <3>1, ColumnsStayListed DEF RegionsInv
  <2>2. CASE Dynamic
    <3>1. dynamic /\ dynamic' = dynamic
      BY <2>2 DEF Dynamic
    <3> QED
      BY <2>2, <3>1, ChunksStayListed DEF RegionsInv
  <2>3. CASE UNCHANGED regionVars
    <3>1. UNCHANGED <<chunkX, chunkY, mapSize, dynamic, plane, x, output, real>>
      BY <2>3 DEF regionVars
    <3>3. Low(chunkX)' = Low(chunkX) /\ High(chunkX)' = High(chunkX) /\ Low(chunkY)' = Low(chunkY) /\ High(chunkY)' = High(chunkY)
      BY <3>1 DEF Low, High, Step8
    <3> QED
      BY <3>1, <3>3 DEF RegionsInv, RegionsTypes, ColumnsListed, ChunksListed
  <2> QED
    BY <2>1, <2>2, <2>3 DEF RegionsNext
<1> QED
  BY <1>1, <1>2, ListsAreComplete, PTL
=============================================================================
