--------------------------- MODULE Session_proofs ---------------------------
(* The protocol of one session, for any size of its input, and the events *)
(* its handlers emit.                                                     *)
EXTENDS Session, Events, TLAPS

\* What the stages, the status and the outcome of the login have to do with
\* each other: a refused login leaves a decoder that knows no login packet, and
\* nothing is read with a session disconnected before its login.
StageInv ==
  /\ IF refused
     THEN handler = "login" /\ decoder = "global" /\ encoder \in {"login", "global"}
     ELSE decoder = handler /\ encoder = handler
  /\ online <=> handler = "world"
  /\ phase = "reading" /\ status = "kDisconnected" => handler \in {"global", "grab"}

IInv == TypeOK /\ StageInv /\ ~lost

\* A decoded packet lies behind its code, and inside the input but for a
\* GrabDecoder that does not start at the beginning.
LEMMA DecodedPackets ==
  ASSUME TypeOK, position < size, NEW packet \in Decoded
  PROVE  /\ packet.next \in Nat
         /\ decoder = "grab" => packet.next = position + size
         /\ decoder # "grab" => packet.next <= size
         /\ packet.type = "kLoginWorld" => decoder = "login"
<1>1. /\ decoder \in {"global", "grab", "login", "world"}
      /\ position \in Nat /\ size \in Nat
  BY DEF TypeOK, Stages
<1>2. ASSUME NEW types, NEW p \in GlobalPackets(types)
      PROVE  p.next \in Nat /\ p.next <= size /\ p.type \in types
  <2>1. CASE position + 1 = size
    BY <1>1, <1>2, <2>1 DEF GlobalPackets, Packet
  <2>2. CASE position + 1 # size
    <3>1. PICK type \in types, n \in 0 .. size - position - 2 :
            p = Packet(type, n, position + 2 + n) /\ position + 2 < size
      BY <1>2, <2>2 DEF GlobalPackets
    <3> QED
      BY <1>1, <3>1 DEF Packet
  <2> QED
    BY <2>1, <2>2
<1>3. CASE decoder = "global"
  <2>1. packet \in GlobalPackets({"kHandshake", "kLogin", "kGrabCache"})
    BY <1>3 DEF Decoded
  <2> QED
    BY <1>2, <1>3, <2>1
<1>4. CASE decoder = "login"
  <2>1. \/ packet \in GlobalPackets({"kHandshake", "kLogin", "kGrabCache"})
        \/ \E type \in {"kLoginWorld", "kLoginLobby"} :
             packet = Packet(type, size - position - 1, size)
    BY <1>4 DEF Decoded, LoginPackets
  <2> QED
    BY <1>1, <1>2, <1>4, <2>1 DEF Packet
<1>5. CASE decoder = "world"
  <2>1. packet \in WorldPackets
    BY <1>5 DEF Decoded
  <2>2. CASE packet \in GlobalPackets({"kHandshake"})
    BY <1>2, <1>5, <2>2
  <2>3. CASE packet \notin GlobalPackets({"kHandshake"})
    <3> DEFINE rest == size - position - 1
    <3> DEFINE Length(type) == IF WorldSizes[type] <= rest THEN WorldSizes[type] ELSE rest
    <3>1. PICK type \in DOMAIN WorldSizes :
            packet = Packet(type, Length(type), position + 1 + Length(type))
      BY <2>1, <2>3 DEF WorldPackets
    <3>2. WorldSizes[type] \in Nat /\ type # "kLoginWorld"
      BY <3>1 DEF WorldSizes
    <3>3. Length(type) \in Nat /\ Length(type) <= rest
      BY <1>1, <3>2
    <3> HIDE DEF Length
    <3>4. packet.next = position + 1 + Length(type) /\ packet.type = type
      BY <3>1 DEF Packet
    <3> QED
      BY <1>1, <1>5, <3>2, <3>3, <3>4
  <2> QED
    BY <2>2, <2>3
<1>6. CASE decoder = "grab"
  BY <1>1, <1>6 DEF Decoded, GrabPackets, Packet
<1> QED
  BY <1>1, <1>3, <1>4, <1>5, <1>6

\* Every step keeps the stages together and finds a code for its replies.
LEMMA IInvStep == IInv /\ [Next]_vars => IInv'
<1> SUFFICES ASSUME IInv, [Next]_vars PROVE IInv'
  OBVIOUS
<1> USE DEF IInv
<1>1. CASE ReadBegins
  BY <1>1 DEF ReadBegins, TypeOK, StageInv, stageVars, Stages
<1>2. CASE ReadEnds
  BY <1>2 DEF ReadEnds, TypeOK, StageInv, Stages
<1>3. CASE ReadFinishes
  <2>1. size' \in 0 .. MaxInput
    BY <1>3, InputAssumption DEF ReadFinishes, InputAssumption
  <2> QED
    BY <1>3, <2>1 DEF ReadFinishes, TypeOK, StageInv, stageVars, Stages
<1>4. CASE DecodeFails
  <2>1. position' \in Nat
    BY <1>4 DEF DecodeFails, FailsAt, TypeOK
  <2> QED
    BY <1>4, <2>1 DEF DecodeFails, TypeOK, StageInv, stageVars, Stages
<1>5. CASE DecodeThrows
  BY <1>5 DEF DecodeThrows, TypeOK, StageInv, stageVars, Stages
<1>6. ASSUME position < size, NEW packet \in Decoded, Handle(packet)
      PROVE  IInv'
  <2>1. /\ packet.next \in Nat
        /\ packet.type = "kLoginWorld" => decoder = "login"
    BY <1>6, DecodedPackets
  <2>2. CASE Handshake(packet)
    <3>1. pipelined' \in BOOLEAN
      <4>1. pipelined' = pipelined \/ pipelined' = (pipelined \/ packet.next < size)
        BY <2>2, Zenon DEF Handshake
      <4>2. pipelined \in BOOLEAN
        BY DEF TypeOK
      <4> QED
        BY <4>1, <4>2, Zenon
    <3>2. ~lost' /\ StageInv'
      BY <2>2 DEF Handshake, Consume, Ignore, Enter, Send, Codes, TypeOK, StageInv,
                  stageVars, Stages
    <3>3. status' \in {"kConnected", "kDownloadingCache", "kLoggingIn", "kDisconnected"}
      BY <2>2 DEF Handshake, Ignore, TypeOK, stageVars
    <3>4. decoder' \in Stages /\ handler' \in Stages /\ encoder' \in Stages
      BY <2>2 DEF Handshake, Ignore, Enter, TypeOK, stageVars, Stages
    <3>5. online' = online /\ refused' = refused
      BY <2>2, Zenon DEF Handshake, Ignore, stageVars
    <3>6. size' = size /\ phase' = phase /\ position' \in Nat
      BY <2>1, <2>2 DEF Handshake, Consume
    <3>7. lost' \in BOOLEAN
      <4>1. \/ lost' = lost
            \/ lost' = (lost \/ ~({"kClientOutdated"} \subseteq Codes(encoder)))
            \/ lost' = (lost \/ ~({"kStartUp"} \subseteq Codes(encoder')))
        BY <2>2, Zenon DEF Handshake, Ignore, Send
      <4>2. lost \in BOOLEAN
        BY DEF TypeOK
      <4> QED
        BY <4>1, <4>2, Zenon
    <3> QED
      BY <3>1, <3>2, <3>3, <3>4, <3>5, <3>6, <3>7, Zenon DEF TypeOK
  <2>3. CASE LoginRequest(packet)
    BY <2>1, <2>3 DEF LoginRequest, Consume, Enter, Send, Codes, TypeOK, StageInv,
                     Stages
  <2>4. CASE Reject(packet)
    BY <2>1, <2>4 DEF Reject, Consume, TypeOK, StageInv, Stages
  <2>5. CASE Grab(packet)
    BY <2>1, <2>5 DEF Grab, Consume, Send, Codes, TypeOK, StageInv, Stages
  <2>6. CASE LoginRefused(packet)
    BY <2>1, <2>6 DEF LoginRefused, Consume, Errors, Send, Codes, TypeOK, StageInv,
                     Stages
  <2>7. CASE LoginAccepted(packet)
    BY <2>1, <2>7 DEF LoginAccepted, Consume, Enter, Send, Codes, TypeOK, StageInv,
                     Stages
  <2>8. CASE LoginThrows(packet)
    <3>1. TypeOK'
      BY <2>8 DEF LoginThrows, Enter, TypeOK, Stages
    <3>2. ~lost'
      BY <2>8 DEF LoginThrows
    <3>3. decoder = "login" /\ ~refused
      BY <2>1, <2>8 DEF LoginThrows, StageInv
    <3>4. StageInv'
      BY <2>8, <3>3 DEF LoginThrows, Enter, StageInv
    <3> QED
      BY <3>1, <3>2, <3>4
  <2>9. CASE World(packet)
    BY <2>1, <2>9 DEF World, Consume, Send, Codes, TypeOK, StageInv, stageVars, Stages
  <2> QED
    BY <1>6, <2>2, <2>3, <2>4, <2>5, <2>6, <2>7, <2>8, <2>9 DEF Handle
<1>7. CASE WorldUpdate
  BY <1>7 DEF WorldUpdate, Send, Codes, TypeOK, StageInv, stageVars, Stages
<1>8. CASE Ended \/ UNCHANGED vars
  BY <1>8 DEF Ended, vars, TypeOK, StageInv, Stages
<1> QED
  BY <1>1, <1>2, <1>3, <1>4, <1>5, <1>6, <1>7, <1>8 DEF Next, Reading

\* The invariant holds in every reachable state.
THEOREM InvariantHolds == Spec => []IInv
<1>1. Init => IInv
  <2> SUFFICES ASSUME Init PROVE IInv
    OBVIOUS
  <2>1. TypeOK
    <3>1. size \in 0 .. MaxInput /\ position \in Nat
      BY InputAssumption DEF Init, InputAssumption
    <3>2. online \in BOOLEAN /\ lost \in BOOLEAN /\ refused \in BOOLEAN
      BY DEF Init
    <3> QED
      BY <3>1, <3>2 DEF Init, TypeOK, Stages
  <2>2. StageInv
    BY DEF Init, StageInv
  <2>3. ~lost
    BY DEF Init
  <2> QED
    BY <2>1, <2>2, <2>3 DEF IInv
<1> QED
  BY <1>1, IInvStep, PTL DEF Spec

\* The decoder, the handler and the encoder of a session are for one stage.
THEOREM StagesAlwaysAgree == Spec => []StagesAgree
<1>1. IInv => StagesAgree
  BY DEF IInv, StageInv, StagesAgree
<1> QED
  BY <1>1, InvariantHolds, PTL

\* Every reply has a code in the encoder it is sent with.
THEOREM RepliesAlwaysEncodable == Spec => []RepliesEncodable
<1>1. IInv => RepliesEncodable
  BY DEF IInv, RepliesEncodable
<1> QED
  BY <1>1, InvariantHolds, PTL

\* A session whose login was refused never gets a player.
THEOREM OnlyOneAttempt == Spec => []OneAttempt
<1>1. IInv => OneAttempt
  BY DEF IInv, StageInv, OneAttempt
<1> QED
  BY <1>1, InvariantHolds, PTL

\* A session that is online stays online, and no packet changes its stage: the
\* server composes the reactor with the world manager on that assumption.
THEOREM AlwaysOnlineUntilClosed == Spec => OnlineUntilClosed
<1>1. IInv /\ [Next]_vars =>
        [online => online' /\ (phase = "reading" => UNCHANGED stageVars)]_vars
  <2> SUFFICES ASSUME IInv, Next, online
               PROVE  online' /\ (phase = "reading" => UNCHANGED stageVars)
    OBVIOUS
  <2>1. handler = "world"
    BY DEF IInv, StageInv
  <2>2. CASE \/ ReadBegins \/ ReadEnds \/ ReadFinishes \/ DecodeFails \/ DecodeThrows
            \/ WorldUpdate \/ Ended
    BY <2>2 DEF ReadBegins, ReadEnds, ReadFinishes, DecodeFails, DecodeThrows,
                WorldUpdate, Ended, stageVars, vars
  <2>3. ASSUME NEW packet \in Decoded, Handle(packet)
        PROVE  online' /\ UNCHANGED stageVars
    BY <2>1, <2>3 DEF Handle, Handshake, LoginRequest, Reject, Grab, LoginRefused,
                      LoginAccepted, LoginThrows, World, stageVars
  <2> QED
    BY <2>2, <2>3 DEF Next, Reading
<1> QED
  BY <1>1, InvariantHolds, PTL DEF Spec, OnlineUntilClosed

\* Once disconnected a session stays so and gets no player, although Read goes
\* on with the packets behind the one that disconnected it.
THEOREM DisconnectAlwaysFinal == Spec => DisconnectIsFinal
<1>1. IInv /\ [Next]_vars =>
        [status = "kDisconnected" => status' = status /\ online' = online]_vars
  <2> SUFFICES ASSUME IInv, Next, status = "kDisconnected"
               PROVE  status' = status /\ online' = online
    OBVIOUS
  <2>1. phase = "reading" => handler \in {"global", "grab"}
    BY DEF IInv, StageInv
  <2>2. CASE \/ ReadBegins \/ ReadEnds \/ ReadFinishes \/ DecodeFails \/ DecodeThrows
            \/ WorldUpdate \/ Ended
    BY <2>2 DEF ReadBegins, ReadEnds, ReadFinishes, DecodeFails, DecodeThrows,
                WorldUpdate, Ended, stageVars, vars
  <2>3. ASSUME NEW packet \in Decoded, Handle(packet)
        PROVE  status' = status /\ online' = online
    BY <2>1, <2>3 DEF Handle, Handshake, LoginRequest, Reject, Grab, LoginRefused,
                      LoginAccepted, LoginThrows, World, Consume, stageVars
  <2> QED
    BY <2>2, <2>3 DEF Next, Reading
<1> QED
  BY <1>1, InvariantHolds, PTL DEF Spec, DisconnectIsFinal

\* Only the cache stage ever reads past its input, with any client.
THEOREM AlwaysOverrunsOnlyInGrab == Spec => []OverrunsOnlyInGrab
<1>1. Init => OverrunsOnlyInGrab
  BY DEF Init, OverrunsOnlyInGrab
<1>2. IInv /\ OverrunsOnlyInGrab /\ [Next]_vars => OverrunsOnlyInGrab'
  <2> SUFFICES ASSUME IInv, OverrunsOnlyInGrab, [Next]_vars
               PROVE  OverrunsOnlyInGrab'
    OBVIOUS
  <2>1. TypeOK /\ position \in Nat /\ size \in Nat
    BY DEF IInv, TypeOK
  <2>2. decoder = "grab" => handler = "grab"
    BY DEF IInv, StageInv
  <2>3. CASE ReadBegins
    BY <2>1, <2>2, <2>3 DEF ReadBegins, stageVars, OverrunsOnlyInGrab
  <2>4. CASE ReadEnds \/ ReadFinishes \/ DecodeThrows
    BY <2>1, <2>4 DEF ReadEnds, ReadFinishes, DecodeThrows, stageVars, OverrunsOnlyInGrab
  <2>5. CASE DecodeFails
    BY <2>1, <2>5 DEF DecodeFails, FailsAt, stageVars, OverrunsOnlyInGrab
  <2>6. ASSUME position < size, NEW packet \in Decoded, Handle(packet)
        PROVE  OverrunsOnlyInGrab'
    <3>1. packet.next \in Nat /\ (decoder # "grab" => packet.next <= size)
      BY <2>1, <2>6, DecodedPackets
    <3>2. CASE decoder = "grab"
      BY <2>1, <2>2, <2>6, <3>2 DEF Handle, Handshake, LoginRequest, Reject, Grab,
         LoginRefused, LoginAccepted, LoginThrows, World, Consume, OverrunsOnlyInGrab
    <3>3. CASE decoder # "grab"
      <4>1. position' <= size'
        BY <2>1, <2>6, <3>1, <3>3 DEF Handle, Handshake, LoginRequest, Reject, Grab,
           LoginRefused, LoginAccepted, LoginThrows, World, Consume
      <4>2. position' \in Nat /\ size' \in Nat
        BY <2>1, <2>6, <3>1 DEF Handle, Handshake, LoginRequest, Reject, Grab,
           LoginRefused, LoginAccepted, LoginThrows, World, Consume
      <4> QED
        BY <4>1, <4>2 DEF OverrunsOnlyInGrab
    <3> QED
      BY <3>2, <3>3
  <2>7. CASE WorldUpdate \/ Ended \/ UNCHANGED vars
    BY <2>7 DEF WorldUpdate, Ended, vars, stageVars, OverrunsOnlyInGrab
  <2> QED
    BY <2>3, <2>4, <2>5, <2>6, <2>7 DEF Next, Reading
<1> QED
  BY <1>1, <1>2, InvariantHolds, PTL DEF Spec

\* GrabDecoder takes the buffer from its beginning, so the position must be there
\* whenever it decodes.
PositionInv ==
  ~pipelined => /\ position <= size
                /\ decoder = "grab" =>
                     position = 0 \/ (position = size /\ phase = "reading")

\* The position never passes the end of the input unless a read held bytes
\* behind an accepted handshake, and then only in the cache stage.
THEOREM PositionAlwaysInside == Spec => []PositionInside
<1>1. Init => PositionInv
  BY DEF Init, PositionInv
<1>2. IInv /\ PositionInv /\ [Next]_vars => PositionInv'
  <2> SUFFICES ASSUME IInv, PositionInv, [Next]_vars PROVE PositionInv'
    OBVIOUS
  <2>1. TypeOK /\ position \in Nat /\ size \in Nat
    BY DEF IInv, TypeOK
  <2>2. CASE ReadBegins \/ ReadEnds \/ ReadFinishes
    BY <2>1, <2>2 DEF ReadBegins, ReadEnds, ReadFinishes, stageVars, PositionInv
  <2>3. CASE DecodeFails
    BY <2>1, <2>3 DEF DecodeFails, FailsAt, stageVars, PositionInv
  <2>4. CASE DecodeThrows
    BY <2>1, <2>4 DEF DecodeThrows, stageVars, PositionInv
  <2>5. ASSUME position < size, NEW packet \in Decoded, Handle(packet)
        PROVE  PositionInv'
    <3>1. /\ packet.next \in Nat
          /\ decoder = "grab" => packet.next = position + size
          /\ decoder # "grab" => packet.next <= size
      BY <2>1, <2>5, DecodedPackets
    <3>0. SUFFICES ASSUME ~pipelined' PROVE PositionInv'
      BY DEF PositionInv
    <3>a. ~pipelined
      BY <2>5, <3>0, Zenon DEF Handle, Handshake, LoginRequest, Reject, Grab,
         LoginRefused, LoginAccepted, LoginThrows, World
    <3>b. position <= size /\ (decoder = "grab" => position = 0 \/ position = size)
      BY <3>a DEF PositionInv
    <3>2. packet.next <= size /\ (decoder = "grab" => packet.next = size)
      BY <2>1, <2>5, <3>1, <3>b
    <3>3. CASE Handshake(packet)
      <4>1. decoder' = decoder \/ ~(packet.next < size)
        BY <3>0, <3>3, Zenon DEF Handshake, Ignore, stageVars
      <4>2. position' = packet.next /\ size' = size /\ phase' = "reading"
        BY <3>3 DEF Handshake, Consume
      <4>3. packet.next < size \/ packet.next = size
        BY <2>1, <3>1, <3>2
      <4> QED
        BY <2>1, <3>1, <3>2, <4>1, <4>2, <4>3 DEF PositionInv
    <3>4. CASE LoginRequest(packet) \/ LoginAccepted(packet)
      BY <2>1, <3>2, <3>4 DEF LoginRequest, LoginAccepted, Consume, Enter, PositionInv
    <3>5. CASE LoginRefused(packet)
      BY <2>1, <3>2, <3>5 DEF LoginRefused, Consume, PositionInv
    <3>6. CASE LoginThrows(packet)
      BY <2>1, <2>5, <3>6 DEF LoginThrows, Enter, PositionInv
    <3>7. CASE Reject(packet) \/ Grab(packet) \/ World(packet)
      BY <2>1, <3>2, <3>7 DEF Reject, Grab, World, Consume, stageVars, PositionInv
    <3> QED
      BY <2>5, <3>3, <3>4, <3>5, <3>6, <3>7 DEF Handle
  <2>6. CASE WorldUpdate \/ Ended \/ UNCHANGED vars
    BY <2>6 DEF WorldUpdate, Ended, vars, stageVars, PositionInv
  <2> QED
    BY <2>2, <2>3, <2>4, <2>5, <2>6 DEF Next, Reading
<1>3. PositionInv /\ OverrunsOnlyInGrab => PositionInside
  BY DEF PositionInv, InsideUnlessPipelined, PositionInside
<1> QED
  BY <1>1, <1>2, <1>3, InvariantHolds, AlwaysOverrunsOnlyInGrab, PTL DEF Spec

-----------------------------------------------------------------------------
(* The events that the handlers of a session emit *)

\* The registrations that got the event.
Got(r) == \E i \in 1 .. Len(delivered) : delivered[i][1] = r

\* While an event is emitted, every registration before the one looked at got
\* it or was gone, and none has handled it.
EventsInv ==
  /\ registered \in Seq(Sinks) /\ at \in 0 .. Len(registered)
  /\ delivered \in Seq(Nat \X BOOLEAN)
  /\ \A i, j \in 1 .. Len(delivered) : i < j => delivered[i][1] < delivered[j][1] /\ ~delivered[i][2]
  /\ at # 0 =>
       /\ \A i \in 1 .. Len(delivered) : delivered[i][1] < at /\ ~delivered[i][2]
       /\ \A r \in 1 .. Len(registered) : r < at => Got(r) \/ r \in gone
  /\ (at = 0 /\ (delivered # <<>> \/ gone # {})) =>
       \A r \in 1 .. Len(registered) :
         Got(r) \/ r \in gone
         \/ (Len(delivered) > 0 /\ delivered[Len(delivered)][2] /\ r > delivered[Len(delivered)][1])

\* Where the loop goes when nobody has handled the event: to the next
\* registration, or out, when all of them have been looked at.
LEMMA LooksAtEach ==
  ASSUME EventsInv, at # 0, NextSink, registered' = registered,
         delivered' \in Seq(Nat \X BOOLEAN),
         \A i \in 1 .. Len(delivered') : delivered'[i][1] <= at /\ ~delivered'[i][2],
         \A i, j \in 1 .. Len(delivered') : i < j => delivered'[i][1] < delivered'[j][1],
         \A r \in 1 .. Len(registered) : r <= at => Got(r)' \/ r \in gone'
  PROVE  EventsInv'
<1>1. at \in 1 .. Len(registered) /\ Len(registered) \in Nat /\ Len(delivered') \in Nat
  BY DEF EventsInv
<1>2. \A i \in 1 .. Len(delivered') : delivered'[i][1] \in Nat
  OBVIOUS
<1>3. CASE at = Len(registered)
  <2>1. at' = 0
    BY <1>3 DEF NextSink
  <2>2. \A r \in 1 .. Len(registered) : Got(r)' \/ r \in gone'
    BY <1>1, <1>3
  <2> QED
    BY <1>1, <2>1, <2>2 DEF EventsInv
<1>4. CASE at # Len(registered)
  <2>1. at' = at + 1
    BY <1>4 DEF NextSink
  <2>2. at' \in 0 .. Len(registered)
    BY <1>1, <1>4, <2>1
  <2>3. \A i \in 1 .. Len(delivered') : delivered'[i][1] < at'
    BY <1>1, <1>2, <2>1
  <2>4. \A r \in 1 .. Len(registered) : r < at' => Got(r)' \/ r \in gone'
    BY <1>1, <2>1
  <2> QED
    BY <1>1, <2>1, <2>2, <2>3, <2>4 DEF EventsInv
<1> QED
  BY <1>3, <1>4

\* Every step of an event source keeps its invariant.
LEMMA EventsStep == EventsInv /\ [EventsNext]_eventVars => EventsInv'
<1> SUFFICES ASSUME EventsInv, [EventsNext]_eventVars PROVE EventsInv'
  OBVIOUS
<1>0. /\ Len(registered) \in Nat /\ Len(delivered) \in Nat /\ at \in 0 .. Len(registered)
      /\ \A i \in 1 .. Len(delivered) : delivered[i][1] \in Nat /\ delivered[i] \in Nat \X BOOLEAN
  BY DEF EventsInv
<1>1. ASSUME NEW sink \in Sinks, add_sink(sink) PROVE EventsInv'
  <2>1. /\ at = 0 /\ delivered = <<>> /\ gone = {} /\ registered' = Append(registered, sink)
        /\ UNCHANGED <<expired, at, delivered, gone>>
    BY <1>1 DEF add_sink
  <2>2. registered' \in Seq(Sinks) /\ Len(registered') = Len(registered) + 1
    BY <2>1 DEF EventsInv
  <2> QED
    BY <1>0, <2>1, <2>2 DEF EventsInv
<1>2. ASSUME NEW sink \in Sinks, Expire(sink) PROVE EventsInv'
  BY <1>2 DEF Expire, EventsInv, Got
<1>3. CASE EmitEvent
  <2>1. registered # <<>> /\ at' = 1 /\ delivered' = <<>> /\ gone' = {} /\ registered' = registered
    BY <1>3 DEF EmitEvent
  <2>2. 1 \in 0 .. Len(registered)
    BY <2>1 DEF EventsInv
  <2>3. Len(delivered') = 0 /\ delivered' \in Seq(Nat \X BOOLEAN)
    BY <2>1
  <2> QED
    BY <1>0, <2>1, <2>2, <2>3 DEF EventsInv
<1>4. CASE SkipExpired
  <2>1. at # 0 /\ gone' = gone \cup {at} /\ NextSink /\ registered' = registered /\ delivered' = delivered
    BY <1>4 DEF SkipExpired
  <2>2. \A r \in 1 .. Len(registered) : r <= at => Got(r)' \/ r \in gone'
    <3> SUFFICES ASSUME NEW r \in 1 .. Len(registered), r <= at PROVE Got(r)' \/ r \in gone'
      OBVIOUS
    <3>1. r < at \/ r = at
      BY <1>0
    <3>2. Got(r) => Got(r)'
      BY <2>1 DEF Got
    <3> QED
      BY <2>1, <3>1, <3>2 DEF EventsInv
  <2>3. \A i \in 1 .. Len(delivered') : delivered'[i][1] <= at /\ ~delivered'[i][2]
    BY <1>0, <2>1 DEF EventsInv
  <2>4. \A i, j \in 1 .. Len(delivered') : i < j => delivered'[i][1] < delivered'[j][1]
    BY <2>1 DEF EventsInv
  <2>5. delivered' \in Seq(Nat \X BOOLEAN)
    BY <2>1 DEF EventsInv
  <2> QED
    BY <2>1, <2>2, <2>3, <2>4, <2>5, LooksAtEach
<1>5. ASSUME NEW handled \in BOOLEAN, HandleEvent(handled) PROVE EventsInv'
  <2> DEFINE n == Len(delivered)
             new == <<at, handled>>
  <2>1. at # 0 /\ delivered' = Append(delivered, new) /\ registered' = registered /\ gone' = gone
    BY <1>5 DEF HandleEvent
  <2>2. new \in Nat \X BOOLEAN /\ new[1] = at /\ new[2] = handled
    BY <1>0
  <2> HIDE DEF new
  <2>3. /\ delivered' \in Seq(Nat \X BOOLEAN) /\ Len(delivered') = n + 1
        /\ delivered'[n + 1] = new /\ \A i \in 1 .. n : delivered'[i] = delivered[i]
    BY <2>1, <2>2 DEF EventsInv
  <2>4. \A i \in 1 .. n : delivered[i][1] < at /\ ~delivered[i][2]
    BY <2>1 DEF EventsInv
  <2> HIDE DEF n
  <2>5. n \in Nat
    BY <1>0 DEF n
  <2>6. \A i \in 1 .. n + 1 : i \in 1 .. n \/ i = n + 1
    BY <2>5
  <2>7. \A i, j \in 1 .. n + 1 : i < j => delivered'[i][1] < delivered'[j][1] /\ ~delivered'[i][2]
    <3> SUFFICES ASSUME NEW i \in 1 .. n + 1, NEW j \in 1 .. n + 1, i < j
                 PROVE  delivered'[i][1] < delivered'[j][1] /\ ~delivered'[i][2]
      OBVIOUS
    <3>1. i \in 1 .. n
      BY <2>5
    <3>2. delivered'[i] = delivered[i] /\ ~delivered[i][2]
      BY <2>3, <2>4, <3>1
    <3>3. CASE j \in 1 .. n
      <4>1. delivered[i][1] < delivered[j][1] /\ delivered'[j] = delivered[j]
        BY <2>3, <3>1, <3>3 DEF EventsInv, n
      <4> QED
        BY <3>2, <4>1
    <3>4. CASE j = n + 1
      BY <2>2, <2>3, <2>4, <3>1, <3>2, <3>4
    <3> QED
      BY <2>6, <3>3, <3>4
  <2>8. \A r \in 1 .. Len(registered) : r <= at => Got(r)' \/ r \in gone'
    <3> SUFFICES ASSUME NEW r \in 1 .. Len(registered), r <= at PROVE Got(r)' \/ r \in gone'
      OBVIOUS
    <3>1. r < at \/ r = at
      BY <1>0
    <3>2. CASE r = at
      <4>1. n + 1 \in 1 .. Len(delivered') /\ delivered'[n + 1][1] = r
        BY <2>2, <2>3, <2>5, <3>2
      <4> QED
        BY <4>1 DEF Got
    <3>3. CASE r < at
      <4>1. CASE r \in gone
        BY <2>1, <4>1
      <4>2. CASE Got(r)
        <5>1. PICK i \in 1 .. n : delivered[i][1] = r
          BY <4>2 DEF Got, n
        <5>2. i \in 1 .. Len(delivered') /\ delivered'[i][1] = r
          BY <2>3, <2>5, <5>1
        <5> QED
          BY <5>2 DEF Got
      <4> QED
        BY <2>1, <3>3, <4>1, <4>2 DEF EventsInv
    <3> QED
      BY <3>1, <3>2, <3>3
  <2>9. CASE ~handled
    <3>1. NextSink
      BY <1>5, <2>9 DEF HandleEvent
    <3>2. \A i \in 1 .. Len(delivered') : delivered'[i][1] <= at /\ ~delivered'[i][2]
      <4> SUFFICES ASSUME NEW i \in 1 .. n + 1 PROVE delivered'[i][1] <= at /\ ~delivered'[i][2]
        BY <2>3
      <4>1. CASE i \in 1 .. n
        <5>1. delivered'[i] = delivered[i] /\ delivered[i][1] < at /\ ~delivered[i][2] /\ delivered[i][1] \in Nat
          BY <1>0, <2>3, <2>4, <4>1 DEF n
        <5> QED
          BY <1>0, <5>1
      <4>2. CASE i = n + 1
        BY <1>0, <2>2, <2>3, <2>9, <4>2
      <4> QED
        BY <2>6, <4>1, <4>2
    <3> QED
      BY <2>1, <2>3, <2>7, <2>8, <3>1, <3>2, LooksAtEach
  <2>10. CASE handled
    <3>1. at' = 0
      BY <1>5, <2>10 DEF HandleEvent
    <3>2. \A r \in 1 .. Len(registered) :
            Got(r)' \/ r \in gone'
            \/ (Len(delivered') > 0 /\ delivered'[Len(delivered')][2] /\ r > delivered'[Len(delivered')][1])
      <4> SUFFICES ASSUME NEW r \in 1 .. Len(registered), ~(r <= at)
                   PROVE  Len(delivered') > 0 /\ delivered'[Len(delivered')][2] /\ r > delivered'[Len(delivered')][1]
        BY <2>8
      <4>1. r > at /\ Len(delivered') > 0
        BY <1>0, <2>3, <2>5
      <4> QED
        BY <2>2, <2>3, <2>10, <4>1
    <3>3. 0 \in 0 .. Len(registered)
      BY <1>0
    <3> QED
      BY <2>1, <2>3, <2>7, <3>1, <3>2, <3>3 DEF EventsInv
  <2> QED
    BY <2>9, <2>10
<1>6. CASE UNCHANGED eventVars
  BY <1>6 DEF eventVars, EventsInv, Got
<1> QED
  BY <1>1, <1>2, <1>3, <1>4, <1>5, <1>6 DEF EventsNext

\* Every event reaches the sinks in the order of their registration, up to the
\* first that handles it, and passes over none but those that are gone: for any
\* number of sinks, whenever their objects go.
THEOREM EventsAreDelivered == EventsInit /\ [][EventsNext]_eventVars => []DeliveredInOrder
<1>1. EventsInit => EventsInv
  <2> SUFFICES ASSUME EventsInit PROVE EventsInv
    OBVIOUS
  <2>1. registered = <<>> /\ at = 0 /\ delivered = <<>> /\ gone = {}
    BY DEF EventsInit
  <2>2. Len(delivered) = 0 /\ delivered \in Seq(Nat \X BOOLEAN) /\ registered \in Seq(Sinks) /\ Len(registered) = 0
    BY <2>1
  <2> QED
    BY <2>1, <2>2 DEF EventsInv
<1>2. EventsInv => DeliveredInOrder
  BY DEF EventsInv, DeliveredInOrder, Got
<1> QED
  BY <1>1, <1>2, EventsStep, PTL

=============================================================================
