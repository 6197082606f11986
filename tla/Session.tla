------------------------------ MODULE Session ------------------------------
(***************************************************************************)
(* One client session (src/openrs/src/net/session.cpp) and the four stages *)
(* of its protocol: the decoders, handlers and encoders of                 *)
(* src/openrs/src/net/codec.  The client sends any bytes, and TCP delivers *)
(* them in pieces of any size; what a byte says is a choice of the step    *)
(* that reads it, so buffer_input_ is its size and its position.           *)
(***************************************************************************)
EXTENDS Naturals

CONSTANTS
  MaxInput,    \* bound: bytes in buffer_input_
  LoginSize    \* the least number of bytes of a login that is accepted

ASSUME InputAssumption ==
  /\ MaxInput \in Nat /\ LoginSize \in Nat /\ LoginSize >= 13

VARIABLES
  status,      \* status_
  decoder, handler, encoder,   \* the stage each of the three is for
  online,      \* player_index_ is set
  size,        \* buffer_input_.size()
  position,    \* buffer_input_.position()
  phase,       \* "idle" between two Reads; "reading"; "thrown"
  lost,        \* history: the encoder had no code for a reply
  refused,     \* history: a packet of the login stage did not log in
  pipelined    \* history: a read held bytes behind an accepted handshake

stageVars == <<status, decoder, handler, encoder, online>>
vars == <<status, decoder, handler, encoder, online, size, position, phase,
          lost, refused, pipelined>>

Stages == {"global", "grab", "login", "world"}

TypeOK ==
  /\ status \in {"kConnected", "kDownloadingCache", "kLoggingIn", "kDisconnected"}
  /\ decoder \in Stages /\ handler \in Stages /\ encoder \in Stages
  /\ online \in BOOLEAN
  /\ size \in 0 .. MaxInput /\ position \in Nat
  /\ phase \in {"idle", "reading", "thrown"}
  /\ lost \in BOOLEAN /\ refused \in BOOLEAN /\ pipelined \in BOOLEAN

Init ==
  /\ status = "kConnected"
  /\ decoder = "global" /\ handler = "global" /\ encoder = "global"
  /\ online = FALSE
  /\ size = 0 /\ position = 0 /\ phase = "idle"
  /\ lost = FALSE /\ refused = FALSE /\ pipelined = FALSE

-----------------------------------------------------------------------------
(* Decoders: the packets they can return for the bytes at hand *)

Packet(type, length, next) == [type |-> type, length |-> length, next |-> next]

\* Decoder: a code, then a length and as many bytes, unless the code is the
\* last byte received. A length is refused when nothing follows it.
GlobalPackets(types) ==
  IF position + 1 = size
  THEN {Packet(type, 0, size) : type \in types}
  ELSE {Packet(type, length, position + 2 + length) :
          type \in types, length \in {n \in 0 .. size - position - 2 : position + 2 < size}}

\* LoginDecoder: a login takes everything received so far; other codes are
\* left to Decoder.
LoginPackets ==
  {Packet(type, size - position - 1, size) : type \in {"kLoginWorld", "kLoginLobby"}}
    \cup GlobalPackets({"kHandshake", "kLogin", "kGrabCache"})

\* WorldDecoder: packets of fixed sizes, cut short by the end of the input.
\* Its codes hide those of kLogin and kGrabCache.
WorldSizes == [kPing |-> 0, kAFK |-> 2, kReceivedPacketCount |-> 4,
               kScreen |-> 6, kActionButton |-> 8]

WorldPackets ==
  LET rest == size - position - 1
      Length(type) == IF WorldSizes[type] <= rest THEN WorldSizes[type] ELSE rest
  IN {Packet(type, Length(type), position + 1 + Length(type)) : type \in DOMAIN WorldSizes}
       \cup GlobalPackets({"kHandshake"})

\* GrabDecoder: the whole buffer, from its beginning, is the data of the
\* packet, however much of it has been read already.
GrabPackets ==
  IF position + 6 <= size THEN {Packet("kGrabCache", size, position + size)} ELSE {}

Decoded ==
  IF decoder = "login" THEN LoginPackets
  ELSE IF decoder = "world" THEN WorldPackets
  ELSE IF decoder = "grab" THEN GrabPackets
  ELSE GlobalPackets({"kHandshake", "kLogin", "kGrabCache"})

\* Where the position is left when decoding fails: the code, and the length if
\* there is one, have been consumed.
FailsAt ==
  IF decoder = "grab" THEN {position}
  ELSE {position + 1} \cup {n \in {position + 2} : n <= size}

-----------------------------------------------------------------------------
(* Encoders *)

\* The packets each encoder has a code for; all fall back to Encoder's.
Codes(stage) ==
  {"kClientOutdated"} \cup
  IF stage = "grab" THEN {"kStartUp", "kGrabCache"}
  ELSE IF stage = "login" THEN {"kStartUp", "kErrorSession", "kErrorInvalidLogin",
                                "kErrorInvalidLoginServer"}
  ELSE IF stage = "world" THEN {"kLoginDetails", "kMapRegion", "kLocalPlayerUpdate",
                                "kPing"}
  ELSE {}

\* Send: a packet the encoder does not know is dropped. The encoder is the one
\* set when the packet is sent.
Send(types, stage) == lost' = (lost \/ ~(types \subseteq Codes(stage)))

-----------------------------------------------------------------------------
(* Read *)

\* The socket has data: it is appended to what an earlier Read left.
ReadBegins ==
  /\ phase = "idle" /\ status # "kDisconnected"
  /\ \E more \in size + 1 .. MaxInput : size' = more
  /\ phase' = "reading"
  /\ UNCHANGED <<stageVars, position, lost, refused, pipelined>>

\* The client ended the connection.
ReadEnds ==
  /\ phase = "idle" /\ status # "kDisconnected"
  /\ status' = "kDisconnected"
  /\ UNCHANGED <<decoder, handler, encoder, online, size, position, phase, lost, refused, pipelined>>

\* Seeded defect: the bytes are cleared, the position stays.
ReadFinishesKeepsPosition ==
  /\ phase = "reading" /\ position = size
  /\ size' = 0 /\ phase' = "idle"
  /\ UNCHANGED <<stageVars, position, lost, refused, pipelined>>

\* All input is handled.
ReadFinishes ==
  /\ phase = "reading" /\ position = size
  /\ size' = 0 /\ position' = 0 /\ phase' = "idle"
  /\ UNCHANGED <<stageVars, lost, refused, pipelined>>

\* Read gives up and keeps the buffer.
DecodeFails ==
  /\ phase = "reading" /\ position < size
  /\ position' \in FailsAt
  /\ phase' = "idle"
  /\ UNCHANGED <<stageVars, size, lost, refused, pipelined>>

\* remaining() has wrapped around, and GrabDecoder's at() throws.
DecodeThrows ==
  /\ phase = "reading" /\ position > size /\ decoder = "grab"
  /\ phase' = "thrown"
  /\ UNCHANGED <<stageVars, size, position, lost, refused, pipelined>>

Consume(packet) ==
  /\ phase = "reading" /\ position < size
  /\ packet \in Decoded
  /\ position' = packet.next
  /\ UNCHANGED <<size, phase>>

Ignore == UNCHANGED <<stageVars, lost>>

\* Seeded defect: SetEncoder is forgotten.
EnterKeepsEncoder(stage) == decoder' = stage /\ handler' = stage /\ UNCHANGED encoder

Enter(stage) == decoder' = stage /\ encoder' = stage /\ handler' = stage

-----------------------------------------------------------------------------
(* PacketHandler *)

\* kHandshake: too short; or from a client that is out of date; or accepted.
\* The token is read and not compared with anything.
Handshake(packet) ==
  /\ handler = "global" /\ status = "kConnected" /\ packet.type = "kHandshake"
  /\ Consume(packet)
  /\ \/ packet.length < 8 /\ Ignore /\ UNCHANGED pipelined
     \/ /\ packet.length >= 8 /\ Send({"kClientOutdated"}, encoder)
        /\ UNCHANGED <<stageVars, pipelined>>
     \/ /\ packet.length >= 8
        /\ status' = "kDownloadingCache"
        /\ Enter("grab") /\ Send({"kStartUp"}, encoder')
        /\ pipelined' = (pipelined \/ packet.next < size)
        /\ UNCHANGED online
  /\ UNCHANGED refused

\* Seeded defect: the status is not looked at.
LoginRequestUnchecked(packet) ==
  /\ handler = "global" /\ packet.type = "kLogin"
  /\ Consume(packet)
  /\ status' = "kLoggingIn"
  /\ Enter("login") /\ Send({"kStartUp"}, encoder')
  /\ UNCHANGED <<online, refused, pipelined>>

\* Seeded defect: the reply is sent before the encoder is set.
LoginRequestRepliesFirst(packet) ==
  /\ handler = "global" /\ status = "kConnected" /\ packet.type = "kLogin"
  /\ Consume(packet)
  /\ status' = "kLoggingIn"
  /\ Send({"kStartUp"}, encoder) /\ Enter("login")
  /\ UNCHANGED <<online, refused, pipelined>>

LoginRequest(packet) ==
  /\ handler = "global" /\ status = "kConnected" /\ packet.type = "kLogin"
  /\ Consume(packet)
  /\ status' = "kLoggingIn"
  /\ Enter("login") /\ Send({"kStartUp"}, encoder')
  /\ UNCHANGED <<online, refused, pipelined>>

Reject(packet) ==
  /\ handler = "global"
  /\ ~(status = "kConnected" /\ packet.type \in {"kHandshake", "kLogin"})
  /\ Consume(packet)
  /\ status' = "kDisconnected"
  /\ UNCHANGED <<decoder, handler, encoder, online, lost, refused, pipelined>>

-----------------------------------------------------------------------------
(* GrabPacketHandler: any of the requests may be answered, the last may ask to
   be disconnected. *)

Grab(packet) ==
  /\ handler = "grab"
  /\ Consume(packet)
  /\ \E replies \in SUBSET {"kGrabCache"} : Send(replies, encoder)
  /\ status' \in {status, "kDisconnected"}
  /\ UNCHANGED <<decoder, handler, encoder, online, refused, pipelined>>

-----------------------------------------------------------------------------
(* LoginPacketHandler: every call resets the decoder before anything else. *)

\* Seeded defect: the decoder stays LoginDecoder.
LoginRefusedKeepsDecoder(packet) ==
  /\ handler = "login"
  /\ Consume(packet)
  /\ UNCHANGED stageVars
  /\ refused' = TRUE /\ UNCHANGED <<lost, pipelined>>

\* Replies of HandleLoginWorld to a login it refuses.
Errors == {"kErrorSession", "kErrorInvalidLogin", "kClientOutdated",
           "kErrorInvalidLoginServer"}

LoginRefused(packet) ==
  /\ handler = "login"
  /\ Consume(packet)
  /\ decoder' = "global"
  /\ \/ UNCHANGED <<encoder, lost>>
     \/ /\ packet.length >= 10
        /\ encoder' = "global" /\ Send({"kClientOutdated"}, encoder')
     \/ /\ packet.type = "kLoginWorld" /\ packet.length >= 13
        /\ \E error \in Errors : Send({error}, encoder)
        /\ UNCHANGED encoder
  /\ UNCHANGED <<status, handler, online, pipelined>>
  /\ refused' = TRUE

\* Every check passed: the session gets its player, whose StartPlayer packets
\* are represented by kMapRegion.
LoginAccepted(packet) ==
  /\ handler = "login" /\ packet.type = "kLoginWorld" /\ packet.length >= LoginSize
  /\ Consume(packet)
  /\ Enter("world") /\ online' = TRUE
  /\ Send({"kLoginDetails", "kMapRegion", "kLocalPlayerUpdate"}, encoder')
  /\ UNCHANGED <<status, refused, pipelined>>

\* An account whose id or rights do not fit SendLoginDetails' fields ends the
\* process after its player was added; so does an error of the database.
LoginThrows(packet) ==
  /\ handler = "login" /\ packet.type = "kLoginWorld" /\ packet.length >= LoginSize
  /\ phase = "reading" /\ position < size /\ packet \in Decoded
  /\ phase' = "thrown"
  /\ \/ decoder' = "global" /\ refused' = TRUE /\ UNCHANGED <<handler, encoder, online>>
     \/ Enter("world") /\ online' = TRUE /\ UNCHANGED refused
  /\ UNCHANGED <<status, size, position, lost, pipelined>>

-----------------------------------------------------------------------------
(* WorldPacketHandler; what a screen packet changes is in WorldManager. *)

\* Seeded defect: a packet of the first stage is rejected as it is there.
WorldRejects(packet) ==
  /\ handler = "world"
  /\ Consume(packet)
  /\ status' = IF packet.type = "kHandshake" THEN "kDisconnected" ELSE status
  /\ UNCHANGED <<decoder, handler, encoder, online, lost, refused, pipelined>>

World(packet) ==
  /\ handler = "world"
  /\ Consume(packet)
  /\ IF packet.type = "kPing" THEN Send({"kPing"}, encoder) ELSE UNCHANGED lost
  /\ UNCHANGED <<stageVars, refused, pipelined>>

\* The world manager sends the update of another player's login.
WorldUpdate ==
  /\ phase = "idle" /\ online
  /\ Send({"kLocalPlayerUpdate"}, encoder)
  /\ UNCHANGED <<stageVars, size, position, phase, refused, pipelined>>

-----------------------------------------------------------------------------

Handle(packet) ==
  \/ Handshake(packet) \/ LoginRequest(packet) \/ Reject(packet)
  \/ Grab(packet)
  \/ LoginRefused(packet) \/ LoginAccepted(packet) \/ LoginThrows(packet)
  \/ World(packet)

\* The loop of Read.
Reading ==
  \/ ReadFinishes \/ DecodeFails \/ DecodeThrows
  \/ position < size /\ \E packet \in Decoded : Handle(packet)

\* The reactor drops the session, or main has returned.
Ended ==
  /\ phase = "thrown" \/ (phase = "idle" /\ status = "kDisconnected")
  /\ UNCHANGED vars

Next == ReadBegins \/ ReadEnds \/ Reading \/ WorldUpdate \/ Ended

Spec == Init /\ [][Next]_vars

-----------------------------------------------------------------------------
(* Properties *)

\* The three parts of a session are always for the same stage of the protocol,
\* but for a session whose login was refused: it keeps the handler of the login
\* stage with the decoder of the first.
StagesAgree ==
  \/ decoder = handler /\ encoder = handler
  \/ refused /\ handler = "login" /\ decoder = "global" /\ encoder \in {"login", "global"}

\* No reply is dropped for want of a code: it is sent under an encoder that has
\* one, updates caused by other sessions included.
RepliesEncodable == ~lost

\* A connection is good for one attempt: a session whose login was refused never
\* gets a player, whatever it sends afterwards.
OneAttempt == refused => ~online

\* A session that is online stays so, and only the end of its connection
\* disconnects it: no packet does, and none logs it in again.
OnlineUntilClosed ==
  [][online => /\ online'
               /\ phase = "reading" => UNCHANGED stageVars]_vars

\* Read goes on with the rest of the buffer after a packet that disconnects the
\* session; nothing in it brings the session back or gives it a player.
DisconnectIsFinal ==
  [][status = "kDisconnected" => status' = status /\ online' = online]_vars

\* As long as no bytes come in one read with a handshake, and behind it, the
\* position never passes the end of the input: remaining() does not wrap around.
InsideUnlessPipelined == ~pipelined => position <= size

\* Whatever the client sends early, only a session that downloads the cache can
\* ever read past its input: never one on its way to a player or with one.
OverrunsOnlyInGrab == position > size => decoder = "grab" /\ handler = "grab"

\* Where Read can be when it asks for what remains of its input.
PositionInside == InsideUnlessPipelined /\ OverrunsOnlyInGrab

\* packethandler.cpp:68 "Make sure the next packets are handled correctly.": the
\* packets after an accepted handshake do not make Read throw.
NextPacketsHandled == phase = "thrown" => handler # "grab"
=============================================================================
